# chatweb in TLA+

This directory holds TLA+ models of chatweb, a chat system with a C server
(`server/`), a C client (`client/`) and a TypeScript web client (`web/`), the
TLC configurations that check the models on small instances, and TLAPS proofs
that hold for every size. Paths below are relative to the repository's root;
`connection.c:1389` means `server/src/connection.c`, line 1389, and likewise
for the other files of `server/src`.

The models are written from the code, not from its comments. In two places a
run that TLC must find violated shows that the code does not do what a comment
or a test says of it (section 6); other disagreements are described in
section 10.

- [1 The system](#1-the-system)
- [2 Layout](#2-layout)
- [3 Modules and code](#3-modules-and-code)
- [4 Runs](#4-runs)
- [5 Fairness](#5-fairness)
- [6 Where the code disagrees](#6-where-the-code-disagrees)
- [7 Proofs](#7-proofs)
- [8 Only model-checked](#8-only-model-checked)
- [9 Not modelled](#9-not-modelled)
- [10 Other observations](#10-other-observations)

Running it:

    tlc -workers 2 -config mq_serve.cfg MCMessageQueue
    tlapm MessageQueue_proofs.tla

The MC module of a run has the prefix of its configuration: `mq_*`
MCMessageQueue, `lists_*` MCTaskLists, `tp_*` MCThreadPool, `srv_*`
MCServerCore, `files` MCFiles, `network` MCNetwork, `backend` and `auth_token`
MCBackend, `clients` MCClients.

## 1 The system

A server process builds its parts in `server_init`, runs three threads of its
own (accept, cleanup, maintenance) beside those of the WebSocket server, the
file transfer manager, the monitoring manager and the thread pool, and takes
everything down in `server_stop`. Nearly all coordination is by pthread
mutexes and condition variables, so the hard behaviours are interleavings,
wakeups, the order of construction and destruction, and cancellation.

### Components

For each: what it keeps, what changes it, whom it talks to, what is hard, and
what makes it correct.

**Message queue** (`connection.c:1287-1475`). A ring of message pointers,
`head`, `tail`, `count`, a mutex, `not_empty`, `not_full`. Operations: create,
push and pop with or without timeout, size, clear, destroy. Shared by producer
and consumer threads. Hard: one signal per operation, threads that come in
between a signal and the wakeup, timeouts that race with signals, stale
pointers in vacated slots. Correct: FIFO, nothing lost or duplicated, one owner
per message, nobody sleeps on a condition that holds. *Modelled.*

**Task queues** (`threadpool.c:320-395, 400-510`). Three singly linked lists
(high, normal, low) with three head pointers and one tail pointer for all.
Operations: append, push urgent, take, drop all. Hard: the shared tail.
Correct: every record is linked once, reachable, and on its own list.
*Modelled.*

**Thread pool** (`threadpool.c`). The lists, `stats.queue_length`,
`active_threads`, `thread_count`, `state`, `shutdown_requested`; condition
variables `queue_not_empty`, `queue_not_full`, `all_tasks_done`. Operations:
add, add urgent, wait, pause, resume, resize, adjust (scaling), destroy, and
the worker loop. Hard: state tested before the mutex is taken, destruction
against submissions and against resizing, counters apart from what they count.
Correct: an accepted task runs exactly once, destroy returns and leaves no
thread. *Modelled.*

**Server core** (`server_core.c`). `state`, `running`, pointers to the parts,
three threads, the audit log. Operations: create, init, start, stop, destroy,
wait for state, restore, backup, and the loops of the threads. Uses every
other part. Hard: `running` and `state` are set apart; failure of any step of
init and of thread creation; `pthread_cancel`; parts destroyed under running
threads. Correct: no thread outlives the parts, each thread is joined once,
SHUTDOWN means nothing is left, calls return. *Life cycle modelled; the traffic,
backup and administration functions are not.*

**Connection pool, framing, rate limiter** (`connection.c`). An array of
connections with `lock` and `rwlock`, receive buffers, a per-connection window
counter. Operations: add, remove, find, broadcast, resize, expire, receive,
send. Hard: two locks that do not exclude each other, a mutex taken twice when
the pool is full, header and body rate-limited apart. Correct: the count
matches the slots, every complete message is delivered once, with its own
body. *Modelled but for TLS and the blocking receive.*

**Message handler** (`message_handler.c`). A table of handlers, statistics;
the handlers change connections, presence, groups and the database. Hard:
entry used after unlock, check and insert in two critical sections, order
inside logout. Correct: only a user who is logged in acts, membership is
bounded, what is answered is what the tables hold. *Modelled: dispatch
(MessageHandler), the handlers of login, logout, groups and texts
(MessageHandler) and those of group creation, files and accounts (Requests).*

**Database layer** (`database.c`). A pool of SQLite connections with `in_use`
flags and one condition variable; statements, transactions, batches. Hard: one
timed wait instead of a loop, transactions left open on a released connection,
a process that ends inside a migration.
Correct: one user per connection, no wakeup lost, a batch or a migration is in
the database whole or not at all. *Modelled (DbPool, Migrations); the queries
are not.* A second
layer (`database1.c` with `database_backup.c`, `database_migration.c`,
`database_monitor.c`) is not modelled.

**WebSocket server** (`websocket_server.c`). A table of clients under
`clients_mutex`; accept, worker and cleanup threads; handshake, fragments,
pings. Hard: `remove_client` takes the mutex its callers hold, limit tested and
client inserted apart, callbacks under the mutex. Correct: the count matches
the table, fragments are not lost, the stop returns. *Modelled.*

**File transfer** (`file_transfer.c`, `websocket_file_transfer.c`). Sessions
with a status, a hash map and lists that share link fields, a manager thread;
a table of upload and download contexts. Hard: the manager's tick against the
calls, completed sessions processed again, chunks that come twice, out of order
or not at all. Correct: a file that arrives is whole, lists and slots match
the sessions. *Modelled.*

**Authentication** (`auth.c`). Users, failed-attempt counters, lockout,
sessions, rate limits in SQLite under `db_mutex`. Hard: `db_mutex` taken twice
at lockout, limit tested and used in separate critical sections. Correct:
failures are limited, an issued token is accepted. *Modelled.*

**Monitoring** (`monitoring.c`). Ring buffers of history and snapshots, alerts
under `alert_mutex`, a collection and an alert thread. Hard: `alert_mutex`
taken twice, rings that turn over. Correct: the rings hold the newest entries.
*Modelled.*

**Configuration manager** (`config.c`). Sections of typed items with defaults
and validators, under one mutex, and the file they are read from and written
to. Hard: names cut to their buffers, values that do not survive being printed
and read. Correct: what was saved is what the next start reads. *Modelled; most
of the calls that config.h declares are defined nowhere.*

**Utilities** (`utils.c`), **user manager** (header and WebSocket glue only;
`user_manager.c` is empty), **shared protocol headers** (`common/`): data and
helpers without protocol state. *Not modelled.*

**Server program** (`main.c` of the root; `server/src/main.c` cannot be
linked). A PID file, signal flags, modules built and torn down around the life
cycle of the server, a monitoring thread. Hard: several processes, kills, and
one clean-up for every way a start can fail. Correct: one instance at a time.
*Modelled.*

**C client** (`client/core.c`). Connection state, receive, heartbeat and
reconnect threads that share fields without a lock. Hard: reconnect against
disconnect. Correct: after a disconnect nothing goes on. *Modelled but for
message contents.*

**Web client** (`web/`). `websocket-client.ts`: connection states, reconnect
timers, pending requests. `offline-sync.ts`: messages in IndexedDB, changed
across `await`s. `file-transfer.ts`: queues of transfers. `group-manager.ts`:
group keys and their rotation. Hard: late events of old sockets,
read-modify-write across an await, overlapping calls. Correct: replies match
requests, one synchronisation at a time, nothing unsent is lost, no transfer is
stranded, versions name their keys. *These four modelled; encryption,
permissions and interface are not.*

### Hazards

`PROJECT.json` lists 40 hazards, each at its line, with the properties that
cover it. Those below exist too and no property covers them, mostly because the
code goes wrong there on the first pass (section 10), so that there is nothing
to check, or because they are local to one line:

| where | what |
|---|---|
| `connection.c:1468` | clear empties the queue while producers sleep on not_full and signals nobody. |
| `threadpool.c:229` | When the creation of a thread fails, threadpool_create calls threadpool_destroy, which joins thread_count entries of a malloc'ed, uninitialised threads[] array. |
| `threadpool.c:269` | active_threads is unsigned, starts at 0 and is decremented before the first wait, so it wraps; it is only reported. |
| `threadpool.c:645` | threadpool_wait decides by queue_length, which is decremented when a task is taken: it returns while tasks are executed. |
| `threadpool.c:695` | threadpool_resize reallocates thread_stats under queue_mutex while workers write their entry under stat_mutex. |
| `threadpool.c:794` | A shrink lowers config.max_threads and stops no thread; a later high load then computes fewer threads than there are and asks for a shrink. |
| `threadpool.c:833` | threadpool_resume during threadpool_destroy(pool, true) sets state back to RUNNING without the mutex: the broadcast destroy waits for is then never sent. |
| `server_core.c:146` | server_destroy waits 10 seconds for SHUTDOWN and then frees the instance, while a graceful stop in another thread may still wait up to 30 seconds. |
| `server_core.c:689` | The instance is calloc'ed, so epoll_fd and tcp_fd start as 0, and a failed server_init_network leaves closed numbers in them: server_cleanup_components closes descriptors that are not the server's. |
| `server_core.c:751` | The threads are created before running is set, and test it first: a fast thread ends at once and the server runs without it. |
| `server_core.c:769` | server_stop tests running without a lock: two stops both pass the test, join the same threads and destroy the components twice. |
| `server_core.c:865` | The listening socket is registered edge-triggered but only one connection is accepted per event. |
| `server_core.c:1065` | handle_websocket_connection accepts from the socket of the WebSocket server and neither serves nor closes the descriptor, while that server's accept thread competes for the same connections. |
| `server_core.c:1824` | After server_stop the state is SHUTDOWN for ever, so the server_start in server_restore_data fails and is ignored. |
| `server_core.c:2157` | 30 * 24 * 3600 * 1000 is computed in int and overflows: the retention limit is not 30 days. |
| `message_handler.c:343` | The entry found by find_handler is used after its lock is released; message_handler_unregister may free it meanwhile. |
| `message_handler.c:509` | Logout clears conn->user_id before it tests it to announce the user as offline. |
| `message_handler.c:633` | The array of recipients has a hole at the sender's index and is passed with length user_count - 1. |
| `database.c:1665` | The current version is the highest version that was added, not the highest applied. |
| `database1.c:321` | A slot that is not in use may have no connection yet: it is marked as used, NULL is returned, and nothing ever frees it. |
| `database_migration.c:94` | BEGIN, the scripts and COMMIT each take a connection from the pool, so they may run on different ones. |
| `websocket_server.c:432` | Only clients in state OPEN are put into the set for select, but a client becomes OPEN when its handshake is read. |
| `websocket_server.c:468` | The set is computed before select and read after the lock was released: a descriptor may have been reused. |
| `file_transfer.c:726` | The manager refreshes last_activity_time at every tick, so a stalled transfer never times out. |
| `auth.c:567` | The last wrong password locks the account with db_mutex held, and takes it again. |
| `auth.c:644` | A login inserts two session rows, of which the caller gets one token. |
| `monitoring.c:943` | check_metric_thresholds calls monitoring_add_alert with alert_mutex held, and that function takes it again. |
| `main.c:823` | The monitoring thread uses server_instance without a lock. |
| `main.c:1018` | graceful_shutdown ends with cleanup_modules and main calls it once more, with the logger already NULL. |
| `client/core.c:283` | threads_running is set after the threads that test it are created. |
| `client/core.c:559` | After three missed heartbeats connection_active is cleared, but only a failed read starts the reconnect thread. |
| `web/websocket-client.ts:129` | disconnect forgets pending messages and correlated requests without settling their promises. |
| `web/websocket-client.ts:149` | A failed attempt is retried by onclose and by the rejected promise of connect: two timers, two sockets. |
| `web/offline-sync.ts:314` | A message whose answer times out is sent again with no identity the server could recognise it by. |

## 2 Layout

| module | of | extends, or is shown to implement | checked by |
|---|---|---|---|
| FifoQueue | what the message queue promises | | |
| MessageQueue | message queue | implements FifoQueue | mq_serve, mq_clear |
| TaskQueues | task queues, as sequences | | |
| TaskLists | task queues, as records and pointers | implements TaskQueues | lists_all |
| ThreadPool | thread pool | extends TaskQueues | tp_serve, tp_api |
| ServerCore | life cycle of the server | | srv_life, srv_stop_hangs |
| FileTransfer, WsTransfers | file transfer | together in MCFiles | files |
| ConnectionPool, WebSocketServer, Monitoring | connections, WebSocket server, monitoring | together in MCNetwork | network |
| DbPool, Migrations, Auth, MessageHandler, Requests, Config, Program | database, migrations, authentication, handlers, configuration, server program | together in MCBackend | backend, auth_token |
| Client, WebClient, OfflineSync, WebFiles, Groups | the clients | together in MCClients | clients |
| MessageQueue_proofs, TaskLists_proofs, ThreadPool_proofs, ServerCore_proofs | theorems about one component | extend it | |
| Files_proofs, Network_proofs, Backend_proofs, Clients_proofs | theorems about the components of an MC module, each of its own specification | extend them | |

The components that MCFiles, MCNetwork, MCBackend and MCClients put together
share no state in the code either: each of these modules is the disjoint union
of its components, a variable `side` chosen in the initial state says which one
a behaviour is about, and the others stay in their initial states. Where
components do interact, the composition is in the model: the pool is built on
the task queues, Program takes what `server_init`, `server_start` and
`server_stop` return from what ServerCore shows of them.

## 3 Modules and code

A stretch of code under one mutex is one action; a test made before the mutex
is taken is an action of its own, so that what it saw can be stale. A thread
that sleeps on a condition variable is at `waiting` (or `sleeping`, `asleep`);
a signal moves one such thread, chosen nondeterministically, a broadcast moves
all. Every `pthread_cond_wait` can return spuriously and every
`pthread_cond_timedwait` can time out at any moment. Definitions introduced as
mutation variants are not part of any specification: each is a plausible bug
in the definition that follows it, and shows that a property would notice.

**FifoQueue** is what callers of the message queue may rely on: a bounded
sequence with Enqueue, Dequeue and Clear. **MessageQueue** is the
implementation: `messages`, `head`, `tail`, `count` are the fields of
`message_queue_t`; `pc` says where each thread is; `owner` is a history of who
holds each message. `CallPush`/`CallPop` enter a call with or without
timeout; `PushWaits`, `PushStores`, `PushTimesOut` and the three `Pop` actions
are one pass through the loop under the mutex; `Clear` frees what is inside and
resets the indices without a signal, as the code does; `Destroy` clears and
frees. `Destroy` is enabled with no call in progress, which is what the code
requires of its users. A message may be reused after it was popped or freed
(`Reallocate`), so the runs are unbounded in length.

**TaskQueues** has the three lists as sequences and the shared tail: `Link`
appends after the tail, whichever list that is on; `fault` records the
dereference of a NULL tail, after which nothing happens any more. **TaskLists**
has the same at the level of records and `next` pointers, and is shown to
implement TaskQueues.

**ThreadPool** extends TaskQueues with the workers (`wpc`, `wtask`), clients
(`cpc`, `carg`), the destroyer (`dpc`) and the fields of the pool. The worker
loop is `WorkerWaits`, `WorkerTakes`, `WorkerRuns`, `WorkerScales`,
`WorkerResizes`, `WorkerLeaves`, `WorkerExits`; each function of the header is
a call action (the tests before the mutex) and the actions behind it.
`UseAfterFree` is a client that goes on with a pool that was freed meanwhile.
`active_threads` is unsigned in the code and wraps; it counts modulo
`CounterRange` here. Statistics nobody decides by are left out, as are the
failures of malloc and of pthread_create in `threadpool_create`.

**ServerCore** has one caller per thread of the embedding program, at a place
`pc` inside `server_start`, `server_stop`, `server_destroy`,
`server_restore_data` or `server_wait_for_state`, and the three threads of the
server at places `thr`. `comps` is the set of parts whose pointer is not NULL;
`InitFails` stops `server_init` at any part, with that part's pointer set or
not. `Spawn` and `SpawnFails` are the three `pthread_create` and their
unwinding. `lock` has the two mutexes in which a thread can be cancelled: the
lock of the connection pool and `audit_mutex`; `ActOnCancel` ends a thread in a
blocking call and leaves its mutex taken. `Parts` abstracts the list of parts
to its order and to which are optional; the order matters because a failure
leaves a prefix. The interfaces `server_core.c` calls by names and types the
parts' headers do not declare (`thread_pool_*`, `websocket_server_create` with
a port) are taken at what the calling code does with the results.

**ConnectionPool** has two halves. The pool: `conns` (the slots), `count`,
`abandoned` (counts that `connection_close` gave up without telling the pool),
`adding` (the slot an add is making: between `Add` and `AddCounts` or `AddFails`
lookups find it half made), threads that find, remove and close with pointers
that may be stale, and a thread that hangs in `resize_connection_pool` once the
pool is full. One connection: senders that test both limits of the limiter, on
messages and on bytes, for header and body apart; writes that fail or fall
short (`SendFails`); the stream, and a reader that gets it in pieces of any
length. A message is a header cell and a body cell of `HeaderSize` and
`BodySize`; `torn` records that a frame was cut, by the limiter between its
cells or by a write, or that two senders' cells met.

**WebSocketServer** has the three threads at places `accpc`, `wkpc` and the
cleanup's, the table `clients` and each client's record (state, fragments).
A worker that calls `remove_client` under the mutex is `hung`.
**Monitoring** has the rings of points and snapshots at index level beside a
history of what was added, and the alert store. `HistorySize`, `MaxAlerts` and
`Cooldown` are parameters. Its clock only goes forward (section 9).

**DbPool**: slots with `open` and `in_use`, threads asleep, woken or holding a
slot, and the transactions of SQLite, which is external: deferred, one writer,
and a COMMIT that fails leaves the transaction open (BUSY) or rolls it back
(FULL, IOERR). The users of a connection are statements, batches, backups and
migrations; a migration ignores a failing BEGIN and commits what it finds.
`astray` is what was written into a transaction another call had left open,
`adopted` what a migration committed of it. **Auth**: each critical section of
a login is an action; an HMAC is the text it was made of. **MessageHandler**:
dispatch with its checks, login, logout, groups, texts; `group` is the table
group_members, whose UNIQUE takes a user once, and the SELECT, the INSERT, the
DELETE and the answer may each fail. **Requests**: the handlers that insert
rows, one action per statement, over the one SQLite connection whose
last_insert_rowid they share; a status report carries any status to the manager
of transfers, which is external: `ManagerSets` takes it, or the request is
refused, and `accepted` remembers what it took as completed. **Migrations**:
`db_migrate_apply` one statement at a time; any of them may fail, the COMMIT in
both ways, and the process may end between two. `lost` are the versions of a
round whose COMMIT was rolled back. **Config**: items by section and key, the
file as its lines, and what printing, trimming, cutting and converting make of
a value: six decimals of a FLOAT, and of a text that is too long for the
reader's line (`Wide`) a first part and a rest that is read as the next line,
be it nothing, a pair or a header. `Registrations` are the types, defaults and
validations programs register. **Program**: main of several processes, one
action per step that can fail, the clean-up shared by all ways out, `Killed` at
any time, and the monitoring thread.

**FileTransfer**: the links of sessions as pointers (`links`), the manager's
walk one session at a time (`mpc`), files as sets of chunks in place; `asked`
remembers whether a session's removal was asked for once or more often.
**WsTransfers**: the table `slots`, requests that use a context after the mutex
was given back, content as the sequence of what was written. A chunk has any
index and any length and goes to whichever context has its id and client, a
download's too; the end of an upload is decided by bytes, as in the code.
`wtfault` records that a closed file or a freed context was used, as by a
download request at a full table.

**Client**: every connection has a number that its socket and threads carry;
`receive_thread` and the like are the shared handles; `reconnect_attempts` is
any of `ReconnectSettings`, 0 included, with which a lost connection ends in
ERROR. **WebClient**,
**OfflineSync**, **WebFiles**, **Groups**: JavaScript runs to completion, so a
step is a turn of the event loop, from one await, timer or event to the next;
what a call read before an await it may use after it.

MC modules instantiate these; `*_proofs` modules hold the theorems.

## 4 Runs

| run | instance | what it shows |
|---|---|---|
| mq_serve | 2 producers, 2 consumers, 3 messages, capacity 1, fair | no wakeup is lost (NoLostWakeup), every message leaves (EveryMessageLeaves) |
| mq_clear | the same with a clearing thread, capacity 2 | OwnershipInv, and that MessageQueue implements FifoQueue (ImplementsFifo) |
| lists_all | 4 tasks, 4 priorities, urgent tasks | TaskLists implements TaskQueues, crossed lists and the NULL dereference included (ImplementsQueues) |
| tp_serve | 2 clients, 3 tasks, one priority and urgent, 1 to 3 workers with scaling, both modes of destroy, no call in progress at destroy, fair | OneOwner, NoTaskStranded, NothingDropped, AcceptedTaskRuns, DestroyFinishes |
| tp_api | 2 clients, 3 tasks, 2 priorities, all other calls, calls racing with destroy | the queue's length is exact through every race up to a memory error (QueueLengthExact) |
| srv_life | 2 callers of which one manages, all calls, four parts (one optional), audit on, fair | ThreadsHaveParts, DbReplacedOnlyWhenStopped, WaitersReturn, CallsReturnUnlessOrphaned |
| files | sessions: 1 user and the manager, 2 sessions of 2 chunks; WebSocket: 2 clients, 3 transfers of a file of 2 units in chunks of 1, chunks of 1 and 2 units, 2 slots; fair manager | UploadsArriveOnce, ListsSound, VerifyingEnds; CompleteMeansWhole, SlotsAccounted |
| network | pool of 2 slots, 2 threads, 4 connections; 2 senders, 3 messages, header of 2 and body of 3 bytes, limits of 3 messages and 6 bytes; WebSocket: limit 2, 3 clients, 1 application, 2 fragments, fair threads; monitoring: rings of 2, 5 half seconds, 2 alerts, 2 starts | PoolAccounts, FramesMatch, ClientsAccounted, StopReturns, RingsKeepNewest |
| backend | database: 3 threads, 2 connections, 3 writing calls, batches of 2; authentication: 2 threads, 1 user, 1 address, limit 1; 2 users on 2 connections, 4 messages; 2 connections, 3 requests; migrations: 3 versions, 2 rounds; configuration: 2 items, names that are empty, cut or not, texts that run over into a pair or a header; 3 processes | ConnectionsShared, BatchesAtomic, FailuresLimited, MessagesAccounted, AnswersTrue, MigrationsWhole, SavedIsRestored, OneInstance |
| clients | C client: 3 connections, with 1 attempt to reconnect or none; web: 3 sockets, 2 requests; offline: 3 messages, 2 openings; files: 2 uploads, 2 downloads, 1 slot each; groups: 4 calls | QuietAfterDisconnect, RepliesMatch, NoBacklogWhenConnected, OneSyncAtATime, UnsentKept, NoneStranded, KeysAgree |
| srv_stop_hangs, auth_token | small | section 6 |

**Bounds, and why they are enough.** *Message queue:* capacity 1 with two
threads on each side is the smallest instance in which producers and consumers
sleep at once, a signal can pick the wrong sleeper and a third thread can come
in between; capacity 2 makes the ring wrap with messages inside. Three
messages fill it while another call is in progress. The theorems of section 7
take the safety properties to any size. *Lists:* four tasks over four
priorities reach all ways the tail can point to another list or be NULL with
non-empty lists. *Pool:* three workers let scaling double from one to two and
on to the limit; two clients and three tasks fill a queue of two
(`queue_size`), submit beside a running destroy, and leave one task to run;
`CounterRange` 8 is larger than any number of threads, so that wrapping below
zero is visible and counting is otherwise exact. Tasks are submitted once each:
a task is a heap record that is new each time. *Life cycle:* one part of each
kind (needed before the database, database, optional, the connection pool that
is locked on destruction) suffices since the others are built and destroyed
alike. One thread manages (`Managers`), which is how main.c uses the core; the
other only waits for a state.

*Files:* two sessions in different buckets are enough for one to be on the
manager's list while the other is inserted or removed, and two chunks for one
to come twice and the other never; what a third session can do to the lists is
covered by ListsAreSound (section 7); a third WebSocket transfer reuses a slot
while a handler may hold its old context; a chunk of two units ends an upload
at once, or overshoots its end. *Network:* four connections in two slots reach
the full pool, stale pointers and slots used again; three messages let a frame
be parted by the limiter with a whole one before and after, and six bytes let
the limit on bytes strike before a body while the one on messages does not;
rings of two turn over twice. *Backend:* three threads on two connections are
the smallest instance in which one sleeps, one is woken and a newcomer takes
its slot; a limit of one with two threads lets both pass the test together; the
third process starts when one has failed or was killed and another still runs;
a batch whose COMMIT failed, a migration on its connection and one more call
fit into three calls; three versions let a round fail in its middle and the
next one begin there; three requests let a row of another table come between an
insertion and the question for its id, or two reports on one transfer; two
items collide in section, key or cut name, or one runs over into the other's
line.
*Clients:* three connections are the first, the one a reconnect opens and the
one a stray thread may open; two rotations can overlap, with a re-initialisation
and a destroy between them.

Deadlock checking is off where the system really may stop: the pool is
destroyed, the instance freed, callers need not call, and the bounds on calls
are used up. It is on in mq_serve. Symmetry (tasks, clients) is used only in
tp_api, which checks no liveness. For each property of a run a mutation
variant in the models shows that a plausible bug would violate it. The type
invariants (`TypeOK`, `CpTypeOK`, ...) hold in these instances; those of the
queue, the pool, the core and the migrations are proved. RingInv, NotAllAsleep
and NoNullTail are stated by theorems only.

## 5 Fairness

- MessageQueue: weak fairness of a thread's pass through the loop once it is
  at the mutex (a pthread mutex is given to its waiters and threads are
  scheduled), and of consumers calling pop again, which is what a consumer loop
  is. Nothing is assumed of producers' calls, of timeouts or of which sleeper
  a signal picks.
- ThreadPool: weak fairness of each worker, of each client inside a call and of
  the destroyer. That the worker's step from running to done is fair means
  that task functions return; the pool cannot do without that assumption.
  Calls, timeouts and spurious wakeups are not fair.
- ServerCore: weak fairness of each caller inside a call and of each thread of
  the server. No call is ever required to be made. The graceful wait of
  `server_stop` ends by its own limit of 30 seconds, and a sleep in the code
  has a bound too.
- FileTransfer: weak fairness of the manager thread's steps; users' calls are
  not fair.
- WebSocketServer: weak fairness of the worker and of the stop; strong fairness
  of the accept and cleanup rounds, which need `clients_mutex` that others take
  and give back again and again. StopReturns excludes the worker that hangs in
  its own mutex, which the code really does (`websocket_server.c:503`).
- The other modules are checked for safety only. NoneStranded states the
  safety part of a liveness property: whoever ends will look at the queue.

## 6 Where the code disagrees

Each is a run TLC must find violated.

| run | the code | what is said of it |
|---|---|---|
| srv_stop_hangs | `server_stop` cancels the cleanup thread inside the pool's critical section (`server_core.c:808`, `connection.c:404-427`) and then needs that lock itself | the stop waits "at most 30 seconds" (`server_core.c:793`) |
| auth_token | a token is signed over a JSON payload, shown as `AT_<user>_<expiry>_<signature>` and cut to 63 characters (`auth.c:739-762`); `validate_token_signature` wants a 64-digit signature over the text before it (`auth.c:879-923`): every token is refused | `assert(result == AUTH_SUCCESS)` of the token a login has just returned (`test_auth.c:33`) |

## 7 Proofs

All theorems hold for every value of the constants that satisfies the named
assumptions, which TLC evaluates in every run.

**MessageQueue_proofs** (CapacityAssumption: capacity a positive number;
ThreadsAssumption: the sets of threads are finite and disjoint;
MessagesAssumption: NULL is no message).

- RingConsistent: `Spec => [](TypeOK /\ RingInv /\ OwnershipInv)`. OwnershipInv
  is not inductive: a store puts in `arg[p]`, read when the call began, perhaps
  many steps ago. The inductive invariant IInv adds CallInv, that a message in a
  call is owned by that call and by no other. Lemmas StoreContents and
  TakeContents say what a store and a take do to the sequence the ring holds;
  the arithmetic modulo the capacity is in Wrap, SlotsDiffer, Shift, EndMoves.
- WakeupsAreNotLost: without a clearing thread, `[]NoLostWakeup`: while somebody
  sleeps, each slot (message) he could use is spoken for by a thread on its way
  to the mutex. This counting form is inductive relative to IInv; "someone is
  awake" is not, because a signal that goes to a thread that has not come back
  yet must cover later operations too. The hypothesis is needed: clear makes
  room and signals nobody (section 10).
- SomeoneIsAwake: follows from it.
- Refinement: `Spec => ImplementsFifo`, with the queue of FifoQueue being the
  occupied stretch of the ring from its head.

**ThreadPool_proofs** (TasksAssumption, PoolAssumption: finite sets, thread
limits in order).

- PoolAccounting: types, and `stats.queue_length` is the number of linked
  tasks, through every operation and race up to a memory error. BaseInv adds
  what a call in progress carries (Asked).
- GracefulDestroy: if destroy is called with no other call in progress, no
  accepted task is dropped and no worker outlives the pool, those included that
  a worker's own scaling adds while the pool is being destroyed. DestroyInv
  says that a worker leaves only when the lists are empty after the shutdown
  request, and that all threads up to `thread_count` have left when cleaning
  begins. The hypothesis is needed: a submission that passed the test of the
  state before the destruction is accepted and then dropped (section 10).
- TaskOwnership: every task has one owner. OwnerInv says that the lists have no
  repetition, neither within nor across, and that offered, queued and running
  tasks are exactly those of a caller, a list and a worker.
- OneLevelIsSafe: with one priority level in use the tail is never NULL when it
  is dereferenced (with two, lists_all reaches the dereference).
- NothingStranded: `[]NoTaskStranded`, the pool's counterpart of
  WakeupsAreNotLost: while a worker sleeps, the linked tasks are no more than
  the workers on their way to the lists. It is inductive relative to BaseInv;
  the lemmas count the set `Heading`: a submission adds one task and wakes one
  (SignalWakesOne), a take removes one of each, and a worker goes to sleep only
  when everything is empty (EmptyStrandsNothing).

**TaskLists_proofs** (ListTasksAssumption: finitely many tasks, NULL is none;
PrioritiesAssumption).

- RecordsImplementLists: `Spec => Queues!QSpec`. The invariant says that there
  are three sequences that hang on the heads (Hang): following `next` leads
  through them to NULL, no record is on them twice, all are allocated, and the
  shared tail is the last record of one of them. It also needs that the tail is
  NULL only while the high list is empty: an urgent task that finds the tail
  NULL becomes the tail, and with a record behind it the next submission would
  cut the list there. It holds because get_next_task takes a tail away only
  from the list it serves, and serves a lower list only when the high one is
  empty. HangFirst, HangLast, HangUrgent and HangTake are the four
  manipulations of pointers. ListIs says that a walk along `next` finds these
  sequences, by induction on its steps: the least step after which the walk
  were anywhere else (LeastOf, from WFMin) would follow one after which it is
  not. WalkExists shows in the same way that the recursive function of the walk
  exists, which gives its equations.

**ServerCore_proofs** (CoreAssumption; Exclusive: management calls do not
overlap).

- SafeLife: whatever fails during `server_init` and `pthread_create`, no thread
  outlives the parts, each thread is joined exactly once, `running` implies
  RUNNING with all threads in place, and SHUTDOWN implies that nothing is left.
  LifeInv says for each place of the one managing caller which threads exist;
  it has one lemma per action.
- RestoreIsSafe: `server_restore_data` replaces the database file only when no
  thread of the server exists.

**Backend_proofs** (each module's own assumption: finite sets, positive sizes).

- SingleInstance: `PgSpec => []OneInstance`. PgInv: who is past the test of the
  PID file, or has a module open, created that file and is the only one. A
  refused start must not remove the file, so PgInv also says that a process at
  its removal has forgotten the path.
- AnswersAreTrue: an answered id stays that of its group since `groups` only
  grows; whoever is about to write "completed" into a row has had it accepted
  by the manager, whatever the manager was told since.
- MigrationsAreWhole: MgPart1 relates what ran and what is stamped inside the
  transaction; without it the property is not inductive, because a COMMIT
  brings both over at once. MgPart2 orders what a round has passed, done, lost
  or in the open transaction, before what is left.
- MessagesAreAccounted: MhLogged says that a message past the validation, of a
  type that needs a user, has one until the message itself takes it away: the
  messages of one connection follow each other. So the insertion, two critical
  sections later, still has a user. MhCounted is the count, with one lemma for
  a message that ends (MhFinishes).
- ConnectionsAreShared: DbHolders, DbOpened and DbWoken are the three parts of
  the property in inductive form; the last one counts free slots against woken
  threads as above.
- FailuresAreLimited: as with members, the failures recorded against an address
  *plus the threads past the test for it* are bounded; a thread that passes the
  test finds few failures, and the threads are no more than they are.
- BatchesAreAtomic: on top of DbHolders, a batch has the transaction of its
  connection to itself (Transactions). What a transaction that nobody runs
  holds of a batch is the whole of it (Left), because the only way to leave one
  open is a failing COMMIT, after the last row; so what a migration adopts is
  whole too. The row of a migration is of a call nobody else has (Fresh), and
  rows are committed only with their whole batch (Database).
- SavedComesBack: CfgInv says of what shape sections and items are, whatever
  was read before. Wrote describes the lines of the first k sections; an
  induction on k shows that every pair comes from one item (Written) and stands
  below its own section's header (SectionOfLine), when sections have names and
  no rest of a line is a header. So reading finds for an item whose names are
  not empty and told apart exactly the lines written for it (Parsed), and
  PrintedIsValid says that the printed text is accepted; that it converts back
  is what Carried asks. CfgAssumption: the files a program is started with are
  sequences, what is printed for numbers is not too long for a line, and there
  are finitely many names.

**Files_proofs.**

- SlotsAreAccounted, CompleteUploadsAreWhole: WtInv has four parts: the shapes;
  that a handler between two critical sections still finds its own context in
  its slot (SlotsHeld), which is what makes the use after the unlock harmless;
  the count; and that a file holds its chunks in order, with current_chunk and
  bytes_transferred as their number and their sum (Contents), where a complete
  one is about to be closed by its owner. Offset(k) is where chunk k begins if
  all chunks have the lengths announced: bytes_transferred is then Offset of
  the number of chunks, which ties the test of bytes to the number of chunks
  (OffsetNext, ChunkInOrder).
- UploadsArriveWhole: Delivery relates a file and the status of its session: a
  COMPLETED upload whose source was summed is whole, and a delivered one has no
  temporary file and cannot get one. A user who is starting a transfer holds a
  session nobody else reaches yet (Begun); without that a start could open a
  temporary file for a file that was delivered.
- ListsAreSound: hash map and manager thread their lists through the same two
  pointers, so the property is about what all removals so far left behind.
  FtLists says that each listed session has a list and a position on it, which
  falls along `next`, and that neighbours know each other from the head on
  (OnLists); that a listed session is known and the head of its bucket
  (Listing); that users and the manager hold sessions where their place in the
  code needs them (UserOK, Using, Managing); and that a session which is not
  the head of its bucket is out of reach: some set closed under `next` has all
  listed sessions and not this one (Clear). Without Clear a removal that
  detaches nothing could still change a list. Position and set are existentially
  quantified, so that no recursion is needed; TakeOut and PutIn say what
  Detach and Push do to them, FoundListed and NotFound relate them to the
  bounded walk. The hypotheses are needed: sessions of one bucket tear the
  lists apart (`file_transfer.c:308-354`), a second removal can tie them
  together (section 10), and after the use of a freed session nothing holds.

**Network_proofs.**

- PoolIsAccounted: ids are never used twice (PoolShape) and slots in use and
  given up add up to the count (PoolCount), where the slot being made is not
  counted yet; Takes, Clears and Renames count a slot that is taken, freed or
  given another state.
- FramesAreMatched: InOrder speaks of the stream, that is the buffer and the
  wire together: a body follows its header (Framed), a sender owes a body
  exactly when the stream ends with its header (Opened), and no message is in
  two places (Known). A round of connection_process_data moves a frame from the
  head of the stream to the messages read and keeps InOrder (FrameMoves); that
  all rounds do is an induction on their number as in TaskLists_proofs
  (LeastOf, RoundsExist).
- ClientsAreAccounted: Table and TableCount relate slots, clients and the
  counter, Accepting says that nobody fills a slot between the test of the
  limit and the insertion, Assembled is about fragments. Most steps touch
  nothing of this: they are treated together (Others).
- RingsHoldTheNewest: the entry at index i of a ring is the newest of the
  entries whose number is i modulo the size. DivMod, ModDistinct, ModNext and
  ModShift are the arithmetic; History and Snapshots the invariants of the two
  rings, which differ in whether the index or the count wraps.

**Clients_proofs.**

- SyncsAreSerial, UnsentAreKept: the flag is set exactly while a round runs;
  copies that markConversationAsRead took before an await never say "synced" of
  a message that is not, and when they are written back the message is marked
  as read, which is the one way for it to be neither synced nor "sending".
- RepliesAreMatched, BacklogIsSent: ids on the wire and in the map are smaller
  than the next one, so an id never stands for two requests; the backlog
  property is inductive by itself.
- NoTransferStranded: QueueProcessed is what processQueue establishes: if
  something still waits, every place is taken by a transfer that runs.
- GroupKeysAgree: the ghost variable keyAt is a function from versions to keys;
  KeysArchived holds where no two rotations overlapped, KeyAnnounced while
  there was one context.
- DisconnectIsQuiet: OneToken is the heart of it: at most one thread holds the
  connection or is about to make one, and it is handed from a receive thread to
  a reconnect thread to a new receive thread. With it the handle that is waited
  for is the right one up to that moment (Listed, HandleKept), and a receive
  thread that comes about during the wait finds threads_running cleared
  (LateReceiver, ReceiversOver). The setting of reconnect_attempts is any
  number: with 0 the token ends where a reconnect thread would begin. It is
  stated for the first connection of a client, since a thread left behind
  survives into a second one (section 10).

## 8 Only model-checked

- Liveness (EveryMessageLeaves, AcceptedTaskRuns, DestroyFinishes,
  WaitersReturn, CallsReturnUnlessOrphaned, VerifyingEnds, StopReturns): out of
  the prover's reach.

Every safety property of the passing runs, invariants, action properties and
the refinements, is stated by a theorem of section 7.

## 9 Not modelled

- `database1.c`, `database_backup.c`, `database_migration.c`,
  `database_monitor.c`: a second database layer that no file of the server
  uses.
- `file_transfer_websocket.c` and `server/src/main.c`: they call functions that
  are defined nowhere, so no program contains them.
- `utils.c`, `common/`: helpers and constants; `utils.c` does not compile.
- `user_manager.c` is empty.
- The terminal program of the C client, the page code of the web client, its
  encryption (placeholders around WebCrypto), permission rules, codecs, and the
  synchronisation engine, whose initialize() always throws when connected.
- Examples, tests, SQL schemas, deployment files.

In the modelled components: exhaustion of memory; statistics no decision reads;
TLS; formats and byte layouts; the traffic of connections in ServerCore, which
only decides how long a graceful stop waits; its backup, reload and kick
functions; what follows from a slot of the pool freed by an expired connection
(`connection.c:417`, `:603`: ConnectionPool has the free, ServerCore only that
the lock is held); the stop of ServerCore does not depend on it. The walk of
`ft_check_timeout` over a list nobody locks (`file_transfer.c:617-622`) is one
action. The clock of Monitoring does not go backwards, although gettimeofday
may, and the difference of two points fits an int (`monitoring.c:802`). A rate
limit that cannot be asked for lack of memory lets a login pass
(`auth.c:1290-1299`). Also left out: overlapping management calls (`Exclusive =
FALSE` describes them, and they do join a thread twice: `server_core.c:769`,
`:146`; `main.c` makes them one after the other); failure of thread creation in
`threadpool_create`. Code that is never reached is described in section 10 and
left out.

## 10 Other observations

What the models showed on the way, or what was met while reading, without a
run of its own.

*Queue and pool*
- `message_queue_clear` signals nobody (`connection.c:1448-1468`): a producer
  without timeout sleeps on beside an empty queue, although push waits "until
  the queue is not full" (comment at `connection.c:1363`).
- The task lists share one tail (`threadpool.c:451`): a task lands on the list
  of another priority, or the NULL tail is dereferenced; the comment at line
  431 says it is added to the queue of its priority. TaskLists and TaskQueues
  model this, lists_all reaches it.
- `threadpool_wait` without timeout sleeps for ever: `all_tasks_done` is
  signalled only while STOPPING (`threadpool.c:384`). It decides by
  `queue_length` and can return while tasks run (`:645`).
- A submission that races with `threadpool_destroy(pool, true)` is accepted and
  dropped (`threadpool.c:407`).
- A resize downwards stops no thread (`threadpool.c:740-742`), and a later high
  load can compute fewer threads than there are (`:794`).

*Server core and main.c*
- `server_start` creates the threads before it sets `running`
  (`server_core.c:751`), which they test first.
- `server_restore_data` on a running server leaves it stopped and restores
  nothing, and reports success (`server_core.c:1795-1830`).
- `server_init` leaves RUNNING, so the `server_start` after it refuses
  (`main.c:986`) and the main loop is never entered. `server_create` replaces
  the signal handlers by ones that only log (`server_core.c:108-116`).
- `graceful_shutdown` frees the path of the PID file before it removes it
  (`main.c:734-765`): the file is never removed and every later start fails
  until somebody removes it. The PID in it is the one before the forks of
  `daemonize`.

*Connections, WebSocket, monitoring*
- A full connection pool hangs its caller (`connection.c:188`), and a
  connection closed by pointer keeps its place in `pool->count` for ever.
- A frame that was cut (`connection.c:723`, `:842-848`) is not made up for: the
  reader takes what follows for its body.
- No handshake completes: only OPEN clients are read (`websocket_server.c:432`);
  ClientsAccounted is nevertheless checked for clients the application opens.
- `check_metric_thresholds` takes `alert_mutex` twice (`monitoring.c:934-950`);
  the destruction logs through a closed file (`:540`); a quick stop and start
  loses thread handles.

*File transfer*
- `ft_remove_session` (`file_transfer.c:1620-1687`) of a session in the middle
  of its list: the removal from the map rewrites the links of the list, so the
  session is off the list and still in the map with the links it had, the
  search after it finds it on no list, and it is not freed. A second removal
  follows these links: with three sessions, active 3, 2, 1, when 2 is removed,
  1 completes and 2 is removed again, 3 leads to 1, which is then on both
  lists. ListsSound therefore speaks of the histories in which no removal was
  asked for twice.
- `websocket_file_transfer.c`: a download request at a full table closes its
  file twice (`:423-427`); a chunk is taken for a download's context too
  (`:263-270`), and written to a file opened for reading; a chunk may have any
  length, so an upload may be complete with fewer chunks than it announced
  (`:319`), and an empty file never completes; downloads never give their slot
  back.

*Database, authentication, handlers*
- A failed COMMIT returns the connection with its transaction open
  (`database.c:1062`), and a migration that gets this connection commits it
  (`:1610`, `:1651`), although its caller was told that it failed; a migration
  whose own COMMIT failed is reported as applied (`:1651-1654`), and later
  versions are applied without it; `db_prepare_statement` releases the
  connection its statement belongs to; `db_migrate_apply` selects nothing
  (`:1665`).
- The last wrong password deadlocks on `db_mutex` (`auth.c:567`); a refresh
  token has no random part; a login writes a second session row; the default
  administrator's hash is not initialised (`:309`).
- A broadcast drops the last user (`message_handler.c:616-636`); a logout
  announces nobody (`:509`); `message_handler_process` has no caller. A join
  inserts into a column joined_at (`:806`) that no schema of the repository
  gives to group_members, so that it fails wherever such a schema was loaded.
  Any client may report any status of any transfer (`:1127`).

*Configuration*
- The rest of a line that is too long is read as a line of its own
  (`config.c:105`) and can change another item or the section; empty sections
  and keys are written and not read (`:122`, `:138`); a FLOAT loses what is
  behind its sixth decimal (`:206`).

*Clients*
- `client/core.c` never sets AUTHENTICATED, so `client_send_text_message` always
  returns -2; the old socket stays open after a reconnect; a missed heartbeat
  does not reconnect; a thread that was not joined survives into the next
  connection (`:600`).
- `websocket-client.ts`: after a login everything, heartbeats included, is
  queued until a reconnect; requests that were queued resolve with null;
  disconnect() neither settles promises nor cancels the reconnect timer; an
  error and a close start two timers; a late close of an old socket sets
  DISCONNECTED over a new connection.
- `offline-sync.ts`: the queries for pending messages and operations match
  nothing or throw, so a synchronisation never sends; getUnreadCount never
  settles; markConversationAsRead marks unsent messages as read (`:1188`), after
  which their status does not select them for sending any more (`:800-803`),
  and brings deleted ones back.
- `file-transfer.ts`: every upload fails in JSON.stringify of a BigInt; a
  cancelled transfer does not start the next.
- `group-manager.ts`: overlapping rotations skip the archiving of a version; a
  re-initialisation during a rotation is overwritten; destroy() during a
  rotation lets the context come back; saving a context always fails.
