# Evolu: specifications, model checking and proofs

Evolu is a local-first platform: every device keeps its data in SQLite, changes
are CRDT messages stamped by a hybrid logical clock, and devices exchange them
end-to-end encrypted through relays that store but cannot read them. This
directory models the parts of it that must agree with each other: the clock, the
tables a device derives from messages, the skip list both sides keep over their
timestamps, the reconciliation protocol between a client and a relay, the
relay with its storage, and, inside a browser, the tabs, the SharedWorker they
talk to, the DbWorker it hands from tab to tab, and the connections its databases
share; and below all of them the structured concurrency their code runs in.

All paths below are relative to `src/packages/common/src/local-first/` unless
they say otherwise.

## 1. The system

| Part | State it keeps | Operations | Interacts with | What makes it correct |
| --- | --- | --- | --- | --- |
| Hybrid logical clock (`Timestamp.ts`) | none; pure | `sendTimestamp`, `receiveTimestamp` | called by the DbWorker | stamps only move forward; the 16-bit counter and the drift are checked |
| DbWorker (`Db.ts`) | the SQLite database; the clock in memory | startup, mutate, received messages, queries, export | one request at a time from the tenant's queue; holds the leader lock of its database | no timestamp is given twice, the latest change of a cell shows, devices converge, nothing is lost in the quarantine |
| Skip list (`Storage.ts`) | `evolu_timestamp`, `evolu_usage` | `insertTimestamp`, `deleteOwner`, size, count, index, lower bound, fingerprints | used by the DbWorker and by the relay | every row summarises exactly what it covers; queries agree with an ordered set |
| Protocol (`Protocol.ts`) | none; a buffer for each message | `createProtocolMessageForSync`, `createProtocolMessageFromCrdtMessages`, `applyProtocolMessageAsClient`, `applyProtocolMessageAsRelay`, `sync` | reads and writes a `Storage` on either side | ranges partition all timestamps; rounds end, and end with both sides equal; size limits hold |
| Relay server (`nodejs/src/local-first/Relay.ts`) | subscriptions owner ↔ socket | message, close, broadcast, shutdown | handlers of a socket run concurrently | closed sockets leave; an answered subscriber misses nothing; only what is stored is told |
| Relay storage (`Relay.ts`) | messages, write keys, usage | `validateWriteKey`, `writeMessages`, `deleteOwner` | a mutex by owner; may wait for a quota check | usage and messages agree; the quota holds |
| SharedWorker tenant (`Shared.ts`) | request queue, in-flight flag, worker port, instances, the rows sent to each, used owners and their claims | requests, answers, leader handover, instances, add and remove owners | DbWorker, transports, main-thread instances | requests are executed in turn and go on after a handover; patches fit the rows they are made for; owners in use have their leases and were asked for |
| Evolu instance (`Evolu.ts`) | rows, query promises, subscriptions, batches, completion callbacks | `loadQuery`, `subscribeQuery`, mutations, patches, refresh, disposal | the tenant, over a port | promises settle; a cached one is not older than the database; a completed mutation shows |
| Shared resources (`Resource.ts`) | the resource, its leases, an idle fiber; the registry by key; claims | acquire, release, idle disposal, shutdown; claims by key | transports and tenants | a lease never holds a disposed resource; an unused one is disposed; no two live at once |
| Structured concurrency (`Task.ts`) | the tree of Runs with their exits, abort requests and finalizers; semaphores and mutexes, some by key | start a Task, abort, dispose, panic; `withPermits`; `acquireUseRelease` | everything asynchronous is a Task | no Task outlives the Run it was started in; an abort reaches everything below; what was acquired is released; no permit is lost; disposal ends |
| Leader lock (`LockManager.ts`), SQLite wrapper (`Sqlite.ts`) | locks; a transaction | – | the DbWorker, the relay | one leader; rollback on error |
| Schema, queries, owners, encryption, encoding, UI bindings, applications | little or none | – | – | unit tests of pure functions and platform glue |

The behaviours that are hard to test, each at its line, are the `hazards` of
`PROJECT.json`. In short: handlers that fail or crash between two of their
steps while a clock lives both in memory and on disk; messages that arrive
twice, out of order, or under an older schema; a skip list updated by
differences; rounds of a protocol whose stores change in between, whose answers
are cut at a size limit, and which may be cut off at any time.

## 2. Modules

```
Timestamp            the clock                       StorageQueries    an ordered set, queried
   |                                                   |         |
   Db  ---- MCDb                          TimestampSet |         Reconciliation   sync, splitRange, the buffer
   |  \__ implements __ Exchange              ^                  |
   DbProofs                     Skiplist -----+ implements       Sync ---- MCSync
   clocks, tables                  |                             |  |  clients and a relay
                      MCSkiplist, SkiplistProofs        SyncProofs  +-- implements --> Replication

Relay ---- MCRelay         the relay: sockets, handlers, storage
   |
   RelayProofs

Leases <---- implements -- SharedResource ---- SharedResourceProofs
                                 |                     |
                              OwnerUse ---------- OwnerUseProofs
                                 |
                              MCOwnerUse     tabs, owners, claims, connections

Tenant  ----  EvoluInstance  ----  MCEvoluInstance
requests,     main threads of tabs
DbWorkers,         |
answers       EvoluInstanceProofs

RunTree                            Runs: start, abort, dispose, settle
   |
 Tasks  ----- TasksProofs          brackets and permits on Runs (proofs about both)
   |   \
MCTasks  Semaphore                 permits and waiters, as functions
```

`Db` and `Sync` look at the same exchange from two sides. In `Db` a device
receives any batch of messages that any other device could send, in any order and
any number of times; how they get there is left open. `Sync` is how they get
there; a device is the set of its timestamps. What each side promises of it is an abstract
specification: `Exchange` of the databases, `Replication` of the peers. `Skiplist` stands between: `Sync`
uses the queries of `StorageQueries`, and `Skiplist` shows that the SQL answers
them. `Sync` writes a request to the relay's store in one step; `Relay` takes that
step apart. `Tenant` is the client of `Sync` from the inside: its items
`ApplySyncMessage` are the answers that `Sync` puts into `queue`, and its `Work` is
one whole handler of `Db`. `OwnerUse` says when a connection opens (`Connect` of
`Sync`) and for which owners its sync messages are asked for. `Tasks` is what the
aborts, mutexes and finalizers of `SharedResource` and `OwnerUse` are made of: those
modules take as given what it shows, that an aborted wait ends, that a mutex is a
queue, and that finalizers run when everything below is gone.

Operators introduced by a comment that begins "Wrong:" are variants of the
definition after them, each with a plausible bug (a dropped guard, a missing reset,
an off-by-one). No specification uses them; substituting one must violate the
property `PROJECT.json` pairs it with, which shows that the property notices.

### Timestamp (`Timestamp.ts`)

A timestamp is `[millis, counter, node]`, ordered as its sixteen bytes are.
`Advance` holds the three errors (`TimestampTimeOutOfRangeError`,
`TimestampDriftError`, `TimestampCounterOverflowError`) in the order the code
checks them. The physical clock is an argument and may read anything, also
earlier than before. The widths are constants; node identifiers are distinct
(they are 64 random bits).

### Db (`Db.ts`, with `Sqlite.ts` and `LockManager.ts`)

A device has a committed database (`disk`), the database as its open transaction
sees it (`txn`) and the clock in memory (`clock`); `job` holds the local
variables of the running handler. One step is one iteration of a handler's loop:

| Action | Code |
| --- | --- |
| `StartUp`, `UpgradeRow`, `FinishUpgrade` | `startDbWorker`: `createClock`, then one transaction with `tryApplyQuarantinedMessages` |
| `StartMutate`, `LocalOnlyChange`, `StampChange`, `ApplyNext`, `Commit` | `handleMutation` and `applyMessages` |
| `StartReceive`, `MergeTimestamp`, `ApplyNext`, `Commit` | `createClientStorage.writeMessages` |
| `Rollback` (within `StampChange` and `MergeTimestamp`) | an error result ends the transaction |
| `HandlerThrows` | a thrown error: `clock.save` may already have moved the clock in memory |
| `Crash` | the worker is gone; another startup, perhaps of another version, follows |

`Commit` saves the clock if the handler changed it, as `handleMutation` does
(`Db.ts:825`); `writeMessages` saves it always, but every received message changes it.

`cells` shows the timestamp of the change whose value is in a cell: the value a
message writes is determined by its timestamp. `readDbChange` is the operator
`ReadDbChange`, and is what other devices receive. A schema is the set of columns
that a version declares; columns it does not know go to the quarantine.
`handleMutation` groups stamped messages by owner before it applies them; the
model applies them in the order of the changes, which is the same since messages
of different owners touch different rows. The cells of the system columns
(`createdAt`, `isDeleted`, ...) behave like any other column. Devices that
clone each other's database are outside the model, as node identifiers are random.

`Exchange` is the abstract specification, with the committed messages of each device
(`Has`) for its only variable: a step is the whole mutation of a device, its messages later than
all that the device has and like none anywhere, or messages that other devices have. There are no
handlers, clocks or crashes in it.

### StorageQueries, TimestampSet, Skiplist (`Storage.ts`)

`StorageQueries` says what the queries of a storage mean for a set of
timestamps; `TimestampSet` adds insertion and deletion and is the abstract
specification. It has no variables: its steps relate what a storage answers before and
after, the fingerprint of everything and the timestamps by index. `Skiplist` keeps the
rows of `evolu_timestamp` (`l`, `h`, `c`)
and the bounds of `evolu_usage`, and translates the recursive SQL of each
insertion strategy by the rows it reads and the difference it writes. What is shown to
implement `TimestampSet` are the answers read from those rows by the walks of
`getSize`, `fingerprintRanges` and `getTimestampByIndex` (`Answers`), not the keys of the
table, which every strategy extends alike: an insertion that leaves a wrong count or
fingerprint in any row on a walk, or a repeated one that touches a row, is no step of the set. A hash is
the set of the timestamps under it and XOR the symmetric difference, so equal
fingerprints are equal sets: collisions of 96-bit hashes are not modelled. The XOR of
several rows is what an odd number of them has.

### Reconciliation, Sync (`Protocol.ts`, `Shared.ts`, `nodejs Relay.ts`)

`Reconciliation` is the buffer with its limits, `splitRange`, and `sync` as a fold
over the ranges received. Sizes are measured in units of one encoded timestamp
(about twelve bytes), with the safety margins rounded to those units, so that "this
does not fit any more" happens in small instances in the same places.

`Sync` puts it between clients and a relay for one owner:

| Action | Code |
| --- | --- |
| `Connect`, `Disconnect` | a WebSocket opens (`transportOpen`, an item in the tenant's queue) and closes |
| `StartSync` | `CreateSyncMessages` in the DbWorker |
| `Mutate` | a mutation and `createProtocolMessageFromCrdtMessages` |
| `RelayHandle`, `RelayFails` | `applyProtocolMessageAsRelay`, `ws.on("message")`, the broadcast |
| `ClientHandle`, `ClientDrops`, `ClientStops` | `applyProtocolMessageAsClient` with `writeMessages` of the client |

The relay starts a handler for every message at once; only a request without
messages never waits for storage and can overtake an earlier one (`Handled`).
When a connection closes, what is under way is lost, except the answers that the
client already has in its queue (`MaxStale` bounds them). `outcome` records what
the code reports: `"ok"` since the sync request went out, `"failed"` after an
error on either side, `"tooBig"` after a failed size assertion. `EndsEarly` and
`Overfills` are no properties: they name the steps in which a handler cuts a range that
differs (`CutsRange`), and in which it adds ranges behind messages that leave no room
for them without asking for it (`AddsUnasked`). Some theorems exclude the one or the other.
`Replication` is the abstract specification: the timestamps of the peers, clients that
write new ones, and copies between a client and the relay. The stores of
`Init` are arbitrary, as earlier sessions leave them.

Not modelled: the binary encoding, protocol versions, write keys (always present
and right), encryption itself, single messages that exceed a protocol message
(the code limits a mutation to 640 KB, `Protocol.ts:106`), several relays, and
a storage error in the `splitRange` that `sync` calls (in `StartSync` it is).

### Relay (`Relay.ts`, `nodejs Relay.ts`, the relay's half of `Protocol.ts`)

Many sockets write for many owners. A message of a socket starts a handler, which
stops at two places: at the mutex of its owner and at the quota check.

| Action | Code |
| --- | --- |
| `Open`, `Close`, `Restart` | `wss.on("connection")`, `ws.on("close")`, shutdown and startup over the same database |
| `Receive` | `applyProtocolMessageAsRelay` up to its first wait: the subscription flag, the write key, a request without messages as a whole |
| `ReadUsage` | `writeMessages` under the mutex: existing timestamps, usage, the call of `isOwnerWithinQuota` |
| `Write` | the quota check has agreed: the transaction |
| `Fail` | it refused or threw, or SQLite threw: `QuotaError`, `WriteError` |
| `Finish` | the broadcast to the other subscribers and the answer |

`writing[o]` is the queue at the mutex of `o` (its head holds the mutex) and
`written[o]` the handlers that have given it back and not broadcast yet; these
finish in any order. Subscribing happens before the key is checked, as in the
code. `isOwnerWithinQuota` belongs to the application; it is taken to compare with a
constant, and `Fail` lets it refuse at any time. `told`, `sent` and `synced` are
history: what the relay has sent to a socket, what it got from it, and whether the
socket's ranges were answered since it subscribed. An answer to ranges stands for
everything stored at that moment; that the rounds of a client do deliver that is
the subject of `Sync`. `setWriteKey` and `deleteOwner` are left out: only tests
call them. (Neither takes the mutex, so a caller of `deleteOwner` would have to
make sure that no handler of the owner waits for its quota check.)

### Leases, SharedResource (`packages/common/src/Resource.ts`, with `Task.ts`)

`createSharedResourceByKey` keeps one `SharedResource` for each key that is in use.
Two mutexes guard a key: the registry's spans the lookup and the acquire
inside it, the SharedResource's own orders acquires and disposals. Every pass of
control through an `await` is a step:

| Action | Code |
| --- | --- |
| `Call`, `EnterKey`, `Return` | `SharedResourceByKey.acquire` queues at the mutex of its key, looks the SharedResource up, and gives the mutex back |
| `LeaseCurrent`, `StartCreating`, `Created`, `CreateAborted` | the acquire inside: the idle fiber is aborted, the resource found or created |
| `Release`, `ReturnAborted` | `release`, `releaseLeaseIfAborted`; the last lease starts an idle fiber |
| `IdleExpires`, `StartDisposing`, `EndDisposing` | the idle fiber: `idleDisposeAfter` passes, it waits for the mutex, disposes, and `onDisposed` may forget the key |
| `Close`, `Drain`, `Stop` | explicit disposal: the registry's Run is aborted, then its SharedResources, one by one |
| `RootAborted` | the root Run ends (a panic): every Run is aborted at once |
| `StartFinalizing`, `EndFinalizing`, `Disposed` | the finalizers of a SharedResource and the end |

`lock[k]` and `keyLock[k]` are queues of waiters whose head holds the mutex;
`sleeping[k]` counts idle fibers that sleep (there may be an aborted one
that has not gone yet). Aborting a Run removes those that wait and leaves those
that work, as `Task.ts` does. A created resource takes the smallest identity nobody
knows, which keeps the instance finite and forgets nothing. `Leases` is the abstract
specification: what holders may rely on, with no mutex in it. `StateOf` and
`Ended` map the one to the other; the mapping counts a resource as live from its
creation, and the shutdown as begun when leases may be taken away.

### OwnerUse (`Shared.ts`, `Evolu.ts` `useOwner`, claims in `Resource.ts`)

The resources are the WebSockets of transports. The instances are tabs with the
same database open.

| Action | Code |
| --- | --- |
| `UseOwner`, `UnuseOwner`, `Leave` | messages of an instance, and its lock becoming free; each queues at its `useOwnerMutex` |
| `StartAdd`, `AcquireNext`, `Claim` | `toggleSyncOwner` "add": the use is counted, the transports are leased one by one, the claim is added; `onFirstClaimAdded` |
| `Remove`, `RemoveUsed`, `Settle` | "remove" and the disposal of an instance: the ClaimLease is looked up, the claim released; `onLastClaimRemoved`, `Unsubscribe` |
| `SocketOpens`, `SocketCloses` | `onOpen`; a connection that is lost |
| `Shutdown`, `Panic`, `DrainClaims` | the end of the SharedWorker |
| `Resources` | every step of `SharedResource`; a disposed WebSocket is closed |

A use is a call of `useOwner`; it is taken back at most once. `used` and
`claimLeases` are counted by owner and by owner with transports, as in the code,
and a failed assertion panics the worker (`failed`). An owner may be used with its
write key or as a `ReadonlyOwner`: `Writable` are the uses that have the key. Of the
uses of an owner an instance keeps the `SyncOwner` that was counted first (`by`), and
`getUsedOwnersById` looks for the write key there (`IsUsed`). `synced[k]` are the owners for
which `CreateSyncMessages` was requested since the connection of `k` opened.

### Tenant, EvoluInstance (`Shared.ts`, `Db.ts`, `Query.ts`, `Evolu.ts`)

Every tab has an instance of the database open and can host its DbWorker.

| Action | Code |
| --- | --- |
| `AnnounceLeader`, `StartWorker`, `LeaderAcquired` | a tab closed, the next one holds the "tab" lock, its DbWorker acquires the database's lock, `initDbWorker` gets its port |
| `Receive`, `RequestApplySyncMessage` | `Query`, `Mutate` of an instance and a sync message join the queue; each ends in `RunQueue` |
| `Work` | the DbWorker executes the request; a mutation may be refused (no answer), a sync message may write nothing |
| `OnQueuedResponse` | the callback of the request: patches to the instance, a refresh to its siblings, the next request |
| `AddInstance`, `RemoveInstance` | `CreateEvolu`, and the leader lock of an instance becoming free |
| `Load`, `Subscribe`, `Unsubscribe`, `Mutate`, `Flush` | the main thread: promises are cached, batches are posted at the end of the task (`createMicrotaskBatch`) |
| `OnPatchesByQuery`, `RefreshQueries` | the messages of the tenant |
| `Dispose`, `CloseTab` | an instance is disposed; a tab closes, with the DbWorker it may host, between any two steps |

A value in a row is the mutation that wrote it last. A message port loses the last
messages of a closing tab, any number of them (`sent`); it never reorders. The
messages of a tenant are tasks, so all microtasks run before the next one
(`Arriving`). What a DbWorker posts to a port the tenant has disposed is dropped
(`Overtaken`).

### RunTree, Semaphore, Tasks (`packages/common/src/Task.ts`)

Every Task runs in a Run, and a Run waits for its children before it settles.
`RunTree` is `createRunInternal` with the Runs of a program as a constant tree: which
Runs there can be, whose children they are (`ParentOf`), which Task starts them
(`StarterOf`, another one for `run.daemon`), and how (`Mask`, `Unabortable`,
`Prioritized`, `Finalized`). When they start and what their Tasks return is open.

| Variable | Code |
| --- | --- |
| `body` | the Task: not started, queued by the scheduler, running, ended, or refused because the abort came first |
| `exit` | `claimedExit`; the first one stays |
| `requested`, `observed` | `requestController` and `signalController` are aborted; a masked Run is requested without seeing it |
| `disposing`, `finalized`, `settled` | `disposePromise` exists, `finalizersStack` was disposed, the state is Settled |

| Action | Code |
| --- | --- |
| `Start`, `Dequeue` | `run(task)`, `run.abortable`, `run.daemon`, `run.create`; `runTask` up to the Task, after the scheduler if it is prioritized |
| `End`, `Throw`, `HostReturns` | the rest of `runTask`: a Result, an AbortError, a defect; the Run is disposed |
| `Abort` | `AbortableFiber.abort`: `requestAbort`, passed down by listeners |
| `DisposeHost`, `Panic` | `[Symbol.asyncDispose]`, `abort` and `panic` of Root and of the Runs of `run.create` |
| `Finalize`, `Settle` | `dispose` once the children are gone |

A Task that observes an abort may still return a Result: the code asks Tasks to
heed their signal and forces nobody. `Semaphore` translates the "fifo" semaphore to
functions on a record. `Tasks` writes out two kinds of Tasks and leaves all others
free: a bracket is the five Runs of `acquireUseRelease` (the mask, its body, acquire,
use and release), and a user of permits is the Task of `SemaphoreByKey.withPermits`
with its job; a mutex is a semaphore of one permit. `WithdrawAborted` is the cleanup of
`take`: waiters that observe an abort leave the queue in the same step, in any order.
`semaphoresByKey` says which Semaphore a key has; a user keeps the one it found
(`semaphoreOf`), and leaving may forget the key when that one is idle.

`createSharedResourceByKey` and the relay also use mutexes by key. Their waiters are
aborted only when everything shuts down, so `SharedResource` and `Relay` need not
consider that a key is forgotten too early (section 5).

## 3. What the runs check

| Run | Instance | What it shows |
| --- | --- | --- |
| `db` | 2 devices, 2 versions, 2 columns, 2 committed mutations (one change, two changes of a row, a local-only change alone or before an edit), batches of 2, counter and millis in 0..1, clock readings 0..2 | clocks dominate what is stored, every change gets its own timestamp, cells show the latest change and never go back, devices with the same messages agree, messages are rebuilt whole, mutations are committed whole (`Exchange`) |
| `skiplist` | 6 timestamps, 3 levels, every order of insertions | rows, bounds and queries are exact; what they answer changes as a set does, also when a timestamp comes again |
| `sync` | 1 client, 4 timestamps, every pair of initial stores, mutations of up to 2, reconnections, failures; under fairness | ranges partition, nothing is forgotten, limits hold, rounds end, and from then on both sides are equal |
| `sync_clients` | 2 interchangeable clients, 3 timestamps | broadcasts and rounds of two clients that change the owner at once leave nobody behind when all is quiet; every step writes or copies (`Replication`) |
| `relay` | 1 owner, 2 interchangeable sockets, 2 keys, 2 messages that exceed the quota together, 2 handlers | only what is stored is told; an answered subscriber misses nothing; usage is exact and within the quota, with overlapping and repeated batches |
| `transports` | 2 tabs, 1 owner, 2 transports of which one can be reached, 3 uses (one of both transports, one without the write key), identities of 2 resources for each transport; under fairness | leases hold live connections, claims and uses agree, an owner in use with its write key and an open connection was asked for, `Leases` is implemented, all work ends |
| `tenant` | 2 tabs, 1 query of 2 rows, either 1 mutation of each tab or 1 from the relay, the leader may leave; under fairness | patches fit, completed mutations show, cached promises are fresh, mutations are executed in turn, loads settle across a handover |
| `tasks` | 12 Runs: a bracket whose use waits for a permit, inside it a second wait, masked waits in release, a daemon that needs both permits and can be aborted, defects, disposal at any time; 2 permits; under fairness | nothing is orphaned, aborts reach everything, what was acquired is released, permits are exact, disposal ends |
| `sync_retransmission`, `sync_ends_early`, `sync_too_big`, `transports_mixed` | see section 5 | four disagreements of code and comments |

Why the bounds are enough. In `db`, counter and millis of 0..1 with readings
up to 2 reach all three clock errors, ties on millis, and a clock set back; two
mutations are what it takes to have two changes of a cell in the wrong order, in
duplicate, and released from a quarantine; two devices and a batch of two give
every order of delivery. The constraint `OneHandlerAtATime` is no loss: steps of a
handler touch only their own device and read others' committed databases in
`StartReceive` only, so handlers of different devices commute. `MaxMessages`
bounds mutations that start, not steps within one: a mutation of two changes may be
the second of two. 592,035 states. In `skiplist`, three levels
give a node that is lower than, equal to and higher than its neighbours, and six
timestamps a node of each on both sides of an insertion. In `sync`, the message size
and limits are chosen so that one message fits beside a few ranges but two do not
always, and two buckets of one item make splits, short ranges, fingerprints of
the rest and skips all occur. There `RangesMax` is large enough that a
differing range can always be split; the run `sync_ends_early` is the case where it
cannot. The client symmetry of `sync_clients` is sound: no definition tells
clients apart, and its one temporal property, `ImplementsReplication`, is a safety
property that does not either. In `relay`, one owner is
enough, as handlers of different owners share nothing but the set of sockets; two
handlers make one wait at the mutex while the other waits for the quota check, or
write while the other is about to broadcast. `MaxBatch` and `MaxHandlers` bound one
request and the handlers at work. The quota admits either message and not both.

In `transports`, three uses are what it takes for one tab to hold two claims of
an owner with different transports while the other tab shares one of them; a
second identity lets a connection be disposed and made again while the first is
remembered. The use without a write key shares its tab with one that has it and its
transport with the other tab's, so it comes before, between and after both. Each use is made and taken back once, which bounds the run without a
counter. `Reachable` is `{"k1"}`: what a connection that never opens does, opening
one more would do too, and the order of openings of two transports is no
question the properties ask. 155,321 states.

In `tenant`, `MadeTogether` names the sets of mutations of which one behaviour
makes some: one of each tab, which race one another and the handover, or one from
the relay, which refreshes all. `Leaving` is the tab that hosts the first DbWorker;
the other one loads and subscribes. Two rows give a patch in place, a whole
result, and a row that appears. 220,398 states. Both tabs leaving would add only
states in which nobody is left to see anything.

In `tasks`, a daemon that needs both permits must wait for all others and
makes those behind it wait: this is the case in which withdrawing it must wake them.
A wait nested in the bracket's use gives one behaviour with a job that waits for
permits while its parent holds one. The release of the bracket waits for a permit
masked, so an abort must not withdraw it. Four users of one key are what it takes
for an aborted waiter to find its old Semaphore idle while the key has a new one that
is held (`stale` does become nonempty). Defects come from acquire, from release, from a
job, and from the root's finalizer. The Runs settle, so behaviours end:
`CHECK_DEADLOCK FALSE`. 91,384 states.

Liveness. `FairSpec` assumes weak fairness of `RelayTurn` and `ClientTurn` only:
a request that has arrived is handled, one way or another, and so is an item of
the client's queue, one after the other. Event handlers of the relay and the loop
of the tenant's queue do that. Nobody is assumed to connect, to mutate, to stay
connected, or to succeed: `EventuallySynced` has "stays online and nothing
failed" as its premise, `RoundsEnd` only "stays online". That the tenant's queue
may stall for another reason (section 5) is outside `Sync`.

`OwnerUse` and `EvoluInstance` assume weak fairness of `Background`: event loops go
on, timers fire, mutexes serve their queue. Nobody has to use an owner, to open a
connection, to load, to mutate or to leave. `UsesSettle` promises that whatever an
instance asked for is done and that connections nobody uses are disposed;
`LoadsSettle` that a query promise settles, except after a mutation was refused or
after the announcements of two DbWorkers overtook one another: in these two cases
the code does stop (section 5).

In `Tasks` one weak fairness serves all: no Run starts twice, so every behaviour is
finite and a step that stays possible is taken. `Obliged` says what must go on: the
event loop, a Task that has observed its abort, and a Task that must finish by itself,
because it is masked or holds permits (a Task that keeps a mutex for ever keeps
others waiting for ever). Nobody has to abort, to dispose or to throw. `DisposalEnds`
promises that whatever has observed its abort settles, with everything below it.

Deadlock is checked in every run but `tasks`. `Stopped` in `OwnerUse` is the end of a
worker.

## 4. What is proved

`DbProofs` proves about `Db`, for any set of devices, owners, columns, versions,
any widths of the clock and any bounds:

* `TypeCorrect`: `Spec => []TypeOK`; no clock ever leaves its range.
* `ClockDominatesAlways`: what a device has stored, its clocks on disk and in
  memory have overtaken.
* `TimestampsUnique`: no two committed messages share a timestamp.
* `EditsAlwaysWin`: a new message is later than all its author had stored.
* `MessagesExchanged` (`ImplementsExchange`): every step commits a mutation, brings messages
  that devices have, or leaves the committed messages as they are.

`UniqueTimestamps` is part of the inductive invariant and no run checks it by itself: a step
that gave a timestamp twice would be no step of `Exchange`.

The assumptions are the named `ASSUME`s of `Timestamp` and `Db`: nodes are
naturals, widths are naturals, `None` is no timestamp, schemas and changes have
their types. None of the invariants is inductive by itself. A crash takes a
device back to the clock on disk while a handler works with a later one, so the
inductive invariant `IInv` orders the three clocks of a device (disk, memory, job:
each has overtaken the one before), says that staged messages are overtaken by the
job's clock and later than the clock the handler started with, that everything in
the index of the open transaction is overtaken by the job's clock, that every index
entry has rows (so `readDbChange` returns a message), that every committed
message of a device is overtaken by its committed clock, and that a handler that has not
moved the clock has indexed nothing (`QuietClock`): `Commit` leaves the saved clock where it
is then, perhaps behind the one in memory. Uniqueness then follows
from the step: new stamps of a device are after its committed clock, its earlier
messages are not, and messages of different devices differ in `node`. The steps
of `Next` are one lemma each; `StepPreserves` carries what a step of one device
leaves alone for the others.

It goes on from there to the tables, under the same assumptions:

* `MessagesReadBack` (`ReadsBack`): what `readDbChange` builds for an indexed
  timestamp is the message that was created, whole, wherever its columns are.
* `LatestAlwaysWins` (`LatestWins`): on a started device, a cell that its version knows
  shows the latest of the messages that the device's index lists for it.
* `DevicesConverge` (`Convergence`): started devices with the same messages show the same
  in the columns both know, whatever order, batches, versions and crashes they came by.
* `CellsNeverGoBack` (`CellsNeverRegress`): no step shows an earlier change in a cell.

`applyMessages` compares a row with the cell only, never with the history or the
quarantine, so none of this is visible in one step. The inductive invariant
`DataInv` says of the committed tables and of those of the open transaction that a
cell shows the latest row of its history (`ShowsLatest`), and that history and
quarantine together hold the rows of exactly the indexed messages, all of them
created or just stamped (`HoldsWhole`); that a started device keeps nothing in its
quarantine that its version knows (`WaitingKnown`), and, during startup, only what the
job has yet to apply. For `Exchange`, `BatchInv`
follows a handler from its first change to its commit: what its transaction has indexed and
not committed was either stamped by the handler, or its handler stamps nothing; and what it has
stamped is indexed or still staged. A rollback or a crash puts the transaction back to what was
committed, so only a commit changes what a device has. Each message stays with its author
(`AuthorsHave`), so what others receive is somewhere. The uniqueness of timestamps is what makes "the"
message of a timestamp, and "the" latest row of a cell, well defined; that the byte order of timestamps
is a strict linear order is proved too. `CellsNeverRegress` needs that the
committed history is part of the transaction's: the later state's latest row is
then not before the earlier state's.

`RelayProofs` proves about `Relay`, for any owners, sockets, keys, timestamps,
sizes and quotas:

* `TypeCorrect`: `Spec => []TypeOK`; a closed socket is in no subscription.
* `NoBroadcastWithoutPersistence` (`ToldIsStored`) and `SubscribersMissNothing`
  (`NothingMissed`), from the inductive invariant `Delivery`: what a handler is
  about to broadcast is stored, the messages of a handler came from its socket,
  and what a handler has read lacks nothing but its own messages. The second of
  these is why nobody is owed a broadcast of what it sent itself.
* `UsageStaysExact` and `QuotaNeverExceeded`, from the inductive invariant
  `Accounting`: only the head of a queue waits for the quota check, and what it
  has read is still what the storage holds. This is where the mutex is needed.

The assumptions are the `ASSUME`s of `Relay`: sets of timestamps have a first and a
last one, sizes are additive (`Bytes` is a function on sets, so that no sum has to
be unfolded), and `None` is neither a socket nor a key. `MaxBatch` and
`MaxHandlers` are arbitrary.

`SkiplistProofs` proves about `Skiplist`, for any timestamps below `Infinite`, any number
of levels and whatever level is drawn for each insertion:

* `RowsAlwaysSummarise` (`RowsSummarise`): every row carries the fingerprint and the count
  of exactly what it covers.
* `BoundsStayExact` (`BoundsExact`): the bounds are the first and the last timestamp.
* `QueriesStayExact` (`QueriesExact`): every query answers as the set does.
* `ListIsASet` (`ImplementsSet`): the fingerprint and the timestamps by index that are read
  from the rows before and after a step of the list are those before and after a step of
  `TimestampSet`: an insertion, which a repeated one leaves as they are, or the deletion.

The invariant, `ListInv`, is the first two together (and that an empty list has no
rows): the bounds choose the strategy, and each strategy is right only where it is chosen.
Two facts carry the proof. The nodes that a walk to the right meets fall in level, and what they
cover partitions the timestamps since the last higher node, so that XORs and sums of their rows
are exact (`Falling`, `Suffix`, `FallingCovers`, `FallingSums`): that is what an
insertion writes. And once there is one more timestamp, the nodes that the code looks up as
covering it are those that are the first of their height after it (`CoveringReaches`); of
these, the higher ones cover one timestamp more, the others lose what the new node takes over, and no
other node changes (`CoveredWhenGrown`). One lemma per strategy puts them together
(`AppendKeeps`, `PrependKeeps`, `InsertLowKeeps`, `InsertHighKeeps`). For the queries, `Reached` says
where a descent stands after each level: it has counted the timestamps up to `from`, and
the one at `to` would be too many, so that at the lowest level it stands at the timestamp
whose rank it looked for (`DescentExact`). Where rows summarise what they cover, what is
read is what a set would answer (`AnswersExact`); with what each step does to the
timestamps stored, that is `ListIsASet`. The assumptions are the `ASSUME`s of `Skiplist`:
timestamps are naturals between 0 and `Infinite`, and there is a level. That the
recursive functions of the model, `CountOf` and `Descent`, have the values of their definitions is
shown by the least argument for which they would not.

`SyncProofs` proves about `Sync`, for any clients, timestamps, message sizes, limits,
numbers of buckets and any writes and lost connections in between:

* `RangesAlwaysCover` (`RangesCoverEverything`): the bounds of every message under way
  ascend, and exactly the last is infinite.
* `NothingIsForgotten` (`NothingForgotten`): while nothing went wrong for a client, each
  timestamp that only it or only the relay has is under way as a message or lies in a
  range under way that is not skipped; in behaviours in which no handler cuts a range
  that differs (`EndsEarly` never happens).
* `QuietMeansSynced` (`SyncedWhenQuiet`): a client for which nothing is under way has what the
  relay has, under the same condition. The condition is needed: run `sync_ends_early`
  violates the property without it.
* `SizeLimitsKept` (`SizeLimitsNeverExceeded`): no size assertion fails, in behaviours in
  which no handler adds ranges unasked behind messages that leave no room for them (`Overfills`
  never happens). Again the condition is needed: run `sync_too_big`.
* `ClientRequestsFit`: the requests a client makes on its own are within the limits (the
  first one when the limit has room for the largest split, as the code's has), so the
  condition is about answers only.
* `ReplicationImplemented` (`ImplementsReplication`): every step of `Sync` writes, copies, or
  leaves the stores alone, with no condition at all: what the handlers cut, drop or
  refuse never loses a timestamp and never makes one up.

The argument is about one exchange first. `sync` answers range by range
(`SyncStatesStep` unfolds its recursive function one step; what holds after every
range then follows by taking the first range where it would fail). `AnswerRange`
adds to the answer exactly what the range speaks of: the range skipped, its fingerprint
split (`SplitRangeAnswers`), or its timestamps, so that after all ranges
(`SyncSynchronizes`) each timestamp of which the ranges received were wrong is in a message
of the answer, or in a range of it that is wrong about it for this side (`Watches`).
The invariant of the protocol, `Following`, says that each timestamp that differs is
carried by a message or watched by a range under way: a range that is merely there would
not do, since a range that is right about it is answered with a skip. It also needs
that a client that is not subscribed yet has a request under way that
asks about everything (`SubscribingAt`), because only the relay's broadcasts bring it
what others write meanwhile.

For the sizes, `FilledSize` is what a buffer takes with a skip that waits to be
written. As long as the fold is not at the last range it stays two units below the limit,
which is where the margins of the code come from: one unit for that skip when it is
written (`SkipRangeFits`, `CoalesceSkipsFits`) and the fingerprint of the rest
(`RemainingRangeFits`). One lemma for each way to answer a range says that the invariant
survives it (`SplitRangeFits`, `AnswerFingerprintFits`, `AnswerTimestampsFits`), and all but two of
them follow from what the code asks before it adds. The two are the split of a range,
before which `canSplitRange` looks at the size of the ranges alone, and a list of timestamps
for which `canAddTimestampsRangeAndMessage` was not asked about a message, or not asked at all as
the list is empty. That `RangesMax` is well below `TotalMax` does not help there: messages may have
filled the rest. For the refinement, what a message carries is what its sender had when it was
made (`Messages`), and stores only grow, so a handler copies.

The assumptions are the `ASSUME`s of `StorageQueries`,
`Reconciliation` and `Sync`: timestamps are naturals below `Infinite`, sizes and numbers of
buckets are naturals, the relay is not a client, and the ranges of a message together with
the margin for a message are within the limit of the message (`LimitsAssumption`: the code
admits 3 to 100 KB for the ranges, 1 to 100 MB for the message).

`SharedResourceProofs` proves about `SharedResource`, for any keys, calls and
resources:

* `TypesKept`: `ResourceSpec => []ResourceTypeOK`.
* `LeasesAreLive` (`LeaseHoldsLive`): whoever holds a lease holds the current resource
  of its key, and it is alive.
* `PromisesKept` (`ImplementsLeases`): every step of `SharedResource` is a step of
  `Leases` under the mapping, or changes nothing of it.
* `NothingIsForgotten` (`NothingForgotten`): a resource that nobody uses is on its way to
  its disposal, and its key is registered while it is used and no longer. `KeptInv`
  says that it has exactly one idle fiber, asleep or at the mutex, and a leased one has
  none: a second fiber would dispose a resource that came back into use.

The inductive invariant `Inv` speaks of each key: at most one resource is alive,
and it is the current one or one being disposed; a lease is held by a call that is
returning or has returned, and got the current resource; whoever creates, and a
disposal that has begun, is the head of the inner queue; a call inside the
SharedResource is the head of its key's queue; a Run is stopped only when no call
is left that could be given a lease. The last two are what the two mutexes are
for: without them a disposal could begin between a lookup and a lease.

`OwnerUseProofs` proves about `OwnerUse`, for any tabs, owners, uses and transports:

* `UsesSharedResources`: `Spec => ResourceSpec`. What the tabs, sockets, panics and the
  shutdown do, is to the shared resources something `SharedResource` allows, so that
  its theorems hold here: `TransportsAreLive`, `TransportsImplementLeases`.
* `ClaimsPinTransports` (`ClaimsAreLive`, a conjunct of `ClaimsExact`): while the worker
  runs, whoever holds a ClaimLease holds a lease of the current connection of each
  of its transports. Its invariant adds that only the use at the head of an
  instance's queue acquires and no use is claimed twice (`Turns`), so that releasing
  one claim takes no lease from another, and that the holders of every claim have
  returned from their acquire (`ClaimsLeased`).
* `TransportsNotForgotten` (`NothingForgotten`): the same of the WebSockets, whatever
  tabs and instances do.
* `ClaimsStayExact` (`ClaimsExact`): the counts of the relation, the claims of the
  instances and the uses of the application agree, whatever is still queued. The
  invariant (`AccountInv`) keeps books: the queue of an instance adds a use before it
  removes it and disposes last; among the uses of an owner with the same transports, claims
  held and removals done are as many as additions done (`Balanced`); the count of an owner is that
  of the claims on it, and one more while the addition at the head has counted
  and not yet claimed (`CountsHeld`).
* `OwnersAskedWhenOpen` (`AskedWhenOpen`): on an open connection every claimed owner that is
  used with its write key has been asked for, and only claimed owners that were so used. Unless
  the owner was orphaned, or was used without its write key too, both of which section 5
  describes: `AskInv` shows that nothing else leaves an owner out.

The assumptions are the `ASSUME`s of the two modules: keys, holders and uses have
their types, the markers are none of them, and a use names at least one transport.

`EvoluInstanceProofs` proves about `EvoluInstance`, for any tabs, queries of any rows,
mutations, and ports of any length:

* `ValuesKeepTheirTypes`: the types of both modules' variables; a request names the tab
  that sent it, and the microtasks of a tab hold at most one batch of each kind.
* `MutationsTakeTheirTurns` (`MutationsInTurn`): the DbWorker works on the head of the queue
  only, and a mutation is at one place and committed in its turn.
* `PatchesAlwaysReplay` (`PatchesReplay`): every patch is applied to the rows it was made for.
* `CompletionsAreShown` (`CompletionShowsMutation`): a completed mutation is committed, and shown
  by the rows that came with its completion.
* `CacheStaysFresh` (`CacheIsFresh`): the rows of a cached promise become those of the
  database once everything has arrived, unless an answer was dropped.

Three invariants, each on top of the former. `Core` follows a request through the tabs'
batches, their ports, the queue, the DbWorker and the answer. `InTurn` is the
protocol of the tenant with its DbWorkers: at most one of "posted", "answered, and the
answer is the first thing on the port of the current DbWorker" and "nothing in
flight" holds, also while a LeaderAcquired is under way and after a tab with its
DbWorker has closed; without it the answer of a former DbWorker could be taken
for that of the request posted again. `AnswersTrue` says that an answer not yet handled
shows the database as it is, because nothing is written until it is handled.
`Placed` counts the places of every mutation, per tab and in the queue.
`AllReplay` replays the messages under way to a tab from the rows it shows, and arrives at
what the tenant noted (`rowsByQuery`); a tab that is not added yet has been told
nothing. It adds `ShowsWhenCompleted`, message by message, as a later message
may overwrite what an earlier one completed. `AllFresh` says why a cached promise can be
trusted: after every mutation of its own tab that does not bring the query a
request that does is under way (`AskedAfter`), and either the tenant's rows are those
of the database, or a request, a refresh, or a mutation in the queue that will cause
one is under way (`Asked`, `RefreshComing`, `WillRefresh`). The rows of a query are a
recursive function of its `Selects`; that it has the value of its definition at
every length, and so do the replays, is shown by the least length for which it fails.
The assumptions are the `ASSUME`s of the two modules, which give the constants their types.

`TasksProofs` proves about `RunTree`, for any tree of Runs, any masks, and any
Tasks:

* `RunTypesKept`: `Spec => []RunTypeOK`; who is disposed has observed an abort, who has
  observed one was requested.
* `NothingOrphaned` (`SettledForGood`): when a Run has settled, everything ever started
  below it is gone and its finalizers have run after that; a reported defect is the
  exit of the root.
* `AbortReachesAll` (`AbortReachesEverything`): a request has reached every Run below.

The inductive invariant `Inv` adds that a Run starts after all its ancestors
(`AncestorsStarted`), which is why a child of a requested Run is requested at birth
and why nothing starts below a settled Run: the Task that would start it has ended,
or, for a daemon, the root is not disposing. It says the same of finalizers
(`NothingBelow`), and that the root's exit is claimed "ok" only by settling
(`RootClaims`), so a defect always finds it free or already aborted.

and about `Tasks`:

* `TasksAreRuns`: `TasksSpec => Spec`, hence `TasksNeverOrphaned` and `TasksAreAborted`.
* `BracketsRelease` (`BracketReleases`): whatever aborts, throws or is disposed, what a
  bracket acquired is released, after use and everything it started. Its
  invariant `BracketInOrder` orders the five Runs; the mask is what keeps release from
  being refused.
* `PermitsStayExact` (`PermitsExact`): a Semaphore has given out exactly the permits its
  holders need and never more than it has, nobody waits whose turn has come, and those
  who share a key share its Semaphore unless the key is `stale`; for any needs, any
  number of keys and users, and any order in which aborted waiters leave.

`PermitsExact` is not inductive. `PermitInv` adds what the code keeps in no variable: a
Task waits once and not where it holds (`Counted`), so the permits of a row of
waiters are the sum over a set; who holds or waits is running (`AtWork`) and has not
observed an abort while it waits; and a user starts nothing but its job, only while it
holds (`JobInTurn`, `OnlyItsJob`), so nothing below it is left when it gives its permits
back. `ReleaseKeeps` is the lemma on `releaseWaiters`: the longest row of waiters that
fits is granted, and the next one does not fit. `WithdrawAllKeeps` takes aborted
waiters out one by one; that they are finitely many, so that there is such an order, is
part of the invariant (`FewStarted`), since a tree of Runs may be infinite.

The assumptions are the `ASSUME`s of the three modules: `Below` is the descendants of
`ParentOf`; only a daemon has another starter than its parent, and is a child of the
root; masks are naturals, and `unabortable` adds one; the Runs of a bracket are
distinct and nested as `acquireUseRelease` nests them; a job is a child of its user, and
users are ordinary Runs; needs and permits are positive. The Runs of a bracket are
themselves not `unabortable` (`BracketAssumption`); they inherit the mask of the bracket. An
`unabortable` release would be a new entry into a critical section, which the code refuses
once an abort was requested (`Task.ts:2571`): the resource would stay. The documentation of
`unabortableMask` forbids it (`Task.ts:4911`), and `BracketReleases` speaks of brackets
that keep to it.

Every safety property of the passing runs is stated by a theorem; three of `Sync` under a
condition, without which the violating runs refute two of them. Out of the prover's reach, and left to
TLC: liveness (`EventuallySynced`, `RoundsEnd`, `UsesSettle`, `LoadsSettle`, `DisposalEnds`). The library's induction theorems cannot be
instantiated; where a proof needs induction over a sequence, over the ranges of `sync` or
the rows of a query, it takes the least length at which the claim would fail.

## 5. Disagreements between code and comments

1. `Protocol.ts:1595`. A range too small to split lists the timestamps with the
   indexes from 0, not from its own lower index. Both sides still become
   equal (`EventuallySynced` holds in `sync`), but messages are sent to a side
   that has them. Run `sync_retransmission`.
2. `Protocol.ts:1463`. When a differing range cannot be split for lack of room,
   the fingerprint of the rest begins after that range. If the rest is equal, the
   synchronization ends with a difference and without an error. Run
   `sync_ends_early`.
3. `Protocol.ts:727`. `canSplitRange` looks at the size of the ranges only; after
   messages that nearly fill the message, the split fails the assertion that is
   meant never to fail, again on every connection. Run `sync_too_big`. By the proof of
   `SizeLimitsKept`, a list of timestamps added without asking for room
   (`Protocol.ts:742`) is the only other way to get there; no run reaches it.
4. `Shared.ts:773`. Uses are counted by owner, ClaimLeases by owner and transports,
   and the disposal of an instance takes back every use of an owner as the first
   one. After two uses of one owner with different transports the second
   ClaimLease is not found, the assertion that it exists fails, and the defect
   panics the SharedWorker. Run `transports_mixed`.

Modelling met more of them, which no run reports as a violation: a property
excepts them by name, or the part is not modelled.

* A mutation that the clock refuses is not answered, so the head of the queue stays and
  every instance waits (`Db.ts:326`; a TODO at `Shared.ts:970`). `loadQuery` says its
  promise always resolves. `LoadsSettle` excepts `refused`.
* The request in flight is posted to the next DbWorker although the former one may have
  committed it (`Shared.ts:515`, TODO at 971): a mutation is stamped twice.
  `MutationsInTurn` allows it after a tab has closed only.
* The LeaderAcquired of a tab that has closed may come after that of its successor and
  replace its port by a dead one (`Shared.ts:509`), while the live one is disposed. `LoadsSettle` excepts `Overtaken`.
* The answer to a mutation of an instance that is gone is dropped, with the refresh of
  the other instances (`Shared.ts:602`). `CacheIsFresh` excepts `dropped`.
* A query subscribed while its pending promise is marked for release, or rendered and
  changed before it is subscribed, shows older rows until the next refresh
  (`Evolu.ts:979`). `CacheIsFresh` speaks of cached promises.
* When the only claim of an owner is of a leaving instance while its connection
  opens, nobody asks for its sync messages, and the next instance does not either, as
  its claim is not the first (`Shared.ts:403`). `AskedWhenOpen` excepts `orphaned`.
  A second database that claims the owner on an open connection is in the same place.
* An owner that is used without its write key is never asked for: `getUsedOwnersById` skips
  it (`Shared.ts:747`), and the protocol would answer nothing (`Protocol.ts:1031`, "Now: No
  writeKey, no sync", with a TODO). `useOwner` says that "using an Owner means syncing it",
  its example uses `ReadonlyOwner`s (`Evolu.ts:671`), and a `SyncOwner` may hold one "so it can be
  synced" (`Owner.ts:86`). Nothing says that such a use hides others that do have the
  key, but it does: an instance keeps the `SyncOwner` that it counted first, so with a
  read-only one there its later uses with the key are not seen; and when a read-only
  use is the first claim on an open connection, nobody asks when another tab claims
  the owner with the key, until the connection opens again. `AskedWhenOpen` speaks of
  owners that were never used without their key (`UsedReadOnly`).
* The disposal of a tenant acquires the leader lock of its database to wait for the
  DbWorker; a DbWorker of a later tab that waits for the same lock is granted it first
  and keeps it (`Shared.ts:589`). Not modelled.
* A waiter of a mutex by key that is aborted may find its old semaphore idle after the
  key was forgotten and entered again, and forget the new one while it is held
  (`Task.ts:5812`); then two Tasks hold a key that admits one (`Task.ts:5822`: "one at
  a time independently for each key"). `PermitsExact` excepts such keys (`stale`).
* A Run that waits for a permit while it is masked does not see the disposal of a
  parent, so the disposal waits for whoever holds the permit. This is what
  `unabortable` asks for; `DisposalEnds` assumes that holders return.
* A storage error inside `splitRange` is caught and its range left out without an error
  (`Protocol.ts:1616`). `EventuallySynced` excepts the case of a sync request, where
  the exchange counts as failed; the same within an answer is not modelled.

## 6. Not modelled, and what could follow

The modules cover the parts whose steps interleave, fail or must agree with one
another. The repository is much larger: most of its lines are libraries of pure
functions with unit tests (`Type.ts`, `Result.ts`, `Schedule.ts`, collections,
encodings, cryptography), documentation in comments, user interface bindings,
example applications and the documentation site. Nothing in these interleaves, and
a model of them would repeat them.

Left out of modelled components: the binary encoding and protocol versions; write
keys in `Sync` (they are in `Relay`); schema creation and indexes; `exportDatabase`;
`CreateSyncMessages` as an entry of the tenant's queue (`OwnerUse` records that it was
asked for, `Sync` what it does); the disposal of a tenant; `acquireCurrent` and
`forEachCurrent`, which nothing uses; disposal without `idleDisposeAfter`;
callbacks that throw inside `Resource.ts`. Of `Task.ts`: the combinators that start
several Tasks (`all`, `allSettled`, `firstN`, `race`, `any`, `each`), `retry`, `repeat`, `timeout` and schedules,
`Deferred`, `Gate`, `MutexRef`, greedy semaphores, `resize`, `withPermitsIfAvailable`,
monitoring (events and snapshots), and the abort reason, of which only the presence
counts.

Evolu's `Type.ts` alone has nearly as many lines as all modelled files together, and
most lines of those are documentation; this is why the modules map a small share of
the repository's lines although they cover most of what interleaves.

What could follow: the disposal of tenants; the combinators of `Task.ts` as further programmed Tasks of `Tasks`.
