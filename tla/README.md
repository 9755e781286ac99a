# Verification of the Petuum parameter server (Bösen)

Petuum's Bösen is a distributed parameter server: application threads of many
processes read and increment rows of shared tables under *bounded staleness* (SSP).
A `Get` at clock `n` must see every update any thread made before clock
`n - staleness`; an `Inc` is visible to its own process at once and travels to the
row's server later. This directory holds TLA+ models of the protocol in
`src/src/petuum_ps` and `src/src/petuum_ps_common`, TLC configurations that
model-check them, and TLAPS proofs of their central invariants.
`PROJECT.json` maps every definition to the lines it translates.

## 1. The system

One process ("client") runs application threads, background workers and server
threads; one process also runs the name node. A table's rows are partitioned among
*communication channels*; a channel has one background worker per process and its
own servers. All threads talk through the communication bus (ZeroMQ sockets, one
receiving end per thread), and threads of one process also share memory.

| component | state it keeps | operations | talks to |
|---|---|---|---|
| application thread: `TableGroup`, consistency controller, `ClientTable` | its clock; index of rows it updated | register, `Get`, `Inc`/`BatchInc`, `Clock`, deregister | process cache, oplog, index and vector clock (shared memory); background worker (messages, then waits for the answer) |
| process storage (`BoundedSparseProcessStorage`, `ClockLRU`) | cached rows with clock and reference count | `Find`, `Insert`, eviction | threads, worker |
| oplog and oplog index | per row, updates not sent yet; rows to send | add, take and reset | threads, worker |
| background worker (`AbstractBgWorker`, `SSPBgWorker`) | version, clock, `RowRequestOpLogMgr` | row request, reply, clock, flush; start-up; shut-down | servers (messages) |
| thread table (a thread's own cache) | rows it holds, updates not flushed yet, index | `ThreadGet`, `ThreadInc`, flush | process cache, oplog and index (shared memory) |
| `SSPRowRequestOpLogMgr` | waiting requests per row, sent oplogs by version, requests per version | `AddRowRequest`, `InformReply`, `AddOpLog`, `GetOpLog` | worker |
| server thread (`ServerThread`, `Server`) | clock and version per worker, rows, buffered row requests | row request, oplog/clock message; start-up; shut-down | workers |
| name node (`NameNodeThread`, `NameNode`) | create-table bookkeeping | start-up, table creation, shut-down | workers, servers |
| `VectorClock(MT)` | clock per id, minimum | `AddClock`, `Tick`, `TickUntil` | table group, server |
| SSPPush: its controller, worker, `SSPPushRowRequestOpLogMgr`, `ServerVersionMgr` and server thread | system clock of the process; version each server has applied; oplogs some server has not; per row dirty flag and subscribers | wait for the system clock, `GetAsync`, push, acknowledge | as above; threads wait on a condition variable |
| SSPAggr, append-only oplogs | variants of worker, server and controller | prioritised sends, buffered updates | as above |

### What is hard about it

* **Shared state inside a process.** The worker takes the oplog index, then the oplogs
  of the indexed rows, while threads keep adding; a reply replaces a cached row that
  threads are updating. No update may be lost or applied twice (`UpdatesConserved`,
  `OwnUpdatesOnce`).
* **Three clocks that must mean the same**: the thread's, the process' (slowest thread),
  the server's (slowest process). `Get` compares a row's clock - set from the server's - with
  its thread's (`CachedRowsAsFreshAsTheirClock`, `ImplementsBoundedStaleness`).
* **Requests and replies out of step.** Replies carry the last version the server had
  applied; the worker re-applies the later ones, which it must still hold
  (`OldOpLogsAreKept`); threads share one request (`AwaitedRowsAreRequested`); the server
  answers buffered requests only at exactly their clock (`BufferedRequestsWaitForTheFuture`).
* **Bounded storage**: a row may be evicted between the worker's answer and the thread's
  second look (`FetchedRowIsFreshEnough`), and eviction needs a row without references
  (`InsertionFindsRoom`); `Insert` and `EvictOneRow` lock rows and slots in opposite orders
  (`NobodyIsStuck`) and count rows before they come and go (`RowsSlotsAndCountAgree`), so they must not
  come to evict more rows than can be spared (`RowsToEvictSuffice`).
* **Threads that come and go**: registration, the barrier and the steps of `Clock`
  interleave (`ClocksOncePerMinimum`, `ClockCoversUpdates`, `MinimumNeverFalls`, `ClocksAreTold`).
* **Pushed rows**: rows come unasked, from several servers; a worker has to keep each oplog until
  all servers have applied it, and its 32-bit versions wrap around (`KeptOpLogsAreUnacknowledged`,
  `VersionsSurviveWrapAround`); a server must pass no change by a subscriber (`CachedRowsFollowTheirServer`);
  threads wait for a clock that the worker advances outside their mutex (`NobodySleepsThroughTheClock`); answers to
  asynchronous requests are counted, not identified (`AsyncGetsAreCounted`).
* **Copies of copies**: a thread's own cache holds rows and updates that only it knows of, and is
  read without a look at clocks (`ThreadRowsStayFresh`).
* **Start-up, table creation, shut-down**: many threads in a fixed dance of counted messages
  (`Lifecycle`).

Processes are not restarted and nothing is persisted but optional snapshots; the bus is
reliable. Crashes, lost or duplicated messages and timeouts are therefore no part of the models.
A failed `CHECK` stops a process for good; that is modelled (`aborted`).

## 2. Modules

| module | models | proofs |
|---|---|---|
| `VectorClock` | `VectorClock` as operators on records, in the class' incremental style | `VectorClock_proofs` |
| `VectorClockObject` | one object under every sequence of calls | `VectorClockObject_proofs` |
| `TableGroup` | registration, barrier, the three steps of `Clock`, deregistration | `TableGroup_proofs` |
| `SSPRowRequestOpLogMgr` | every method of that class, as operators | in `SSP_proofs` |
| `BoundedStaleness` | abstract: what `Get`, `Inc` and `Clock` promise | implemented: `SSP_updates_proofs` |
| `SSP` | threads, workers and servers of the SSP consistency model | `SSP_proofs`, `SSP_updates_proofs` |
| `MCSSP` | instances of `SSP` for TLC | |
| `ServerVersionMgr` | every method of that class, as operators on words of any width | |
| `SSPPushRowRequestOpLogMgr` | every method of that class, as operators | |
| `SSPPush` | what SSPPush changes of threads, workers and servers; extends `SSP` | `SSPPush_proofs` |
| `MCSSPPush` | an instance of `SSPPush` for TLC | |
| `Lifecycle` | start-up, table creation and shut-down: name node, servers, workers, threads | `Lifecycle_proofs` |
| `MCLifecycle` | an instance of `Lifecycle` for TLC | |
| `ProcessStorage` | the bounded sparse storage and its clock, lock by lock | `ProcessStorage_proofs` |
| `MCProcessStorage` | an instance of `ProcessStorage` for TLC | |

### How `SSP` corresponds to the code

One action is one step that no other thread can see the middle of:

* `Inc` - `SSPConsistencyController::Inc`, `BatchInc`, `DenseBatchInc`. `FindInsertOpLog` holds
  the row's oplog lock until the accessor is gone, so oplog and cached row change together.
* `GetCached`, `GetRequest`, `GetReturn`, `GetAgain`, `GetAbort` - the exits of `Get`: hit;
  `RequestRow` and wait; the second `Find` succeeds; it fails and requests again;
  `CHECK_LE(num_fetches, 3)` fails. A stale row found first stays referenced (`pinned`): the
  accessor is overwritten without being released.
* `ThreadInc`, `ThreadGetCached`, `ThreadGetRequest`, `ThreadGetReturn`, `FlushRow`, `FlushThreadCache` - the
  thread's own cache (`ThreadTable`) of the threads in `CachingThreads`. `ThreadInc` stays with the thread; the
  flush moves one row at a time, each under its oplog's lock, while others go on, and drops the thread's copies
  at its end. `ThreadGet` of a row the thread has changes nothing. Its copy holds the process' row and the
  thread's own unflushed updates.
* `Clock`, `TickThread`, `TellBg` - the steps of `TableGroup::Clock`: publish the thread's index,
  tick the vector clock, send `kBgClock` or `kBgSendOpLog`.
* `RowRequestAnswered`, `RowRequestForwarded` - the two outcomes of
  `CheckForwardRowRequestToServer`.
* `HandleBgClock`, `HandleBgSendOpLog` - `HandleClockMsg`. The code takes the index at once and
  the rows one by one, each under its lock. The action takes them together: `Inc`s of different
  rows commute, and no property relates two rows of an oplog, so any run of the code has the same
  observations as one where they are taken together. Sending to the servers is part of the
  action, as nobody receives from the worker in between what depends on it.
* `HandleReply`, `HandleReplyAbort` - `HandleServerRowRequestReply` with `UpdateExistingRow`,
  `InsertNonexistentRow`, `CheckAndApplyOldOpLogsToRowData` and the eviction of `Insert`; the
  second is `GetOpLog`'s `CHECK`. The row's oplog lock is held from before the row is reset until
  it is complete. The victim of an eviction is chosen freely among unreferenced rows (the clock
  hand visits them in an order that depends on the threads' timing).
* `RowRequestBuffered`, `RowRequestReplied`, `HandleOpLog` - `HandleRowRequest` and
  `HandleOpLogMsg` of the server.

A row is a function from threads to how many of each thread's increments it holds: updates are
additive, and nothing else of their values matters to the properties. `sent` of a request copied
into the manager's list is not initialised by the copy (`row_request_oplog_mgr.hpp:28-38`); its
value is any member of the constant `StoredSent`. Channels are sequences, one per pair of threads,
received in any order between pairs (`RecvAny`). 32-bit versions are naturals, and
`(uint32_t)-1` is -1; the runs stay far below the width.

`BoundedStaleness` has no caches: in the refinement mapping `Promise` its increments are those a thread has
*shared* with its process, `Shared(t, r)`, so a flush is one abstract `Inc` of several increments and `ThreadInc` a
stutter. `ThreadGet` is no abstract `Get`, as it may return what the thread read earlier in its clock;
`ThreadRowsStayFresh` says what it promises instead.

`made`, `closed` and `read` are history for the properties: increments made, increments made when
each clock ended, and what the last `Get` returned. No guard reads `read` or `closed`; `made`
bounds the increments.

### How `SSPPush` corresponds to the code

The module extends `SSP` as the classes inherit: `Inc`, `ThreadInc`, the flush, `Clock` and the buffering of requests are
`SSP`'s actions; all others are its own.

* `TestSystemClock`, `WaitSystemClock`, then `NotifyAll`, are the lock of `system_clock_mtx_` with the test of the clock, the
  wait that releases it, and the worker's `notify_all`. `HandleServerPushRow` advances the clock *before* it takes the mutex
  (`ssp_push_bg_worker.cpp:36-38`), so a thread may test in between, and the worker then comes to `notify_all` only after the
  thread has begun to wait. A woken thread tests again (`AtClockCheck`).
* `PushGetCached`, `PushGetRequest`, `PushGetReturn`, `PushGetAgain`, `PushGetAbort` - `Get`, and with `byThread` `ThreadGet`,
  past the check of the clock. No row's clock is compared any more, so cached rows have the clock 0.
* `GetAsync` (both `GetAsync` and `GetAsyncForced`), `WaitPendingAsyncGet`. A thread receives replies through one socket and does not look at
  what they answer, so `replies` is a number: `Get` takes the answer to an earlier `GetAsync` as its own, looks again, and
  may come to its `CHECK` that way.
* `PushRowRequestAnswered`, `PushRowRequestForwarded`, `PushHandleReply`, `PushSendOpLogs` - as in `SSP`, with the manager of
  SSPPush: any cached row answers a request that is not forced, and every oplog is kept until all servers have acknowledged it.
* `HandleServerPushRow`, `HandleServerOpLogAck`, `Acknowledged` - the three ways a server acknowledges a version, the third with a reply.
* `PushRowRequestReplied`, `PushHandleOpLog` - replies subscribe the process. When the server's clock moves, it answers the requests
  buffered for the clock and then pushes the dirty rows to their subscribers, in messages of `PushCapacity` rows, the last with
  the clock; otherwise it acknowledges. A dirty row without subscribers stays dirty.
* Versions in the managers are words of `VersionModulus` values, compared as the code compares `uint32_t`s; what travels in messages
  is the number before it is cut to a word, so that the properties can say which version a word stands for. `Oldest` is the
  loop of `SetServerVersion` for wrapped versions by its result.

### How `Lifecycle` corresponds to the code

One action is the receipt of one message with all the messages sent in answer, the passing of a
barrier by everybody who waits there, or one call of an application thread. A worker's `stage` names
the receive or the barrier that `AbstractBgWorker::operator()` has come to; a server's and the name
node's are the counting of connections (`InitServer`, `InitNameNode`), the message loop, and the end.

* In the initial state workers and servers have sent their first message, the connection to the
  name node (`ConnectToNameNodeOrServer`, `ConnectToNameNode`): they wait for nothing before it. Inside a
  process the receiving ends exist by then, because `NameNode::Init` and `ServerThreads::Init` wait at
  barriers before `BgWorkers::Start`; between processes ZeroMQ holds back what is sent too early.
* `PassInitBarrier`, `PassCreateTableBarrier` - `pthread_barrier_wait` of all workers of a process and
  its init thread. `register_barrier_` is the guard `PastBarrier`.
* `HandleCreateTable`, `HandleCreateTableReply` - with `HaveCreatedAllTables` and the
  `CreatedAllTables` messages to the head workers, which create the tables of their process.
* `ClockAllTables` - one message to each worker; the vector clock in front of it is in `TableGroup`, and
  what a worker then sends in `SSP`. Here it serves to have oplogs on their way while others register,
  create tables or shut down.
* `AppThreadDeregister` - by `DeregisterThread`, or by `TableGroup`'s destructor for the init thread.

With no tables at all `CreatedAllTables` would never be sent and the head workers would wait for it for ever:
`LifecycleAssumption` excludes an empty set of tables.

### How `ProcessStorage` corresponds to the code

`SSP` takes an insertion as one step; here it is a walk through `Insert`, `EvictOneRow`, `FindOneToEvict` and
`FindEmptySlot`, in which a step ends at each lock taken and each access to memory that other threads share. A worker's
`pc` names the point it has come to, and `row` and `slot` are the locals of those functions.

* `Find` is one step: it holds the row's lock from beginning to end. `ThreadFind` is a thread's, `WorkerFind` and
  `WorkerMiss` are the two outcomes of the worker's in `HandleServerRowRequestReply`. A thread that finds nothing
  changes nothing. A thread's accessor may refer to a row already when it finds the next: `Get` calls `Find` twice with one accessor, and
  applications use theirs again. `SetClientRow` overwrites it without releasing the first row, which keeps that reference for good.
* `CountRow`; `EvictOneRow`, `MoveHand`, `TestRecency`, `PassSlot` or `LockSlot`, then `KeepCandidate` (and back to the hand) or
  `ChooseCandidate` and `Erase`; `LockRow`; `PopEmptySlot`, or `NoEmptySlot` and `NextUnusedSlot`; `PlaceRow`; `PublishRow`.
* `PassSlot` takes together the failed `TryLock` and the slot that is locked, found empty and unlocked: while it is held, others can only
  fail to lock it, or wait. `Erase` is one step because the row is in nobody's reach: its lock and its slot's are held.
* Only the worker of a row's channel inserts it (`GetPartitionCommChannelIndex`), and only after a `Find` that failed: `RowsOf`
  is a partition. `LockRow` keeps the code's exit for a row that is there after all; `NoCheckFails` says that it is not taken.
* `MoveHand` and `GiveUp` - the two ways in which `FindOneToEvict` stops the process: the `CHECK` on the slot, which is negative once `evict_hand_++`
  has wrapped around (`HandSlot` is C++'s remainder, with the sign of the hand), and `LOG(FATAL)` after `MAX_NUM_ROUNDS` rounds. `tries` is the loop's
  counter, which starts anew with each call. The constants `MaxRounds` and `MaxHand` stand for 20 and 2^31 - 1. Once a worker is `aborted`, nobody goes on (`Alive`).
* The lock pools are as large as the capacity (`GlobalContext::GetLockPoolSize`), so slots have a lock each, and rows share them.

## 3. Runs

Each run asks its own question; bounds are constants of the modules (`MaxClock`, `MaxIncs`, `MaxClocks`, ...).

| run | instance | shows |
|---|---|---|
| `vc` | 3 ids, clocks to 4 | under every order of calls the cached minimum is the minimum, `Tick` reports exactly its rises, `TickUntil` ends where the loop of ticks does |
| `tg` | 3 threads, 3 clocks, aggressive | workers are told each clock once, not before its updates are published, and in the end; the minimum never falls |
| `team` | 2 threads in one process, 1 in another that updates; 1 row, staleness 1 | types; no buffered request is left behind; cached rows are as fresh as their clock and never go back; a thread's copies are as fresh as what `Get` would return; **SSP implements `BoundedStaleness`** |
| `solo` | 2 threads, 1 process, 2 rows, cache of 1, aggressive | updates conserved; own updates exactly once; channels without gaps; a thread's copies and fetched rows fresh enough, across eviction |
| `spread` | 2 processes, 2 rows on 2 servers, cache of 1 | bounded staleness when oplogs are split between servers that have clocks of their own |
| `live` | 3 threads in 2 processes, `StoredSent = {FALSE}` | every fetching `Get` returns, so awaited rows have a request under way |
| `life` | 2 processes with 2 channels; 2 threads and 1; 1 table, 1 clock | every message meets a receiver that expects it; no table is used before it exists; nothing is on its way to whoever has left; nobody is stuck before the end |
| `storage` | cache of 2; workers with rows 0, 3 and row 2, where 0 and 2 share a lock; 1 thread | no referenced row is evicted; map, clock and count agree; no `CHECK` fails on the victim, the row to insert or its slot; the two orders of locking never block each other; with the room that the header asks for, there is a row for each eviction |
| `push` | 2 threads in one process, one of which reads, 1 in another that updates; 2 servers, one with 2 rows; cache of 1, staleness 0, words of 3 values | types; own updates exactly once; kept oplogs are exactly the unacknowledged ones, also across the wrap of versions; no change passes a subscriber by; nobody sleeps through a clock all servers have pushed; asynchronous answers are neither too few nor too many; **SSPPush implements `BoundedStaleness`** |
| `sent` | `StoredSent` with `TRUE` | violation: a thread waits for a row nobody requests |
| `kept` | two threads with different clocks | violation: an oplog that a reply on its way needs is deleted |
| `pinned` | cache of 1 | violation: nothing to evict although nothing is referenced |

Why these bounds: staleness 0 or 1 with clocks to 2 lets a thread run ahead, be held back, and
have its request both buffered and answered at once. Two threads in one process are what it takes
for requests with different clocks for one row; a second process for foreign updates and for a
server that is ahead of or behind its worker; a cache of one row and two rows for every kind of
eviction; increments of one thread suffice for conservation, as all threads are treated alike. In `storage`, three rows for two slots make
the cache full with an insertion to come; two rows that share a lock, and two workers, are what a cycle of locks would take
(with half as many locks, TLC finds one); three replies per worker bring each of them to evict while the other inserts. Two rounds (four tries) are the fewest after which a row that
was recent can have been found; a hand of 15 wraps around within a run, to a slot and then to a negative one. Two lookups by the
thread suffice to leave a reference behind, to refer to all rows of the cache, or to refer to a row again.
In `push`, one clock is enough for a tick of the system clock and a push by each of two servers that lag differently; with aggressive clocking
the process of two threads sends a version that is no clock as well, so two versions can be outstanding. Versions start at the highest word and wrap around
with the first one sent; `VersionsSurviveWrapAround` lets them wrap anywhere else. Words of three values are the fewest that tell the
outstanding versions apart: with two, `KeptOpLogsAreUnacknowledged` fails, as the header of `ServerVersionMgr` warns. The full product of own and foreign
updates, asynchronous requests, the thread cache and a second row is out of reach. `Explored` in `MCSSPPush` takes them in
combinations, each complete within itself: own with foreign updates after the clocks; one feature at a time in the first clock; asynchronous requests
together with foreign updates. The process without readers handles each message of a server before the
next one arrives. `StoredSent` is `{FALSE}` there: run `sent` shows what `TRUE` leads to, and the code is the same.
`CHECK_DEADLOCK FALSE` everywhere but in `vc`: threads end their work at `MaxClock`, and the bounds stop them.

**Fairness.** `FairSpec` of `SSP` assumes weak fairness of: the rest of a `Get` that was answered,
a thread's clocking, and each channel's messages. The workers and servers poll all their sockets
in a loop (`CommBus::RecvAny`; ZeroMQ polls fairly), so no channel is passed over for ever. That a
thread keeps clocking is what the SSP interface demands of an application: threads that stop
clocking without deregistering stop the others by design. Nothing obliges a thread to call `Get` or
`Inc`. `FairSpec` of `TableGroup` assumes that started calls end. `ProcessStorage` states none: the code does not promise that an insertion ends, as threads may hold on to
rows, leave references behind, or refer to each row just before the hand comes. `SSPPush` states none: its run checks safety only, at the size
liveness would not bear. `Lifecycle` needs
none: every message, stage and clock is used up once, so every behaviour is finite, and `NobodyIsStuck`
says that it cannot end before everybody has.

**Violations.** The three violation runs check what comments of the repository say, and fail for
what the code does; `PROJECT.json` quotes comment and code.

1. `sent`: `RowRequestInfo`'s copy constructor and assignment copy `app_thread_id`, `clock` and
   `version` but not `sent`; `InformReply` reads `sent` of the stored copy to decide whether the next
   request still has to be sent.
2. `kept`: versions are counted by request but cleaned by reply; with two requests for one row under
   way (the later thread with the *smaller* clock), the first reply removes both.
3. `pinned`: `RowAccessor::SetClientRow` does not release the row it held.

The runs `team`, `solo` and `spread` take both values of `sent` into account: safety of the data does
not depend on it.

## 4. Proofs

Every theorem is proved for all values of the constants under the modules' named assumptions: any number of
processes, threads, servers and rows, any staleness, cache size and bounds. `PROJECT.json` lists the theorems.

**What is assumed.** `ThreadsAssumption`, `ServersAssumption`, `SettingsAssumption` and `BoundsAssumption` of `SSP`:
every thread has a process, every row a server, a cache has room for a row. Neither threads nor rows nor
processes need be finitely many there. `TableGroup` and `ProcessStorage` count threads and workers and
assume that these are finite. `ProcessStorageAssumption` also says that each row has one worker (the one of its channel)
and row ids are not negative, as the code's `-1` for an empty slot needs. `PushAssumption` of `SSPPush` has some server and
finitely many rows: every process of the system runs a server, and a server's table is a map in memory. `MaxClockAssumption` bounds clocks from below only.

### Clocks

* `VectorClock_proofs`: `AddClock`, `Tick`, `TickUntil` keep `IsMinimum` (the cached minimum is below
  all clocks and equal to one). The argument for `Tick`: either the ticking id is alone at the minimum, and all
  others are at least one above; or another id stays at it. For `TickUntil`, `LowestAfter` is shown to be
  the least clock after the call.
* `VectorClockObject_proofs`: the class invariant for every sequence of calls; results
  (`MinimumAlwaysExact`, `ResultAlwaysTells`). `TickUntilAlwaysTicks`: the loop of `Tick`s in the code, a recursive
  function in the model (`TicksUntil`), computes the closed form `TickUntil`. Each iteration goes one clock on
  (`TickUntilStep`), and the least iteration where the two would differ contradicts that; a recursive function has a
  value only if some function solves its equation, which `LoopExists` gives as the closed form itself.
* `TableGroup_proofs`: the inductive invariant adds to the properties that before the barrier all clocks are 0
  (else registration could lower the minimum) and that the number told plus the threads about to tell
  equals the minimum. From it `TypesStayRight`, `ClocksToldOnce`, `ClocksCoverUpdates`, `MinimumAlwaysRises`.

### SSP

The inductive invariant is `FullInv == Inv /\ AccountsOK /\ FreshOK`, with
`Inv == TypeOK /\ WaitingOK /\ HistoryOK /\ ProcessOK /\ IInv`. Each step adds a layer, and a layer uses those before it:

1. `SSP_proofs`: `IInv == Shapes /\ ServerClocksExact /\ MessagesInSequence /\ BufferedRequestsWaitForTheFuture`.
   `Shapes` types what the messages are built from. `MessagesInSequence` alone gives that a message's version
   is the one the server expects (`VersionsAlwaysInOrder`), and that a clock message raises the server's clock for
   its sender by exactly one; with the exact minimum (`ServerClocksExact`, from the `VectorClock` lemmas) the
   minimum then rises by at most one, to the very clock whose buffered requests are answered
   (`NoRequestIsPassedOver`). Sequence lemmas about appending to and taking from a numbered run
   (`ExtendRun`, `ShiftRun`) are stated once.
2. Its second part: `TypeOK` is not inductive by itself.
   * `WaitingOK`: a waiting thread knows its row and clock, only its own request is under way, and who is listed as pending
     at the manager waits for that row. Without it a reply could wake a thread that is in no `Get`.
   * `HistoryOK`: what a thread had made when it ended a clock only grows, and is no more than what it has made, less what it has not flushed.
   * `ProcessOK`: the workers' clocks are behind the threads'. Advances of the process' clock travel in separate messages of several
     threads, which may overtake each other; they all look alike. `AdvancesNumbered` gives every one of them a number of its own
     between the worker's clock and the threads' minimum, so there are never more of them than clocks ended.
3. `SSP_updates_proofs`: for each thread and row there is a *ledger* `f` (`AccountsOK`): `f[v]` is how many of the thread's updates have
   left its process in versions up to `v`. Everything that holds updates is a value or a difference of `f`: the server has `f[` its version of
   that process `]`, the process keeps the rest in its oplog, and a message or a kept oplog of version `v` has `f[v] - f[v-1]` (`Sent`); no other
   process sends any (`Elsewhere`); a clock the server has reached is covered by what it has (`Ended`); replies (`Replied`) and cached rows
   (`Cached`) hold what their clock promises and, of their own process, exactly what the replay of the later versions completes. A step that
   sends a version extends `f` by one value; all others leave it. A sum over a channel telescopes (`SumOfDifferences`), which gives `NoUpdateIsLost`;
   `EveryThreadSeesItsUpdatesOnce` and `RowsAreAsFreshAsTheirClock` are read off `Cached`. The argument needs that the manager still has
   the oplogs a reply replays: where it has not, `HandleReplyAbort` stops the process (run `kept`).
4. Its second part, freshness: `RepliesInOrder` - of one row, replies on their way are ordered by what they hold, after the cached row and before the server's
   row, so that a reply never takes a cached row back (`CachedRowsNeverGoBack`); `WokenThreads` - a thread that was woken finds its row evicted or
   fresh enough (`FetchedRowsAreFreshEnough`). The rows in threads' own caches stay as fresh as `Get` demands, because a clock drops them
   (`ThreadRowsAlwaysFresh`). Then the refinement: initial states map to initial states (`InitMaps`), and each action to an abstract step or a
   stutter (`StepMaps`): `Inc` and the flush of a row to `Inc`, the exits of `Get` that return a row to `Get`, `Clock` to `Clock`. That `Get` is allowed is
   `OwnUpdatesOnce` for the reader's process and `CachedRowsAsFreshAsTheirClock` for all others. **`PromiseIsKept`: `Spec => ImplementsBoundedStaleness`.**

Between the two parts, `SSP_proofs` states what `SumFunctionOnSet` of the community modules computes over finite sets (it takes the elements in an unknown
order). It is stated over sets of subsets instead of predicates, as the provers cannot instantiate an operator. For the same reason the
manager's loops are recursive functions and sums, not folds.

### SSPPush

`SSPPush_proofs` proves first that nobody sleeps through the clock it waits for. The inductive invariant is
`PushInv == SharedInv /\ PushShapes /\ PushedInSequence /\ SystemClocksExact /\ SleepersAreNotified`:

* `SharedInv` is what holds of `SSP` as well, by the same lemmas: `IInv` (what travels to the servers) and `ProcessOK` (workers are behind
  their threads). The lemmas of `SSP_proofs` are stated for what the two have in common (`SendOpLogMsgs`, `OpLogHandled`, `ClocksTyped`), not for
  the actions of one.
* `PushedInSequence`: the clocks in the pushes on their way from a server follow one another, from the clock the worker has seen to the server's
  minimum. It needs that the minimum rises by one at most, which is `IInv`, and that of several messages of one push exactly the last
  carries the clock (`PushesOf`).
* `SystemClocksExact`: the worker adds one to the system clock for each push that moves the minimum of its servers' clocks, and never stores the minimum.
  As the clocks of a server come one by one, the minimum never moves by more, and the count is the minimum.
* `SleepersAreNotified`: whoever has tested the clock and is about to wait, or waits, for a clock that has come, is about to be notified. The worker
  ticks without the mutex, so this holds also of a thread between its test and its wait; `notify_all` needs the mutex, so nobody is there then.

`NobodySleeps` needs `SystemClocksExact` once more, to get from what the servers have pushed to the count that threads look at. `PushedMessagesStayInSequence` and
`PushPassesNoRequestOver` are the two properties of `SSP`'s channels that hold here as well.

The versions that servers acknowledge are 32-bit words. `KeptOpLogs` and `WrapAroundIsHarmless` are proved of `PushSpec /\ []FewVersions`: the header of
`ServerVersionMgr` asks that fewer versions than words are outstanding, and the code does not see to it. (In the run this always holds, as
`KeptOpLogsAreUnacknowledged` is checked there.) `OpLogsAreRemembered` says that there is a number for each server, the version it acknowledged,
such that the manager has the words of these numbers, the word of the lowest, and the oplogs of the versions after the lowest; and that every
message from a server carries a version between that number and what the server has applied, in order (`Ordered`). While few versions are outstanding the words of two of them
differ and compare with the last version's word as their distances from it do (`WordsInWindow`). So `RaisesMin` notices just when
the lowest number moves (`VersionIsSet`), `Oldest` finds the word of the new one, wrapped around or not (`LowestWord`), and `Removable` holds of
just the versions up to it (`Superfluous`). `WrapAroundIsHarmless` applies the same lemmas to the manager as it is and as it would be, had
`d` more versions been sent before (`RotatedDecides`).

Two more invariants rest on `PushInv`:

* `PushTypes` types what each thread, worker, server and channel has (`CommonOK`, `ManagersOK`, `ChannelsOK`), with lemmas shared with `SSP` where the two
  do the same. It says of `replies`, which is `PushTypeOK`'s one part that is not a matter of types, only that it is a number.
* `GetsCounted` counts: what a thread counts on (its `pending` requests, and one if it waits in `Get`), less its replies and less its requests in the
  queue to its worker (`Due`), is how often the manager of its process lists it (`HeldBy`, a sum over rows). Each step moves one unit from one place to
  the next, but for a push or reply, which answers all the satisfied requests of a row: what `RemoveSatisfied` drops from a list is what `AnswersTo` counts as replies.
  A thread lists only with its own process (`OwnRequests`). When a `CHECK` has stopped the process, its manager is no longer right, but no
  thread of it goes on; its replies, which `PushTypeOK` still bounds, are those it had.

`AsyncGetsCount` reads the count off the second invariant. `PushTypesHold` takes the bound of the replies from it: a thread never
has more than it has counted on. TLC checked `GetsCounted` on the instance of run `push` before it was proved.

### Process storage

`ProcessStorage_proofs` proves the invariants of run `storage` but `NobodyIsStuck` from
`IInv`, which TLC checked on that run's instance. Its parts, and why they are needed:

* `RowLocksInv`, `SlotLocksInv`: who is at a stage that holds a lock holds it, alone. `HoldsRow` and `HoldsSlot` read this off the
  worker's program counter.
* `VictimInv`: from the look at the reference count until the erasure the victim is stored, in that slot, unreferenced. `Find` cannot intervene,
  since it needs the row's lock, nor another eviction, since it needs the slot's.
* `InsertionInv`: the row to be inserted is not stored, because no other worker has rows of this channel.
* `OccupantInv`, `EmptyInv`: slots and map point at each other, but for the rows between `PlaceRow` and `PublishRow`; free slots are empty and offered once.
* `RefsInv`: the reference count is not below the number of accessors that refer to the row (`ReferencedRowsStay`). It may be above: an accessor that was
  overwritten has left its reference there.
* `CountInv`: `num_rows_` counts the stored rows and those whose insertion has begun, so it exceeds the capacity only by the workers that are about
  to evict; the insert hand counts the slots in use, given out and free, and with the workers that found none free it stays within the capacity. This is why
  `CHECK`s about free slots cannot fail although three counters are changed at different times (`ChecksNeverFail`, `RowsSlotsAndCountAlwaysAgree`).
* The same part has that `num_rows_` is *exactly* the capacity, plus the workers about to evict, as long as any worker is evicting. So the stored rows and
  the workers on their way to a place together make up the capacity; every worker that evicts is one that inserts and has no place yet. If the
  capacity less the referenced rows is not below the number of workers that insert, then as many stored rows as there are evictions have no references
  (`RoomIsEnough`).
* `TypesStayRight` takes the bound on `num_rows_` from it, and from `InsertionInv` that a worker looks only at slots on the clock, wherever the hand is.

### Start-up, table creation, shut-down

`Lifecycle_proofs` proves the four safety invariants of run `life` under `LifecycleAssumption`: finitely many processes, channels,
threads and tables, at least one process and one table, and an init thread in every process. A message that comes in the wrong stage stops a process
with a `CHECK`, whatever the order in which it serves its channels, so the inductive invariant `IInv` says for every channel, and every stage of
both its ends, what may be in it:

* `StagesInv` relates the stages of a process' workers, of its init thread and of its other threads: in which stage of one which stages
  of the others can be. `WithInit` is the argument for both `pthread_barrier_wait`s.
* `ToNameNodeInv`, `FromNameNodeInv`, `ToServerInv`, `FromServerInv`, `FromInitInv`, `FromThreadInv`, `ToInitInv`: the contents of the channels.
  A worker's oplogs, for instance, are between its connection and its farewell, and while it has yet to hear that all tables are there, it has sent none.
* `NameNodeInv`, `ServerInv`, `StartedInv`, `AcksInv`, `AppsInv`, `TablesInv`, `CreatingInv`: what is counted. The code passes from a stage to the
  next when a counter reaches a number of processes or threads; a counter knows nobody. The invariant says that each counter is the size of a
  set: of those whose message has left the channel (`StartsAt`, `AcksAt`, `AppsAt`, `GoneAt`, `ShutDownsAt`, `CreatedOn`, `Answered`). With it, who waits for
  `n` messages knows that every one of `n` has sent its own, and so in which stage all of them are (`NameNodeGone`, `ServerGone`, `WorkerGone`).
* `CreatingInv` also holds that a worker waits in the queue of at most one table, and only until all servers have replied; then the name node answers every process
  exactly once per table, which `HaveCreatedAllTables` counts.

`IInvHolds` has one lemma per action and part of the invariant the action can disturb; how a step looks from a worker that takes no part in it (`Aside`) is
stated once. `EveryMessageIsExpected` reads the head of each channel against its stage. `EveryTableExists` follows the chain of
messages: an oplog is sent by a worker past the table barrier, whose head worker has had `CreatedAllTables`, which the name node sends when every server has
replied for every table. `NothingIsLeft`: the name node is gone when all workers have said farewell, which is the last message a worker
sends; a worker is gone when the name node and all servers of its channel have acknowledged, which is the last they send.

### Only model-checked

* Liveness (`ClocksAreTold`, `GetsReturn`) and `NobodyIsStuck` of `ProcessStorage` and `Lifecycle`, which is about `ENABLED`: out of the provers' reach.
* Of `SSPPush`: `CachedRowsFollowTheirServer` and its refinement of bounded staleness, which need the ledgers of `SSP_updates_proofs` for rows that
  come in pushes.
* The properties of the three violation runs, which are false.

## 5. Not modelled, and why

* SSPAggr: its worker sends oplogs by importance while idle, as many bytes as a transfer-time estimate allows. It builds on SSPPush, whose
  run is already as large as it can be. Reading it showed three hazards (`ssp_aggr_bg_worker.cpp:119` and `:67`,
  `table_oplog_meta.cpp:168`).
* Append-only oplogs and their controller, tables without oplog replay: alternatives to the oplogs of `SSP`.
* That `version + 1 < version_` compares words without regard to their wrap (hazard `ssp_bg_worker.cpp:259`): `Replayed` is what
  it computes for all versions but the outstanding ones around the wrap.
* The message tracker: no file of the repository uses it.
* That an eviction ends. `RowsToEvictSuffice` says that there is a row for it, under the condition the header states. That the hand comes to the row while it is
  unreferenced and not recent, before 20 rounds are over, depends on the speed of the threads.
* The concurrent map and queue under the storage, whose operations are taken as atomic.
* That the locks around the worker's two compound steps are there: `SSP` takes the index and then the oplogs of the rows in one step, and the reset and the completion of
  a cached row in another, for the reasons given above. The hazards `ssp_bg_worker.cpp:101` and `abstract_bg_worker.cpp:738` are therefore listed without a property.
* Two `CHECK`s on what a message carries: that the table created is the one asked for (`abstract_bg_worker.cpp:362`; a worker asks for one table at a time and the
  answer goes to who asked), and `SetServerVersion`'s `CHECK_LE` on an acknowledged version.
* Serialisation, row containers, record buffers: byte layouts without influence on the protocol.
* Dense oplog and dense storage: same interface; the dense storage never evicts.
* Snapshots, statistics, file input, the YARN launcher, applications: I/O, or outside the protocol.
* Lock and queue classes: taken as mutual exclusion. `VectorClockMT::TickUntil` would block itself, and has no caller.

Of the repository's lines most are not the parameter server's: two copies of the Eigen library with the applications, the applications
themselves, statistics, the YARN launcher. What is modelled is the protocol in `src/src/petuum_ps` and the shared structures of
`src/src/petuum_ps_common` it rests on.

## 6. Plan

1. (done) `VectorClock`, `TableGroup`, `SSPRowRequestOpLogMgr`, `SSP`, `BoundedStaleness`, their runs and first proofs.
2. (done) `Lifecycle` and its run.
3. (done) `ProcessStorage` and its run.
4. (done) The thread cache in `SSP`; `ServerVersionMgr`, `SSPPushRowRequestOpLogMgr` and `SSPPush` and their run.
5. (done) Proofs of `SSP`: types, conservation of updates, freshness, and that it implements `BoundedStaleness`. Proofs of the
   storage's safety, of `TickUntil` and of the types of `TableGroup`.
6. (done) Proofs of the invariants of `Lifecycle`; of `SSPPush`, the types, `NobodySleepsThroughTheClock`, `KeptOpLogsAreUnacknowledged`,
   `VersionsSurviveWrapAround` and `AsyncGetsAreCounted`; of `ProcessStorage`, `RowsToEvictSuffice`.
