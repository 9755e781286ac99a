--------------------------------- MODULE SSP ---------------------------------
(***************************************************************************)
(* The Stale Synchronous Parallel core of the Petuum parameter server      *)
(* (consistency model SSP): application threads, the background worker of  *)
(* each client process and the server thread each process hosts, on one    *)
(* communication channel and one table.                                    *)
(*                                                                         *)
(*   application thread   SSPConsistencyController, TableGroup::Clock      *)
(*   background worker    AbstractBgWorker and SSPBgWorker                 *)
(*   server thread        ServerThread and Server                          *)
(*                                                                         *)
(* The threads of a process share its process cache, its oplog and its     *)
(* oplog index; everything else travels in messages, first in first out    *)
(* between each pair of threads.                                           *)
(*                                                                         *)
(* Updates are additive.  All that the properties tell apart of a row is   *)
(* how many of each thread's increments it holds, so a row, and a batch of *)
(* updates to it, is a function from threads to numbers.                   *)
(*                                                                         *)
(* Operators commented "Mutant of X: ..." are what a slip in X would make  *)
(* of it.  The specification does not use them; substituted for X, each    *)
(* must break a property.                                                  *)
(***************************************************************************)
EXTENDS Integers, FiniteSets, Sequences, Functions, VectorClock, SSPRowRequestOpLogMgr
LOCAL INSTANCE TLC

CONSTANTS
  Clients,        \* client processes, each with one background worker
  Threads,        \* application threads
  ClientOf,       \* the process of each thread
  Servers,        \* the processes whose server thread holds rows of the table
  Rows,           \* row ids
  ServerOf,       \* GetPartitionServerID: the server of each row
  Staleness,      \* table_staleness
  Capacity,       \* process_cache_capacity
  Aggressive,     \* aggressive_clock
  StoredSent,     \* the values a RowRequestInfo's uncopied sent may read as
  MaxClock,       \* bound: clocks per thread
  MaxIncs,        \* bound: increments per thread and row
  Readers,        \* bound: the threads that call Get
  CachingThreads  \* bound: the threads that use their own cache (ThreadInc, ThreadGet)

ASSUME ThreadsAssumption == ClientOf \in [Threads -> Clients] /\ Clients # {}
ASSUME ServersAssumption == Servers \subseteq Clients /\ ServerOf \in [Rows -> Servers]
ASSUME SettingsAssumption ==
  /\ Staleness \in Nat /\ Capacity \in Nat \ {0} /\ Aggressive \in BOOLEAN
  /\ StoredSent \subseteq BOOLEAN /\ StoredSent # {}
ASSUME BoundsAssumption ==
  /\ MaxClock \in Nat /\ MaxIncs \in [Threads -> [Rows -> Nat]]
  /\ Readers \subseteq Threads /\ CachingThreads \subseteq Threads

VARIABLES
  \* application threads
  clock,        \* ThreadContext's clock
  pc,           \* where the thread is in Get or in Clock
  want,         \* the row and the stalest clock of the Get or ThreadGet in progress
  fetches,      \* num_fetches of the Get in progress
  threadIndex,  \* ThreadTable::oplog_index_: rows updated since the last Clock
  threadRows,   \* ThreadTable::row_storage_: the rows it holds, and their data
  threadOplog,  \* ThreadTable::oplog_map_: the thread's updates not flushed yet
  \* client processes, shared by their threads
  threadClocks, \* TableGroup::vector_clock_
  oplog,        \* per row, the updates not sent yet
  oplogIndex,   \* PartitionOpLogIndex: rows whose oplog the next send takes
  cache,        \* process storage: a row's clock and data, clock -1 if absent
  pinned,       \* rows whose reference count never returns to zero
  aborted,      \* a CHECK of the process has failed
  \* background workers
  version,      \* version_
  clientClock,  \* client_clock_
  mgr,          \* row_request_oplog_mgr_
  \* servers
  bgClock,      \* Server::bg_clock_
  bgVersion,    \* Server::bg_version_map_
  table,        \* the server's rows
  rowRequests,  \* clock_bg_row_requests_: per clock and background worker
  \* channels
  appToBg, bgToServer, serverToBg,
  \* what the properties are about
  made,         \* increments a thread has made
  closed,       \* per clock, the increments made when the thread ended it
  read          \* the row the last Get returned, while nothing else has happened

tableVars   == <<threadIndex, threadRows, threadOplog>>
threadVars  == <<clock, pc, want, fetches, tableVars>>
clientVars  == <<threadClocks, oplog, oplogIndex, cache, pinned, aborted>>
bgVars      == <<version, clientClock, mgr>>
serverVars  == <<bgClock, bgVersion, table, rowRequests>>
channelVars == <<appToBg, bgToServer, serverToBg>>
ghostVars   == <<made, closed>>
vars == <<threadVars, clientVars, bgVars, serverVars, channelVars, ghostVars, read>>

-----------------------------------------------------------------------------
Zero == [u \in Threads |-> 0]
NoUpdates == [r \in Rows |-> Zero]
NotCached == [clock |-> -1, data |-> Zero]
NoRead == {}
NoRequests == [c \in Clients |-> << >>]

RowsOf(s) == {r \in Rows : ServerOf[r] = s}
ThreadsOf(c) == {t \in Threads : ClientOf[t] = c}
Alive(c) == ~aborted[c]

CachedRows(c) == {r \in Rows : cache[c][r].clock >= 0}

\* Mutant of StalestClock: one clock too old.
TooStaleClock(t) == IF clock[t] > Staleness + 1 THEN clock[t] - Staleness - 1 ELSE 0

\* SSPConsistencyController::Get: the oldest row clock the thread accepts.
StalestClock(t) == IF clock[t] > Staleness THEN clock[t] - Staleness ELSE 0

\* At the start, but for the managers of row requests and oplogs.
Start ==
  /\ clock = [t \in Threads |-> 0]
  /\ pc = [t \in Threads |-> "run"]
  /\ want = [t \in Threads |-> << >>]
  /\ fetches = [t \in Threads |-> 0]
  /\ threadIndex = [t \in Threads |-> {}]
  /\ threadRows = [t \in Threads |-> << >>]
  /\ threadOplog = [t \in Threads |-> [r \in Rows |-> 0]]
  /\ threadClocks = [c \in Clients |-> StartClock(ThreadsOf(c))]
  /\ oplog = [c \in Clients |-> NoUpdates]
  /\ oplogIndex = [c \in Clients |-> {}]
  /\ cache = [c \in Clients |-> [r \in Rows |-> NotCached]]
  /\ pinned = [c \in Clients |-> {}]
  /\ aborted = [c \in Clients |-> FALSE]
  /\ version = [c \in Clients |-> 0]
  /\ clientClock = [c \in Clients |-> 0]
  /\ bgClock = [s \in Servers |-> StartClock(Clients)]
  /\ bgVersion = [s \in Servers |-> [c \in Clients |-> -1]]
  /\ table = [s \in Servers |-> [r \in RowsOf(s) |-> Zero]]
  /\ rowRequests = [s \in Servers |-> [k \in 0 .. MaxClock |-> NoRequests]]
  /\ appToBg = [t \in Threads |-> << >>]
  /\ bgToServer = [c \in Clients |-> [s \in Servers |-> << >>]]
  /\ serverToBg = [s \in Servers |-> [c \in Clients |-> << >>]]
  /\ made = [t \in Threads |-> [r \in Rows |-> 0]]
  /\ closed = [t \in Threads |-> << >>]
  /\ read = NoRead

Init == Start /\ mgr = [c \in Clients |-> EmptyMgr(Rows)]

-----------------------------------------------------------------------------
(* Application threads.                                                    *)

Ready(t) == Alive(ClientOf[t]) /\ pc[t] = "run"

SendToBg(t, msg) == appToBg' = [appToBg EXCEPT ![t] = Append(@, msg)]

\* n updates by thread t enter the row's oplog and the row, if it is cached,
\* under the lock of the row's oplog (FindInsertOpLog).
ShareUpdates(t, r, n) ==
  LET c == ClientOf[t]
  IN  /\ threadIndex' = [threadIndex EXCEPT ![t] = @ \cup {r}]
      /\ oplog' = [oplog EXCEPT ![c][r][t] = @ + n]
      /\ cache' = IF r \in CachedRows(c)
                  THEN [cache EXCEPT ![c][r].data[t] = @ + n] ELSE cache

\* SSPConsistencyController::Inc (BatchInc, DenseBatchInc).
Inc(t, r) ==
  /\ Ready(t)
  /\ made[t][r] < MaxIncs[t][r]
  /\ made' = [made EXCEPT ![t][r] = @ + 1]
  /\ ShareUpdates(t, r, 1)
  /\ read' = NoRead
  /\ UNCHANGED <<clock, pc, want, fetches, threadRows, threadOplog, threadClocks,
                 oplogIndex, pinned, aborted, bgVars, serverVars, channelVars, closed>>

Returned(t, r) == {[thread |-> t, row |-> r, data |-> cache[ClientOf[t]][r].data]}

\* Get, when the cached row is fresh enough.
GetCached(t, r) ==
  /\ Ready(t) /\ t \in Readers
  /\ cache[ClientOf[t]][r].clock >= StalestClock(t)
  /\ read' = Returned(t, r)
  /\ UNCHANGED <<threadVars, clientVars, bgVars, serverVars, channelVars, ghostVars>>

RowRequest(r, k) == [type |-> "RowRequest", row |-> r, clock |-> k]

\* Get or ThreadGet, otherwise: request the row and wait.  A stale row that was
\* found keeps the reference its accessor took: the second Find overwrites the
\* accessor without releasing it (RowAccessor::SetClientRow).
RequestAndWait(t, r, byThread) ==
  LET c == ClientOf[t]
  IN  /\ Ready(t) /\ t \in Readers
      /\ cache[c][r].clock < StalestClock(t)
      /\ want' = [want EXCEPT ![t] =
                    [row |-> r, clock |-> StalestClock(t), byThread |-> byThread]]
      /\ fetches' = [fetches EXCEPT ![t] = 1]
      /\ pc' = [pc EXCEPT ![t] = "wait"]
      /\ pinned' = IF r \in CachedRows(c) THEN [pinned EXCEPT ![c] = @ \cup {r}] ELSE pinned
      /\ SendToBg(t, RowRequest(r, StalestClock(t)))
      /\ read' = NoRead
      /\ UNCHANGED <<clock, tableVars, threadClocks, oplog, oplogIndex, cache, aborted,
                     bgVars, serverVars, bgToServer, serverToBg, ghostVars>>

GetRequest(t, r) == RequestAndWait(t, r, FALSE)

Woken(t) == Alive(ClientOf[t]) /\ pc[t] = "woken"

\* Get, after the reply: the row is in the process cache.
GetReturn(t) ==
  LET r == want[t].row
  IN  /\ Woken(t) /\ ~want[t].byThread
      /\ fetches[t] <= 3
      /\ r \in CachedRows(ClientOf[t])
      /\ pc' = [pc EXCEPT ![t] = "run"]
      /\ want' = [want EXCEPT ![t] = << >>]
      /\ fetches' = [fetches EXCEPT ![t] = 0]
      /\ read' = Returned(t, r)
      /\ UNCHANGED <<clock, tableVars, clientVars, bgVars, serverVars, channelVars, ghostVars>>

\* Get or ThreadGet, after the reply: the row has already been evicted again.
GetAgain(t) ==
  LET r == want[t].row
  IN  /\ Woken(t)
      /\ fetches[t] <= 3
      /\ r \notin CachedRows(ClientOf[t])
      /\ fetches' = [fetches EXCEPT ![t] = @ + 1]
      /\ pc' = [pc EXCEPT ![t] = "wait"]
      /\ SendToBg(t, RowRequest(r, want[t].clock))
      /\ read' = NoRead
      /\ UNCHANGED <<clock, want, tableVars, clientVars, bgVars, serverVars,
                     bgToServer, serverToBg, ghostVars>>

\* Get or ThreadGet, CHECK_LE(num_fetches, 3) fails after the fourth reply.
GetAbort(t) ==
  /\ Woken(t)
  /\ fetches[t] > 3
  /\ aborted' = [aborted EXCEPT ![ClientOf[t]] = TRUE]
  /\ read' = NoRead
  /\ UNCHANGED <<threadVars, threadClocks, oplog, oplogIndex, cache, pinned,
                 bgVars, serverVars, channelVars, ghostVars>>

\* ThreadTable::InsertRow: the process' row with the thread's own updates.
InsertThreadRow(t, r) ==
  LET row == [cache[ClientOf[t]][r].data EXCEPT ![t] = @ + threadOplog[t][r]]
  IN  threadRows' = [threadRows EXCEPT ![t] =
                       [x \in DOMAIN @ \cup {r} |-> IF x = r THEN row ELSE @[x]]]

\* ThreadGet, when the thread has no copy of the row yet and the cached row is
\* fresh enough.  A copy it has is returned whatever its clock, and nothing
\* changes.
ThreadGetCached(t, r) ==
  /\ Ready(t) /\ t \in Readers \cap CachingThreads
  /\ r \notin DOMAIN threadRows[t]
  /\ cache[ClientOf[t]][r].clock >= StalestClock(t)
  /\ InsertThreadRow(t, r)
  /\ read' = NoRead
  /\ UNCHANGED <<clock, pc, want, fetches, threadIndex, threadOplog, clientVars, bgVars,
                 serverVars, channelVars, ghostVars>>

ThreadGetRequest(t, r) ==
  /\ t \in CachingThreads /\ r \notin DOMAIN threadRows[t]
  /\ RequestAndWait(t, r, TRUE)

\* ThreadGet, after the reply.
ThreadGetReturn(t) ==
  LET r == want[t].row
  IN  /\ Woken(t) /\ want[t].byThread
      /\ fetches[t] <= 3
      /\ r \in CachedRows(ClientOf[t])
      /\ InsertThreadRow(t, r)
      /\ pc' = [pc EXCEPT ![t] = "run"]
      /\ want' = [want EXCEPT ![t] = << >>]
      /\ fetches' = [fetches EXCEPT ![t] = 0]
      /\ read' = NoRead
      /\ UNCHANGED <<clock, threadIndex, threadOplog, clientVars, bgVars, serverVars,
                     channelVars, ghostVars>>

\* ThreadInc (ThreadBatchInc, ThreadDenseBatchInc): only the thread sees it.
ThreadInc(t, r) ==
  /\ Ready(t) /\ t \in CachingThreads
  /\ made[t][r] < MaxIncs[t][r]
  /\ made' = [made EXCEPT ![t][r] = @ + 1]
  /\ threadOplog' = [threadOplog EXCEPT ![t][r] = @ + 1]
  /\ threadRows' = IF r \in DOMAIN threadRows[t]
                   THEN [threadRows EXCEPT ![t][r][t] = @ + 1] ELSE threadRows
  /\ read' = NoRead
  /\ UNCHANGED <<clock, pc, want, fetches, threadIndex, clientVars, bgVars, serverVars,
                 channelVars, closed>>

Flushing(t) == Alive(ClientOf[t]) /\ pc[t] \in {"run", "flush"}
OpLogFlushed(t) == \A r \in Rows : threadOplog[t][r] = 0

\* ThreadTable::FlushCacheOpLog, one row: called by FlushThreadCache and Clock.
FlushRow(t, r) ==
  /\ Flushing(t)
  /\ threadOplog[t][r] > 0
  /\ ShareUpdates(t, r, threadOplog[t][r])
  /\ threadOplog' = [threadOplog EXCEPT ![t][r] = 0]
  /\ pc' = [pc EXCEPT ![t] = "flush"]
  /\ read' = NoRead
  /\ UNCHANGED <<clock, want, fetches, threadRows, threadClocks, oplogIndex, pinned,
                 aborted, bgVars, serverVars, channelVars, ghostVars>>

\* Mutant of DropThreadRows: keeps the copies.
KeepThreadRows(t) == threadRows' = threadRows

\* ThreadTable::FlushCache, its end.
DropThreadRows(t) == threadRows' = [threadRows EXCEPT ![t] = << >>]

\* Table::FlushThreadCache, its end.
FlushThreadCache(t) ==
  /\ Flushing(t) /\ OpLogFlushed(t)
  /\ pc[t] = "flush" \/ threadRows[t] # << >>
  /\ DropThreadRows(t)
  /\ pc' = [pc EXCEPT ![t] = "run"]
  /\ read' = NoRead
  /\ UNCHANGED <<clock, want, fetches, threadIndex, threadOplog, clientVars, bgVars,
                 serverVars, channelVars, ghostVars>>

\* PartitionOpLogIndex::AddIndex.
AddIndex(c, rows) == oplogIndex' = [oplogIndex EXCEPT ![c] = @ \cup rows]

\* TableGroup::Clock, first part: ThreadContext::Clock, then the table's Clock,
\* which has flushed the thread's cache and publishes the thread's index.
Clock(t) ==
  LET c == ClientOf[t]
  IN  /\ Flushing(t) /\ OpLogFlushed(t)
      /\ clock[t] < MaxClock
      /\ DropThreadRows(t)
      /\ clock' = [clock EXCEPT ![t] = @ + 1]
      /\ closed' = [closed EXCEPT ![t] = Append(@, made[t])]
      /\ AddIndex(c, threadIndex[t])
      /\ threadIndex' = [threadIndex EXCEPT ![t] = {}]
      /\ pc' = [pc EXCEPT ![t] = "tick"]
      /\ read' = NoRead
      /\ UNCHANGED <<want, fetches, threadOplog, threadClocks, oplog, cache, pinned,
                     aborted, bgVars, serverVars, channelVars, made>>

\* TableGroup::Clock, second part: vector_clock_.Tick, under its own lock.
TickThread(t) ==
  LET c == ClientOf[t]
  IN  /\ Alive(c) /\ pc[t] = "tick"
      /\ threadClocks' = [threadClocks EXCEPT ![c] = Tick(@, t)]
      /\ pc' = [pc EXCEPT ![t] =
                  IF TickResult(threadClocks[c], t) # 0 THEN "clock"
                  ELSE IF Aggressive THEN "send" ELSE "run"]
      /\ read' = NoRead
      /\ UNCHANGED <<clock, want, fetches, tableVars, oplog, oplogIndex, cache, pinned,
                     aborted, bgVars, serverVars, channelVars, ghostVars>>

\* TableGroup::Clock, last part: BgWorkers::ClockAllTables when the process'
\* clock advanced, else SendOpLogsAllTables if clocking aggressively.
TellBg(t) ==
  /\ Alive(ClientOf[t]) /\ pc[t] \in {"clock", "send"}
  /\ SendToBg(t, [type |-> IF pc[t] = "clock" THEN "BgClock" ELSE "BgSendOpLog"])
  /\ pc' = [pc EXCEPT ![t] = "run"]
  /\ read' = NoRead
  /\ UNCHANGED <<clock, want, fetches, tableVars, clientVars, bgVars, serverVars,
                 bgToServer, serverToBg, ghostVars>>

-----------------------------------------------------------------------------
(* Background workers.                                                     *)

NextFromApp(c, t, type) ==
  /\ Alive(c) /\ ClientOf[t] = c
  /\ appToBg[t] # << >> /\ Head(appToBg[t]).type = type
  /\ appToBg' = [appToBg EXCEPT ![t] = Tail(@)]

\* CheckForwardRowRequestToServer, when the row has become fresh meanwhile.
RowRequestAnswered(c, t) ==
  LET msg == Head(appToBg[t])
  IN  /\ NextFromApp(c, t, "RowRequest")
      /\ cache[c][msg.row].clock >= msg.clock
      /\ pc' = [pc EXCEPT ![t] = "woken"]
      /\ read' = NoRead
      /\ UNCHANGED <<clock, want, fetches, tableVars, clientVars, bgVars, serverVars,
                     bgToServer, serverToBg, ghostVars>>

\* CheckForwardRowRequestToServer, otherwise.
RowRequestForwarded(c, t) ==
  LET msg == Head(appToBg[t])
      s   == ServerOf[msg.row]
  IN  /\ NextFromApp(c, t, "RowRequest")
      /\ cache[c][msg.row].clock < msg.clock
      /\ \E b \in StoredSent :
           mgr' = [mgr EXCEPT ![c] =
                     AddRowRequest(@, msg.row, t, msg.clock, version[c] - 1, b)]
      /\ bgToServer' = IF ShouldBeSent(mgr[c], msg.row, msg.clock)
                       THEN [bgToServer EXCEPT ![c][s] = Append(@, msg)] ELSE bgToServer
      /\ read' = NoRead
      /\ UNCHANGED <<threadVars, clientVars, version, clientClock, serverVars,
                     serverToBg, ghostVars>>

\* Mutant of TakenOpLog: takes rows that stay in the oplog as well.
WholeOpLog(c) == oplog[c]

\* PrepareOpLogsNormal: the oplogs of the indexed rows.
TakenOpLog(c) == [r \in Rows |-> IF r \in oplogIndex[c] THEN oplog[c][r] ELSE Zero]

\* Mutant of OpLogMsg: the clock that has ended already.
OpLogMsgBehind(c, s, isClock) ==
  [type |-> "OpLog", isClock |-> isClock, version |-> version[c],
   bgClock |-> clientClock[c], updates |-> [r \in RowsOf(s) |-> TakenOpLog(c)[r]]]

OpLogMsg(c, s, isClock) ==
  [type |-> "OpLog", isClock |-> isClock, version |-> version[c],
   bgClock |-> clientClock[c] + 1, updates |-> [r \in RowsOf(s) |-> TakenOpLog(c)[r]]]

\* GetEraseOpLog: what is left when they are taken.
LeftOpLog(c) == [r \in Rows |-> IF r \in oplogIndex[c] THEN Zero ELSE oplog[c][r]]

\* PartitionOpLogIndex::Reset.
ResetIndex(c) == oplogIndex' = [oplogIndex EXCEPT ![c] = {}]

\* HandleClockMsg: take the indexed oplogs and send every server its part.
SendOpLogMsgs(c, isClock) ==
  /\ oplog' = [oplog EXCEPT ![c] = LeftOpLog(c)]
  /\ ResetIndex(c)
  /\ bgToServer' = [bgToServer EXCEPT ![c] =
                      [s \in Servers |-> Append(@[s], OpLogMsg(c, s, isClock))]]
  /\ version' = [version EXCEPT ![c] = @ + 1]

\* HandleClockMsg, whole: TrackBgOpLog keeps what was taken for the rows that
\* are being waited for.
SendOpLogs(c, isClock) ==
  /\ SendOpLogMsgs(c, isClock)
  /\ mgr' = [mgr EXCEPT ![c] = AddOpLog(@, version[c], TakenOpLog(c))]

\* kBgClock.
HandleBgClock(c, t) ==
  /\ NextFromApp(c, t, "BgClock")
  /\ SendOpLogs(c, TRUE)
  /\ clientClock' = [clientClock EXCEPT ![c] = @ + 1]
  /\ read' = NoRead
  /\ UNCHANGED <<threadVars, threadClocks, cache, pinned, aborted, serverVars,
                 serverToBg, ghostVars>>

\* kBgSendOpLog.
HandleBgSendOpLog(c, t) ==
  /\ NextFromApp(c, t, "BgSendOpLog")
  /\ SendOpLogs(c, FALSE)
  /\ read' = NoRead
  /\ UNCHANGED <<threadVars, threadClocks, cache, pinned, aborted, clientClock, serverVars,
                 serverToBg, ghostVars>>

\* CheckAndApplyOldOpLogsToRowData: the versions sent after the one the server
\* had applied, which must all have been kept (GetOpLog).
OldVersions(c, reply) == reply.version + 1 .. version[c] - 1

OldOpLogsKept(c, reply) == OldVersions(c, reply) \subseteq DOMAIN mgr[c].oplogs

\* Mutant of RowFromReply: does not replay the versions on their way.
RowFromReplyOnly(c, reply) ==
  LET r == reply.row
  IN  [clock |-> reply.clock, data |-> [u \in Threads |-> reply.data[u] + oplog[c][r][u]]]

\* UpdateExistingRow and InsertNonexistentRow: the server's row, the sent
\* updates it has not seen, and the updates not sent yet.
RowFromReply(c, reply) ==
  LET r == reply.row
      kept(u) == SumFunction([v \in OldVersions(c, reply) |-> mgr[c].oplogs[v][r][u]])
  IN  [clock |-> reply.clock,
       data  |-> [u \in Threads |-> reply.data[u] + kept(u) + oplog[c][r][u]]]

\* BoundedSparseProcessStorage::Insert evicts a row nobody refers to from a
\* full cache; as long as there is none the worker spins in EvictOneRow.
CachesAfter(c, r, row) ==
  LET stored == [cache[c] EXCEPT ![r] = row]
  IN  IF r \in CachedRows(c) \/ Cardinality(CachedRows(c)) < Capacity THEN {stored}
      ELSE {[stored EXCEPT ![v] = NotCached] : v \in CachedRows(c) \ pinned[c]}

\* The requests InformReply answers, as a set of threads.
AnsweredThreads(c, reply) ==
  LET done == Satisfied(mgr[c], reply.row, reply.clock)
  IN  {done[i].thread : i \in DOMAIN done}

\* HandleServerRowRequestReply.
HandleReply(c, s) ==
  LET reply == Head(serverToBg[s][c])
      again == ClockToRequest(mgr[c], reply.row, reply.clock, version[c])
  IN  /\ Alive(c)
      /\ serverToBg[s][c] # << >>
      /\ OldOpLogsKept(c, reply)
      /\ \E after \in CachesAfter(c, reply.row, RowFromReply(c, reply)) :
           cache' = [cache EXCEPT ![c] = after]
      /\ mgr' = [mgr EXCEPT ![c] = InformReply(@, reply.row, reply.clock, version[c])]
      /\ pc' = [t \in Threads |->
                  IF t \in AnsweredThreads(c, reply) THEN "woken" ELSE pc[t]]
      /\ bgToServer' = IF again >= 0
                       THEN [bgToServer EXCEPT ![c][ServerOf[reply.row]] =
                               Append(@, RowRequest(reply.row, again))]
                       ELSE bgToServer
      /\ serverToBg' = [serverToBg EXCEPT ![s][c] = Tail(@)]
      /\ read' = NoRead
      /\ UNCHANGED <<clock, want, fetches, tableVars, threadClocks, oplog, oplogIndex, pinned,
                     aborted, version, clientClock, serverVars, appToBg, ghostVars>>

\* GetOpLog's CHECK fails: the oplog of an old version is gone.
HandleReplyAbort(c, s) ==
  /\ Alive(c)
  /\ serverToBg[s][c] # << >>
  /\ ~OldOpLogsKept(c, Head(serverToBg[s][c]))
  /\ aborted' = [aborted EXCEPT ![c] = TRUE]
  /\ read' = NoRead
  /\ UNCHANGED <<threadVars, threadClocks, oplog, oplogIndex, cache, pinned,
                 bgVars, serverVars, channelVars, ghostVars>>

-----------------------------------------------------------------------------
(* Servers.  SendOpLogAckMsg and ServerPushRow do nothing under SSP.       *)

NextFromBg(s, c, type) ==
  /\ Alive(s)
  /\ bgToServer[c][s] # << >> /\ Head(bgToServer[c][s]).type = type
  /\ bgToServer' = [bgToServer EXCEPT ![c][s] = Tail(@)]

Reply(r, k, v, data) ==
  [type |-> "RowReply", row |-> r, clock |-> k, version |-> v, data |-> data]

\* Mutant of RowRequestBuffered: buffers a request for the clock it is at, too.
RowRequestBufferedLate(s, c) ==
  LET msg == Head(bgToServer[c][s])
  IN  /\ NextFromBg(s, c, "RowRequest")
      /\ bgClock[s].min <= msg.clock
      /\ rowRequests' = [rowRequests EXCEPT ![s][msg.clock][c] = Append(@, msg.row)]
      /\ read' = NoRead
      /\ UNCHANGED <<threadVars, clientVars, bgVars, bgClock, bgVersion, table,
                     appToBg, serverToBg, ghostVars>>

\* ServerThread::HandleRowRequest, when the server's clock is not there yet.
RowRequestBuffered(s, c) ==
  LET msg == Head(bgToServer[c][s])
  IN  /\ NextFromBg(s, c, "RowRequest")
      /\ bgClock[s].min < msg.clock
      /\ rowRequests' = [rowRequests EXCEPT ![s][msg.clock][c] = Append(@, msg.row)]
      /\ read' = NoRead
      /\ UNCHANGED <<threadVars, clientVars, bgVars, bgClock, bgVersion, table,
                     appToBg, serverToBg, ghostVars>>

\* Mutant of RowRequestReplied: replies with the clock that was asked for.
RowRequestRepliedAsAsked(s, c) ==
  LET msg == Head(bgToServer[c][s])
  IN  /\ NextFromBg(s, c, "RowRequest")
      /\ bgClock[s].min >= msg.clock
      /\ serverToBg' = [serverToBg EXCEPT ![s][c] =
            Append(@, Reply(msg.row, msg.clock, bgVersion[s][c], table[s][msg.row]))]
      /\ read' = NoRead
      /\ UNCHANGED <<threadVars, clientVars, bgVars, serverVars, appToBg, ghostVars>>

\* ServerThread::HandleRowRequest, otherwise.
RowRequestReplied(s, c) ==
  LET msg == Head(bgToServer[c][s])
  IN  /\ NextFromBg(s, c, "RowRequest")
      /\ bgClock[s].min >= msg.clock
      /\ serverToBg' = [serverToBg EXCEPT ![s][c] =
            Append(@, Reply(msg.row, bgClock[s].min, bgVersion[s][c], table[s][msg.row]))]
      /\ read' = NoRead
      /\ UNCHANGED <<threadVars, clientVars, bgVars, serverVars, appToBg, ghostVars>>

\* ServerTable::ApplyRowOpLog; a row that is not there is created as zero.
ApplyRowOpLog(row, updates) == [u \in Threads |-> row[u] + updates[u]]

ApplyOpLogUpdateVersion(s, c, msg) ==
  /\ bgVersion' = [bgVersion EXCEPT ![s][c] = msg.version]
  /\ table' = [table EXCEPT ![s] = [r \in RowsOf(s) |-> ApplyRowOpLog(@[r], msg.updates[r])]]

\* Server::ClockUntil, for a message with a clock: the new clocks, and whether
\* the minimum has moved.
ClockUntil(s, c, msg) == IF msg.isClock THEN TickUntil(bgClock[s], c, msg.bgClock) ELSE bgClock[s]

ClockChanges(s, c, msg) == msg.isClock /\ TickUntilResult(bgClock[s], c, msg.bgClock) # 0

\* GetFulfilledRowRequests: those of worker d for exactly the new minimum k.
FulfilledRowRequests(s, k, d) == rowRequests[s][k][d]

\* The replies to them, once the message that moved the minimum is applied.
FulfilledReplies(s, k, d) ==
  LET rows == FulfilledRowRequests(s, k, d)
  IN  [i \in DOMAIN rows |-> Reply(rows[i], k, bgVersion'[s][d], table'[s][rows[i]])]

\* ServerThread::HandleOpLogMsg.
HandleOpLog(s, c) ==
  LET msg    == Head(bgToServer[c][s])
      clocks == ClockUntil(s, c, msg)
      k      == clocks.min
  IN  /\ NextFromBg(s, c, "OpLog")
      /\ ApplyOpLogUpdateVersion(s, c, msg)
      /\ bgClock' = [bgClock EXCEPT ![s] = clocks]
      /\ IF ClockChanges(s, c, msg)
         THEN /\ serverToBg' = [serverToBg EXCEPT ![s] = [d \in Clients |-> @[d] \o FulfilledReplies(s, k, d)]]
              /\ rowRequests' = [rowRequests EXCEPT ![s][k] = NoRequests]
         ELSE UNCHANGED <<serverToBg, rowRequests>>
      /\ read' = NoRead
      /\ UNCHANGED <<threadVars, clientVars, bgVars, appToBg, ghostVars>>

-----------------------------------------------------------------------------
ThreadNext(t) ==
  \/ \E r \in Rows : Inc(t, r) \/ GetCached(t, r) \/ GetRequest(t, r)
  \/ \E r \in Rows : ThreadInc(t, r) \/ ThreadGetCached(t, r) \/ ThreadGetRequest(t, r)
  \/ GetReturn(t) \/ ThreadGetReturn(t)
  \/ GetAgain(t)
  \/ GetAbort(t)
  \/ \E r \in Rows : FlushRow(t, r)
  \/ FlushThreadCache(t)
  \/ Clock(t)
  \/ TickThread(t)
  \/ TellBg(t)

BgNext(c) ==
  \/ \E t \in Threads : \/ RowRequestAnswered(c, t)
                        \/ RowRequestForwarded(c, t)
                        \/ HandleBgClock(c, t)
                        \/ HandleBgSendOpLog(c, t)
  \/ \E s \in Servers : HandleReply(c, s) \/ HandleReplyAbort(c, s)

ServerNext(s) ==
  \E c \in Clients : \/ RowRequestBuffered(s, c)
                     \/ RowRequestReplied(s, c)
                     \/ HandleOpLog(s, c)

Next ==
  \/ \E t \in Threads : ThreadNext(t)
  \/ \E c \in Clients : BgNext(c)
  \/ \E s \in Servers : ServerNext(s)

Spec == Init /\ [][Next]_vars

\* A thread finishes the Get or the Clock it is in and keeps clocking; each
\* worker and server polls all its sockets (CommBus::RecvAny), so it comes to
\* every message.
Fairness ==
  /\ \A t \in Threads :
       /\ WF_vars(GetReturn(t) \/ ThreadGetReturn(t) \/ GetAgain(t) \/ GetAbort(t))
       /\ WF_vars((\E r \in Rows : FlushRow(t, r)) \/ Clock(t) \/ TickThread(t) \/ TellBg(t))
  /\ \A t \in Threads :
       WF_vars(\/ RowRequestAnswered(ClientOf[t], t) \/ RowRequestForwarded(ClientOf[t], t)
               \/ HandleBgClock(ClientOf[t], t) \/ HandleBgSendOpLog(ClientOf[t], t))
  /\ \A s \in Servers, c \in Clients :
       /\ WF_vars(HandleReply(c, s) \/ HandleReplyAbort(c, s))
       /\ WF_vars(RowRequestBuffered(s, c) \/ RowRequestReplied(s, c) \/ HandleOpLog(s, c))

FairSpec == Spec /\ Fairness

-----------------------------------------------------------------------------
(* Type invariant.                                                         *)

Vec == [Threads -> Nat]

Updates == [Rows -> Vec]

Request == [thread : Threads, clock : Nat, version : Int, sent : BOOLEAN]

FromApp == [type : {"RowRequest"}, row : Rows, clock : Nat]
           \cup [type : {"BgClock", "BgSendOpLog"}]

ToServer(s) ==
  [type : {"RowRequest"}, row : RowsOf(s), clock : Nat]
  \cup [type : {"OpLog"}, isClock : BOOLEAN, version : Nat, bgClock : Nat,
        updates : [RowsOf(s) -> Vec]]

RowReplies(s) ==
  [type : {"RowReply"}, row : RowsOf(s), clock : Nat, version : Int, data : Vec]

IsMgr(m) ==
  /\ m = [pending |-> m.pending, oplogs |-> m.oplogs, count |-> m.count]
  /\ m.pending \in [Rows -> Seq(Request)]
  /\ DOMAIN m.oplogs \subseteq Nat /\ \A v \in DOMAIN m.oplogs : m.oplogs[v] \in Updates
  /\ DOMAIN m.count \subseteq Int /\ \A v \in DOMAIN m.count : m.count[v] \in Nat \ {0}

\* What the threads, the clients and the servers keep.
ThreadsOK ==
  /\ clock \in [Threads -> Nat]
  /\ want \in [Threads -> {<< >>} \cup [row : Rows, clock : Nat, byThread : BOOLEAN]]
  /\ fetches \in [Threads -> 0 .. 4]
  /\ threadIndex \in [Threads -> SUBSET Rows]
  /\ DOMAIN threadRows = Threads
  /\ \A t \in Threads :
       /\ DOMAIN threadRows[t] \subseteq Rows
       /\ \A r \in DOMAIN threadRows[t] : threadRows[t][r] \in Vec
  /\ threadOplog \in [Threads -> [Rows -> Nat]]
  /\ made \in [Threads -> [Rows -> Nat]]
  /\ closed \in [Threads -> Seq([Rows -> Nat])]
  /\ read \subseteq [thread : Threads, row : Rows, data : Vec]

ClientsOK ==
  /\ DOMAIN threadClocks = Clients
  /\ \A c \in Clients : threadClocks[c] \in VectorClocks(ThreadsOf(c))
  /\ oplog \in [Clients -> Updates]
  /\ oplogIndex \in [Clients -> SUBSET Rows]
  /\ cache \in [Clients -> [Rows -> [clock : Nat \cup {-1}, data : Vec]]]
  /\ pinned \in [Clients -> SUBSET Rows]
  /\ aborted \in [Clients -> BOOLEAN]
  /\ version \in [Clients -> Nat]
  /\ clientClock \in [Clients -> Nat]

ServersOK ==
  /\ bgClock \in [Servers -> VectorClocks(Clients)]
  /\ bgVersion \in [Servers -> [Clients -> Nat \cup {-1}]]
  /\ DOMAIN table = Servers /\ DOMAIN rowRequests = Servers
  /\ \A s \in Servers :
       /\ table[s] \in [RowsOf(s) -> Vec]
       /\ rowRequests[s] \in [0 .. MaxClock -> [Clients -> Seq(RowsOf(s))]]
  /\ DOMAIN bgToServer = Clients
  /\ \A c \in Clients : /\ DOMAIN bgToServer[c] = Servers
                         /\ \A s \in Servers : bgToServer[c][s] \in Seq(ToServer(s))

\* Every variable has the type its C++ counterpart has in the model.
TypeOK ==
  /\ ThreadsOK /\ ClientsOK /\ ServersOK
  /\ pc \in [Threads -> {"run", "wait", "woken", "flush", "tick", "clock", "send"}]
  /\ appToBg \in [Threads -> Seq(FromApp)]
  /\ DOMAIN mgr = Clients /\ \A c \in Clients : IsMgr(mgr[c])
  /\ DOMAIN serverToBg = Servers
  /\ \A s \in Servers : /\ DOMAIN serverToBg[s] = Clients
                         /\ \A c \in Clients : serverToBg[s][c] \in Seq(RowReplies(s))

-----------------------------------------------------------------------------
(* Safety.                                                                 *)

\* The increments thread t has made and shared with its process.
Shared(t, r) == made[t][r] - threadOplog[t][r]

\* The increments thread u made to row r while its clock was below k.
MadeBefore(u, r, k) == IF k = 0 THEN 0 ELSE closed[u][k][r]

\* No update is lost and none is applied twice: what a thread has added to a
\* row is on the row's server, in a message to it, in its process' oplog or in
\* its own cache.  At risk when the worker takes oplogs by index while threads
\* keep adding and flushing.
UpdatesConserved ==
  \A t \in Threads, r \in Rows :
    LET c == ClientOf[t]
        s == ServerOf[r]
        ch == bgToServer[c][s]
        inFlight == [i \in DOMAIN ch |-> IF ch[i].type = "OpLog" THEN ch[i].updates[r][t] ELSE 0]
    IN  Shared(t, r) = table[s][r][t] + oplog[c][r][t] + SumFunction(inFlight)

\* Read-my-writes: a cached row holds every increment that its own process'
\* threads have shared exactly once, sent or not, whatever reply rebuilt it (replaying the
\* right versions in UpdateExistingRow and InsertNonexistentRow).
OwnUpdatesOnce ==
  \A c \in Clients : \A r \in CachedRows(c) : \A t \in ThreadsOf(c) :
    cache[c][r].data[t] = Shared(t, r)

\* A cached row of clock k holds what every thread did before its clock k:
\* the meaning of the clock that Get compares with (the worker's bg_clock, the
\* server's minimum and the reply's clock must all mean the same).
CachedRowsAsFreshAsTheirClock ==
  \A c \in Clients : \A r \in CachedRows(c) : \A t \in Threads :
    /\ cache[c][r].clock <= clock[t]
    /\ MadeBefore(t, r, cache[c][r].clock) <= cache[c][r].data[t]

\* CHECK_GE(client_row->GetClock(), stalest_clock) in Get: a row that is in
\* the cache when the worker has answered is fresh enough, even if it was
\* evicted and fetched again for another thread in between.
FetchedRowIsFreshEnough ==
  \A t \in Threads :
    pc[t] = "woken" /\ want[t].row \in CachedRows(ClientOf[t])
      => cache[ClientOf[t]][want[t].row].clock >= want[t].clock

\* A row that ThreadGet returns from the thread's own cache, without looking at
\* clocks, is no staler than one that Get would return in the same clock, and
\* holds all the thread's own increments of earlier clocks and those that only
\* the thread knows of.
ThreadRowsStayFresh ==
  \A t \in Threads : \A r \in DOMAIN threadRows[t] : \A u \in Threads :
    LET row == threadRows[t][r]
    IN  /\ StalestClock(t) <= clock[u]
        /\ MadeBefore(u, r, StalestClock(t)) <= row[u] /\ row[u] <= made[u][r]
        /\ u = t => row[t] >= MadeBefore(t, r, clock[t]) + threadOplog[t][r]

\* CHECK_EQ(bg_version_map_ + 1, version) in ApplyOpLogUpdateVersion.
VersionsArriveInOrder ==
  \A s \in Servers, c \in Clients :
    bgToServer[c][s] # << >> /\ Head(bgToServer[c][s]).type = "OpLog"
      => Head(bgToServer[c][s]).version = bgVersion[s][c] + 1

\* The versions, and the clocks, that the messages of a channel carry.
Versions(ch) == [i \in {i \in DOMAIN ch : ch[i].type = "OpLog"} |-> ch[i].version]
Clocks(ch) == [i \in {i \in DOMAIN Versions(ch) : ch[i].isClock} |-> ch[i].bgClock]

\* They are the numbers above low, up to high, each once and in order.
Consecutive(num, low, high) ==
  /\ low <= high
  /\ \A i, j \in DOMAIN num : i < j => num[i] < num[j]
  /\ {num[i] : i \in DOMAIN num} = low + 1 .. high

\* Between a worker and a server no version and no clock is lost, repeated or
\* overtaken, although clocks, plain flushes and row requests share the
\* channel and the server learns them from different fields.
MessagesInSequence ==
  \A s \in Servers, c \in Clients :
    /\ Consecutive(Versions(bgToServer[c][s]), bgVersion[s][c], version[c] - 1)
    /\ Consecutive(Clocks(bgToServer[c][s]), bgClock[s].vec[c], clientClock[c])

\* GetFulfilledRowRequests looks only at the requests for exactly the new
\* minimum, so a request buffered for a clock at or below it would never be
\* answered: there is none.
BufferedRequestsWaitForTheFuture ==
  \A s \in Servers, c \in Clients, k \in 0 .. MaxClock :
    rowRequests[s][k][c] # << >> => k > bgClock[s].min

\* The header of RowRequestOpLogMgr: an oplog cannot be deleted until all row
\* requests sent prior to its version have been replied.  So each reply finds
\* the versions it has to replay.
OldOpLogsAreKept ==
  \A c \in Clients, s \in Servers :
    Alive(c) /\ serverToBg[s][c] # << >> => OldOpLogsKept(c, Head(serverToBg[s][c]))

Outstanding(c, r) ==
  LET s == ServerOf[r]
  IN  \/ \E i \in DOMAIN bgToServer[c][s] :
           bgToServer[c][s][i].type = "RowRequest" /\ bgToServer[c][s][i].row = r
      \/ \E k \in 0 .. MaxClock : \E i \in DOMAIN rowRequests[s][k][c] :
           rowRequests[s][k][c][i] = r
      \/ \E i \in DOMAIN serverToBg[s][c] :
           serverToBg[s][c][i].type = "RowReply" /\ serverToBg[s][c][i].row = r

\* The header of RowRequestOpLogMgr: a row that threads wait for has been
\* requested, and some request for it is still to be answered.
AwaitedRowsAreRequested ==
  \A c \in Clients, r \in Rows :
    Alive(c) /\ mgr[c].pending[r] # << >> => Outstanding(c, r)

\* The rows of the cache that accessors of running Gets may refer to.
Referenced(c) ==
  {r \in CachedRows(c) : \E t \in ThreadsOf(c) : pc[t] \in {"wait", "woken"} /\ want[t].row = r}

\* The header of BoundedSparseProcessStorage: eviction may happen to rows that
\* no RowAccessor refers to, so an insertion does not get stuck as long as the
\* referenced rows leave it one place.
InsertionFindsRoom ==
  \A c \in Clients, s \in Servers :
    serverToBg[s][c] # << >> /\ Cardinality(Referenced(c)) < Capacity
      => LET reply == Head(serverToBg[s][c])
         IN  CachesAfter(c, reply.row, NotCached) # {}

\* A cached row never goes back: neither its clock nor what it holds of any
\* thread, across replies that replace its contents.
RowsNeverGoBack ==
  [][\A c \in Clients : \A r \in CachedRows(c) :
       cache'[c][r].clock >= 0 =>
         /\ cache'[c][r].clock >= cache[c][r].clock
         /\ \A t \in Threads : cache'[c][r].data[t] >= cache[c][r].data[t]]_vars

\* The abstract specification knows neither processes nor messages nor caches:
\* its increments are those that threads have shared.
Promise == INSTANCE BoundedStaleness
             WITH clock <- clock, closed <- closed, read <- read,
                  made <- [t \in Threads |-> [r \in Rows |-> Shared(t, r)]]

\* The protocol implements the abstract bounded-staleness specification.
ImplementsBoundedStaleness == Promise!Spec

-----------------------------------------------------------------------------
(* Liveness.                                                               *)

\* A Get returns, unless a CHECK stops its process or the process that holds
\* the row's server.
GetsReturn ==
  \A t \in Threads :
    pc[t] = "wait" ~> (pc[t] = "run" \/ \E c \in Clients : aborted[c])
=============================================================================
