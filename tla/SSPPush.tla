------------------------------- MODULE SSPPush -------------------------------
(***************************************************************************)
(* The consistency model SSPPush: whenever the clock of a server moves, it *)
(* pushes the rows that have changed to the processes that have asked for  *)
(* them.  A thread compares its clock with the system clock, up to which   *)
(* every server has pushed, and no longer with the clock of a row; and it  *)
(* may ask for rows ahead of time, without waiting (GetAsync).             *)
(*                                                                         *)
(*   application thread   SSPPushConsistencyController                     *)
(*   background worker    SSPPushBgWorker                                  *)
(*   server thread        SSPPushServerThread, CallBackSubs                *)
(*                                                                         *)
(* As its classes inherit from those of SSP, this module extends SSP.      *)
(* What it does not change it takes from there; mgr holds the manager of   *)
(* SSPPush.  A cached row has the clock 0, as nothing reads its clock.     *)
(***************************************************************************)
EXTENDS SSP

CONSTANTS
  VersionModulus,  \* 2^32: the number of oplog versions
  PushCapacity,    \* how many rows a push message takes (kPushRowMsgSizeInit)
  MaxAsync,        \* kMaxPendingAsyncGetCnt
  AsyncReaders     \* bound: the threads that call GetAsync and GetAsyncForced

ASSUME PushAssumption ==
  /\ VersionModulus \in Nat \ {0, 1} /\ PushCapacity \in Nat \ {0} /\ MaxAsync \in Nat \ {0}
  /\ AsyncReaders \subseteq Threads
  /\ Servers # {} /\ IsFiniteSet(Rows)

VARIABLES
  \* application threads
  cachedClock,  \* ThreadContext's cached system clock
  replies,      \* RowRequestReply messages the thread has not received yet
  pending,      \* pending_async_get_cnt_
  \* background workers
  serverClock,  \* server_vector_clock_
  systemClock,  \* system_clock_, for which the process' threads wait
  notifying,    \* it has ticked, and they have not been notified yet
  \* servers
  subscribed,   \* per row, the processes that are subscribed (CallBackSubs)
  dirty         \* rows changed since they were pushed

asyncVars == <<replies, pending>>
clockVars == <<serverClock, systemClock, notifying>>
pushVars  == <<cachedClock, asyncVars, clockVars, subscribed, dirty>>
allVars   == <<vars, pushVars>>

Mgr == INSTANCE SSPPushRowRequestOpLogMgr WITH Modulus <- VersionModulus

PushInit ==
  /\ Start
  /\ mgr = [c \in Clients |-> Mgr!EmptyMgr(Rows, Servers)]
  /\ cachedClock = [t \in Threads |-> 0]
  /\ replies = [t \in Threads |-> 0]
  /\ pending = [t \in Threads |-> 0]
  /\ serverClock = [c \in Clients |-> StartClock(Servers)]
  /\ systemClock = [c \in Clients |-> 0]
  /\ notifying = [c \in Clients |-> FALSE]
  /\ subscribed = [s \in Servers |-> [r \in RowsOf(s) |-> {}]]
  /\ dirty = [s \in Servers |-> {}]

-----------------------------------------------------------------------------
(* Application threads.  Inc, ThreadInc, FlushThreadCache and Clock are      *)
(* those of SSP.                                                           *)

Inherited(t) ==
  /\ \/ \E r \in Rows : Inc(t, r) \/ ThreadInc(t, r) \/ FlushRow(t, r)
     \/ FlushThreadCache(t)
     \/ Clock(t) \/ TickThread(t) \/ TellBg(t)
  /\ UNCHANGED pushVars

Wanted(t, r, byThread) == [row |-> r, clock |-> StalestClock(t), byThread |-> byThread]

\* A thread may call ThreadGet if it uses its cache.
MayGet(t, byThread) == t \in Readers /\ (byThread => t \in CachingThreads)

\* The call begins, or has been woken up.
AtClockCheck(t, r, byThread) ==
  \/ Ready(t) /\ MayGet(t, byThread)
  \/ Woken(t) /\ want[t] = Wanted(t, r, byThread)

\* The check of the clock in Get and in ThreadGet: the thread's copy of the
\* system clock is looked at first.
SystemClockReaches(t, k) == cachedClock[t] >= k \/ systemClock[ClientOf[t]] >= k

\* Nobody holds system_clock_mtx_ of process c: threads hold it from the test
\* of the clock to their wait.
MutexFree(c) == \A t \in ThreadsOf(c) : pc[t] # "tested"

\* Get and ThreadGet in WaitSystemClock: they lock the mutex and find the clock
\* too low.
TestSystemClock(t, r, byThread) ==
  /\ AtClockCheck(t, r, byThread)
  /\ MutexFree(ClientOf[t])
  /\ ~SystemClockReaches(t, StalestClock(t))
  /\ want' = [want EXCEPT ![t] = Wanted(t, r, byThread)]
  /\ pc' = [pc EXCEPT ![t] = "tested"]
  /\ read' = NoRead
  /\ UNCHANGED <<clock, fetches, tableVars, clientVars, bgVars, serverVars, channelVars,
                 ghostVars, pushVars>>

\* system_clock_cv_->wait, which releases the mutex.
WaitSystemClock(t) ==
  /\ Alive(ClientOf[t]) /\ pc[t] = "tested"
  /\ pc' = [pc EXCEPT ![t] = "blocked"]
  /\ read' = NoRead
  /\ UNCHANGED <<clock, want, fetches, tableVars, clientVars, bgVars, serverVars, channelVars,
                 ghostVars, pushVars>>

\* Mutant of PastClockCheck: does not wait for the system clock.
PastNoClockCheck(t, r, byThread) ==
  /\ AtClockCheck(t, r, byThread)
  /\ cachedClock' = cachedClock

\* Get and ThreadGet come past the check, at once or from WaitSystemClock.
PastClockCheck(t, r, byThread) ==
  /\ AtClockCheck(t, r, byThread)
  /\ SystemClockReaches(t, StalestClock(t))
  /\ cachedClock' = [cachedClock EXCEPT ![t] =
                       IF @ < StalestClock(t) THEN systemClock[ClientOf[t]] ELSE @]

\* Get and ThreadGet end.
EndGet(t) ==
  /\ pc' = [pc EXCEPT ![t] = "run"]
  /\ want' = [want EXCEPT ![t] = << >>]
  /\ fetches' = [fetches EXCEPT ![t] = 0]

\* Get returns the row, or ThreadGet takes it into the thread's cache.
ReturnRow(t, r, byThread) ==
  /\ r \in CachedRows(ClientOf[t])
  /\ IF byThread THEN InsertThreadRow(t, r) /\ read' = NoRead
     ELSE UNCHANGED threadRows /\ read' = Returned(t, r)
  /\ EndGet(t)

\* Get and ThreadGet, when the row is in the process cache.  A row that is in
\* the thread's cache changes nothing.
PushGetCached(t, r, byThread) ==
  /\ PastClockCheck(t, r, byThread)
  /\ byThread => r \notin DOMAIN threadRows[t]
  /\ ReturnRow(t, r, byThread)
  /\ UNCHANGED <<clock, threadIndex, threadOplog, clientVars, bgVars, serverVars,
                 channelVars, ghostVars, asyncVars, clockVars, subscribed, dirty>>

PushRowRequest(r, k, forced) ==
  [type |-> "RowRequest", row |-> r, clock |-> k, forced |-> forced]

\* Get and ThreadGet, otherwise: request the row.
PushGetRequest(t, r, byThread) ==
  /\ PastClockCheck(t, r, byThread)
  /\ byThread => r \notin DOMAIN threadRows[t]
  /\ r \notin CachedRows(ClientOf[t])
  /\ want' = [want EXCEPT ![t] = Wanted(t, r, byThread)]
  /\ fetches' = [fetches EXCEPT ![t] = 1]
  /\ pc' = [pc EXCEPT ![t] = "wait"]
  /\ SendToBg(t, PushRowRequest(r, StalestClock(t), FALSE))
  /\ read' = NoRead
  /\ UNCHANGED <<clock, tableVars, clientVars, bgVars, serverVars, bgToServer, serverToBg,
                 ghostVars, asyncVars, clockVars, subscribed, dirty>>

\* RequestRow receives a reply, be it to this request or to one of GetAsync.
ReceiveReply(t) ==
  /\ Alive(ClientOf[t]) /\ pc[t] = "wait" /\ replies[t] > 0
  /\ replies' = [replies EXCEPT ![t] = @ - 1]

\* Get and ThreadGet, after a reply.
PushGetReturn(t) ==
  /\ ReceiveReply(t)
  /\ fetches[t] <= 3
  /\ ReturnRow(t, want[t].row, want[t].byThread)
  /\ UNCHANGED <<clock, threadIndex, threadOplog, clientVars, bgVars, serverVars, channelVars,
                 ghostVars, cachedClock, pending, clockVars, subscribed, dirty>>

\* Get and ThreadGet, after a reply: the row is not there, or no longer.
PushGetAgain(t) ==
  LET r == want[t].row
  IN  /\ ReceiveReply(t)
      /\ fetches[t] <= 3
      /\ r \notin CachedRows(ClientOf[t])
      /\ fetches' = [fetches EXCEPT ![t] = @ + 1]
      /\ SendToBg(t, PushRowRequest(r, want[t].clock, FALSE))
      /\ read' = NoRead
      /\ UNCHANGED <<clock, pc, want, tableVars, clientVars, bgVars, serverVars, bgToServer,
                     serverToBg, ghostVars, cachedClock, pending, clockVars,
                     subscribed, dirty>>

\* Get and ThreadGet, CHECK_LE(num_fetches, 3) fails after the fourth reply.
PushGetAbort(t) ==
  /\ ReceiveReply(t)
  /\ fetches[t] > 3
  /\ aborted' = [aborted EXCEPT ![ClientOf[t]] = TRUE]
  /\ read' = NoRead
  /\ UNCHANGED <<threadVars, threadClocks, oplog, oplogIndex, cache, pinned, bgVars, serverVars,
                 channelVars, ghostVars, cachedClock, pending, clockVars, subscribed, dirty>>

\* GetAsyncForced, and GetAsync of a row that is not cached.  With as many
\* replies outstanding as may be, one is received first.
GetAsync(t, r, forced) ==
  LET full == pending[t] = MaxAsync
  IN  /\ Ready(t) /\ t \in AsyncReaders
      /\ ~forced => r \notin CachedRows(ClientOf[t])
      /\ full => replies[t] > 0
      /\ replies' = [replies EXCEPT ![t] = IF full THEN @ - 1 ELSE @]
      /\ pending' = [pending EXCEPT ![t] = IF full THEN @ ELSE @ + 1]
      /\ SendToBg(t, PushRowRequest(r, clock[t], forced))
      /\ read' = NoRead
      /\ UNCHANGED <<threadVars, clientVars, bgVars, serverVars, bgToServer, serverToBg,
                     ghostVars, cachedClock, clockVars, subscribed, dirty>>

\* WaitPendingAsnycGet, when all replies have come.
WaitPendingAsyncGet(t) ==
  /\ Ready(t) /\ pending[t] > 0
  /\ replies[t] >= pending[t]
  /\ replies' = [replies EXCEPT ![t] = @ - pending[t]]
  /\ pending' = [pending EXCEPT ![t] = 0]
  /\ read' = NoRead
  /\ UNCHANGED <<threadVars, clientVars, bgVars, serverVars, channelVars, ghostVars,
                 cachedClock, clockVars, subscribed, dirty>>

-----------------------------------------------------------------------------
(* Background workers.  They do not look at messages before the threads are  *)
(* notified.                                                               *)

NextFromThread(c, t, type) == ~notifying[c] /\ NextFromApp(c, t, type)

\* CheckForwardRowRequestToServer, when the row is cached and not forced.
PushRowRequestAnswered(c, t) ==
  LET msg == Head(appToBg[t])
  IN  /\ NextFromThread(c, t, "RowRequest")
      /\ ~msg.forced /\ msg.row \in CachedRows(c)
      /\ replies' = [replies EXCEPT ![t] = @ + 1]
      /\ read' = NoRead
      /\ UNCHANGED <<threadVars, clientVars, bgVars, serverVars, bgToServer, serverToBg,
                     ghostVars, cachedClock, pending, clockVars, subscribed, dirty>>

\* CheckForwardRowRequestToServer, otherwise.
PushRowRequestForwarded(c, t) ==
  LET msg == Head(appToBg[t])
      s   == ServerOf[msg.row]
  IN  /\ NextFromThread(c, t, "RowRequest")
      /\ msg.forced \/ msg.row \notin CachedRows(c)
      /\ \E b \in StoredSent :
           mgr' = [mgr EXCEPT ![c] = Mgr!AddRowRequest(@, msg.row, t, msg.clock, b)]
      /\ bgToServer' = IF Mgr!ShouldBeSent(mgr[c], msg.row, msg.clock)
                       THEN [bgToServer EXCEPT ![c][s] =
                               Append(@, RowRequest(msg.row, msg.clock))]
                       ELSE bgToServer
      /\ read' = NoRead
      /\ UNCHANGED <<threadVars, clientVars, version, clientClock, serverVars,
                     serverToBg, ghostVars, pushVars>>

\* HandleClockMsg, with TrackBgOpLog of this manager.
PushSendOpLogs(c, isClock) ==
  /\ SendOpLogMsgs(c, isClock)
  /\ mgr' = [mgr EXCEPT ![c] = Mgr!AddOpLog(@, Mgr!Word(version[c]), TakenOpLog(c))]
  /\ read' = NoRead
  /\ UNCHANGED <<threadVars, threadClocks, cache, pinned, aborted, serverVars,
                 serverToBg, ghostVars, pushVars>>

PushHandleBgClock(c, t) ==
  /\ NextFromThread(c, t, "BgClock")
  /\ PushSendOpLogs(c, TRUE)
  /\ clientClock' = [clientClock EXCEPT ![c] = @ + 1]

PushHandleBgSendOpLog(c, t) ==
  /\ NextFromThread(c, t, "BgSendOpLog")
  /\ PushSendOpLogs(c, FALSE)
  /\ UNCHANGED clientClock

\* Mutant of Replayed: the versions the server has not seen are forgotten.
ReplayedNone(c, m, r, u, v) == 0

\* CheckAndApplyOldOpLogsToRowData: what the versions after v add to the row.
Replayed(c, m, r, u, v) ==
  LET log == m.oplogs
      old == {Mgr!Word(w) : w \in v + 1 .. version[c] - 1}
  IN  SumFunctionOnSet([i \in DOMAIN log |-> log[i].updates[r][u]],
                       {i \in DOMAIN log : log[i].version \in old})

\* UpdateExistingRow and InsertNonexistentRow; m is the manager by then.
RowFromServer(c, m, r, v, data) ==
  [clock |-> 0, data |-> [u \in Threads |-> data[u] + Replayed(c, m, r, u, v) + oplog[c][r][u]]]

\* The manager after a message from the server.
Acknowledged(c, s, msg) == Mgr!ServerAcknowledgeVersion(mgr[c], s, Mgr!Word(msg.version))

NextFromServer(c, s, type) ==
  /\ Alive(c) /\ ~notifying[c]
  /\ serverToBg[s][c] # << >> /\ Head(serverToBg[s][c]).type = type
  /\ serverToBg' = [serverToBg EXCEPT ![s][c] = Tail(@)]

\* Mutant of AnswersTo: a thread that asked twice gets one reply.
AnswersToOnce(requests, t) ==
  IF \E i \in DOMAIN requests : requests[i].thread = t THEN 1 ELSE 0

\* How many of the requests are of thread t.
AnswersTo(requests, t) == Cardinality({i \in DOMAIN requests : requests[i].thread = t})

\* HandleServerRowRequestReply.
PushHandleReply(c, s) ==
  LET reply == Head(serverToBg[s][c])
      r     == reply.row
      done  == Mgr!Satisfied(mgr[c], r, reply.clock)
      again == Mgr!ClockToRequest(mgr[c], r, reply.clock)
      acked == Acknowledged(c, s, reply)
  IN  /\ NextFromServer(c, s, "RowReply")
      /\ \E after \in CachesAfter(c, r, RowFromServer(c, acked, r, reply.version, reply.data)) :
           cache' = [cache EXCEPT ![c] = after]
      /\ mgr' = [mgr EXCEPT ![c] = Mgr!InformReply(acked, r, reply.clock)]
      /\ replies' = [t \in Threads |-> replies[t] + AnswersTo(done, t)]
      /\ bgToServer' = IF again >= 0
                       THEN [bgToServer EXCEPT ![c][ServerOf[r]] = Append(@, RowRequest(r, again))]
                       ELSE bgToServer
      /\ read' = NoRead
      /\ UNCHANGED <<threadVars, threadClocks, oplog, oplogIndex, pinned, aborted, version,
                     clientClock, serverVars, appToBg, ghostVars, cachedClock, pending,
                     clockVars, subscribed, dirty>>

\* ApplyServerPushedRow: rows that are not cached any more are skipped.
ApplyServerPushedRow(c, m, msg) ==
  cache' = [cache EXCEPT ![c] =
              [r \in Rows |-> IF r \in DOMAIN msg.rows \cap CachedRows(c)
                              THEN RowFromServer(c, m, r, msg.version, msg.rows[r]) ELSE @[r]]]

\* The clock of a push: the worker's only partner in bg_server_clock_ is itself,
\* so each new minimum of its servers is one tick of the system clock.
TickSystemClock(c, s, msg) ==
  LET ticks == TickUntilResult(serverClock[c], s, msg.clock) # 0
  IN  /\ serverClock' = [serverClock EXCEPT ![c] = TickUntil(@, s, msg.clock)]
      /\ systemClock' = [systemClock EXCEPT ![c] = IF ticks THEN @ + 1 ELSE @]
      /\ notifying' = [notifying EXCEPT ![c] = ticks]

\* Mutant of MayNotify: does not lock the mutex.
MayNotifyUnlocked(c) == notifying[c]

\* The worker has to lock the mutex before notify_all.
MayNotify(c) == notifying[c] /\ MutexFree(c)

\* HandleServerPushRow, its end: notify_all wakes the threads that wait.
NotifyAll(c) ==
  /\ Alive(c) /\ MayNotify(c)
  /\ notifying' = [notifying EXCEPT ![c] = FALSE]
  /\ pc' = [t \in Threads |->
              IF ClientOf[t] = c /\ pc[t] = "blocked" THEN "woken" ELSE pc[t]]
  /\ read' = NoRead
  /\ UNCHANGED <<clock, want, fetches, tableVars, clientVars, bgVars, serverVars, channelVars,
                 ghostVars, cachedClock, asyncVars, serverClock, systemClock, subscribed, dirty>>

\* HandleServerPushRow, up to the tick of the system clock.
HandleServerPushRow(c, s) ==
  LET msg == Head(serverToBg[s][c])
  IN  /\ NextFromServer(c, s, "PushRow")
      /\ mgr' = [mgr EXCEPT ![c] = Acknowledged(c, s, msg)]
      /\ ApplyServerPushedRow(c, mgr'[c], msg)
      /\ IF msg.isClock THEN TickSystemClock(c, s, msg) ELSE UNCHANGED clockVars
      /\ read' = NoRead
      /\ UNCHANGED <<threadVars, threadClocks, oplog, oplogIndex, pinned, aborted, version,
                     clientClock, serverVars, appToBg, bgToServer, ghostVars, cachedClock,
                     asyncVars, subscribed, dirty>>

\* kServerOpLogAck.
HandleServerOpLogAck(c, s) ==
  LET msg == Head(serverToBg[s][c])
  IN  /\ NextFromServer(c, s, "OpLogAck")
      /\ mgr' = [mgr EXCEPT ![c] = Acknowledged(c, s, msg)]
      /\ read' = NoRead
      /\ UNCHANGED <<threadVars, clientVars, version, clientClock, serverVars, appToBg,
                     bgToServer, ghostVars, pushVars>>

-----------------------------------------------------------------------------
(* Servers.                                                                *)

\* HandleRowRequest, when the server's clock is there: the process subscribes.
PushRowRequestReplied(s, c) ==
  LET r == Head(bgToServer[c][s]).row
  IN  /\ RowRequestReplied(s, c)
      /\ subscribed' = [subscribed EXCEPT ![s][r] = @ \cup {c}]
      /\ UNCHANGED <<cachedClock, asyncVars, clockVars, dirty>>

\* CreateSendServerPushRowMsgs, for worker d: the rows in messages that take
\* PushCapacity of them; the last one, perhaps empty, carries the clock k.
PushMsgs(s, d, k, rows) ==
  LET list    == SetToSeq(rows)
      last    == Max({1, (Len(list) + PushCapacity - 1) \div PushCapacity})
      part(i) == {list[j] : j \in (i - 1) * PushCapacity + 1 .. Min({i * PushCapacity, Len(list)})}
  IN  [i \in 1 .. last |->
         [type |-> "PushRow", version |-> bgVersion'[s][d], isClock |-> i = last,
          clock |-> IF i = last THEN k ELSE 0, rows |-> [r \in part(i) |-> table'[s][r]]]]

OpLogAck(v) == [type |-> "OpLogAck", version |-> v]

\* HandleOpLogMsg, when the minimum has moved to k and the rows in changed are
\* dirty: replies first, with their subscriptions, then a push to everybody.
ReplyAndPush(s, k, changed) ==
  LET news(d) == {r \in changed : d \in subscribed'[s][r]}
  IN  /\ rowRequests' = [rowRequests EXCEPT ![s][k] = NoRequests]
      /\ subscribed' = [subscribed EXCEPT ![s] = [r \in RowsOf(s) |->
            @[r] \cup {d \in Clients : r \in ToSet(FulfilledRowRequests(s, k, d))}]]
      /\ dirty' = [dirty EXCEPT ![s] = {r \in changed : subscribed'[s][r] = {}}]
      /\ serverToBg' = [serverToBg EXCEPT ![s] = [d \in Clients |->
            @[d] \o FulfilledReplies(s, k, d) \o PushMsgs(s, d, k, news(d))]]

\* Mutant of Changed: forgets the rows that had changed before.
ChangedNow(s, msg) == {r \in RowsOf(s) : msg.updates[r] # Zero}

\* The rows that have changed since they were pushed, with the message applied.
Changed(s, msg) == dirty[s] \cup {r \in RowsOf(s) : msg.updates[r] # Zero}

\* HandleOpLogMsg.
PushHandleOpLog(s, c) ==
  LET msg     == Head(bgToServer[c][s])
      clocks  == ClockUntil(s, c, msg)
      changed == Changed(s, msg)
  IN  /\ NextFromBg(s, c, "OpLog")
      /\ ApplyOpLogUpdateVersion(s, c, msg)
      /\ bgClock' = [bgClock EXCEPT ![s] = clocks]
      /\ IF ClockChanges(s, c, msg) THEN ReplyAndPush(s, clocks.min, changed)
         ELSE /\ serverToBg' = [serverToBg EXCEPT ![s][c] = Append(@, OpLogAck(msg.version))]
              /\ dirty' = [dirty EXCEPT ![s] = changed]
              /\ UNCHANGED <<rowRequests, subscribed>>
      /\ read' = NoRead
      /\ UNCHANGED <<threadVars, clientVars, bgVars, appToBg, ghostVars, cachedClock, asyncVars,
                     clockVars>>

-----------------------------------------------------------------------------
PushThreadNext(t) ==
  \/ Inherited(t)
  \/ \E r \in Rows, byThread \in BOOLEAN : \/ TestSystemClock(t, r, byThread)
                                           \/ PushGetCached(t, r, byThread)
                                           \/ PushGetRequest(t, r, byThread)
  \/ WaitSystemClock(t)
  \/ PushGetReturn(t)
  \/ PushGetAgain(t)
  \/ PushGetAbort(t)
  \/ \E r \in Rows, forced \in BOOLEAN : GetAsync(t, r, forced)
  \/ WaitPendingAsyncGet(t)

PushBgNext(c) ==
  \/ \E t \in Threads : \/ PushRowRequestAnswered(c, t)
                        \/ PushRowRequestForwarded(c, t)
                        \/ PushHandleBgClock(c, t)
                        \/ PushHandleBgSendOpLog(c, t)
  \/ \E s \in Servers : \/ PushHandleReply(c, s)
                        \/ HandleServerPushRow(c, s)
                        \/ HandleServerOpLogAck(c, s)
  \/ NotifyAll(c)

PushServerNext(s) ==
  \E c \in Clients : \/ RowRequestBuffered(s, c) /\ UNCHANGED pushVars
                     \/ PushRowRequestReplied(s, c)
                     \/ PushHandleOpLog(s, c)

PushNext ==
  \/ \E t \in Threads : PushThreadNext(t)
  \/ \E c \in Clients : PushBgNext(c)
  \/ \E s \in Servers : PushServerNext(s)

PushSpec == PushInit /\ [][PushNext]_allVars

-----------------------------------------------------------------------------
(* Type invariant.                                                         *)

PushRequest == [thread : Threads, clock : Nat, sent : BOOLEAN]
Words == 0 .. VersionModulus - 1

IsPushMgr(m) ==
  /\ m.pending \in [Rows -> Seq(PushRequest)]
  /\ m.oplogs \in Seq([version : Words, updates : Updates])
  /\ m.versions \in [of : [Servers -> Words], min : Words, upper : Words]

IsFromServer(s, msg) ==
  \/ msg \in RowReplies(s)
  \/ msg \in [type : {"OpLogAck"}, version : Nat]
  \/ /\ msg.type = "PushRow" /\ msg.version \in Int /\ msg.isClock \in BOOLEAN /\ msg.clock \in Nat
     /\ DOMAIN msg.rows \subseteq RowsOf(s)
     /\ \A r \in DOMAIN msg.rows : msg.rows[r] \in Vec

\* Every variable has the type its C++ counterpart has in the model.
PushTypeOK ==
  /\ ThreadsOK /\ ClientsOK /\ ServersOK
  /\ pc \in [Threads -> {"run", "tested", "blocked", "woken", "wait", "flush", "tick", "clock", "send"}]
  /\ cachedClock \in [Threads -> Nat]
  /\ replies \in [Threads -> 0 .. MaxAsync + 1]
  /\ pending \in [Threads -> 0 .. MaxAsync]
  /\ \A t \in Threads : \A i \in DOMAIN appToBg[t] :
       appToBg[t][i] \in [type : {"RowRequest"}, row : Rows, clock : Nat, forced : BOOLEAN]
                         \cup [type : {"BgClock", "BgSendOpLog"}]
  /\ \A c \in Clients : /\ IsPushMgr(mgr[c])
                       /\ serverClock[c] \in VectorClocks(Servers)
                       /\ systemClock[c] \in Nat
                       /\ notifying[c] \in BOOLEAN
  /\ \A s \in Servers : /\ subscribed[s] \in [RowsOf(s) -> SUBSET Clients]
                       /\ dirty[s] \subseteq RowsOf(s)
                       /\ \A c \in Clients : \A i \in DOMAIN serverToBg[s][c] :
                            IsFromServer(s, serverToBg[s][c][i])

-----------------------------------------------------------------------------
(* Safety.                                                                 *)

\* The comment of ServerAcknowledgeVersion, and the LOG(FATAL) of
\* OpLogIterInit: the worker keeps exactly the oplogs that some server has not
\* acknowledged, in order.  So every push, reply and acknowledgement on its way
\* finds the versions it has to replay, however the servers' messages
\* interleave; and no oplog is kept for ever.
KeptOpLogsAreUnacknowledged ==
  \A c \in Clients :
    LET log  == mgr[c].oplogs
        vers == mgr[c].versions
    IN  /\ vers.upper = Mgr!Word(version[c] - 1)
        /\ Len(log) = Mgr!Word(vers.upper - vers.min)
        /\ \A i \in DOMAIN log : log[i].version = Mgr!Word(version[c] - Len(log) + i - 1)
        /\ \A s \in Servers : \A i \in DOMAIN serverToBg[s][c] :
             version[c] - 1 - serverToBg[s][c][i].version <= Len(log)

\* What a manager knows of versions, renamed as if d more had been sent before.
Rotated(m, d) ==
  [oplogs |-> [i \in DOMAIN m.oplogs |-> [version |-> Mgr!Word(m.oplogs[i].version + d)]],
   versions |-> [of |-> [s \in Servers |-> Mgr!Word(m.versions.of[s] + d)],
                 min |-> Mgr!Word(m.versions.min + d), upper |-> Mgr!Word(m.versions.upper + d)]]

\* The header of ServerVersionMgr: it suffices that fewer versions than words
\* are outstanding.  Wherever among the words the versions start, also when
\* they wrap around in between, the manager decides the same on the next
\* acknowledgement.
VersionsSurviveWrapAround ==
  \A c \in Clients, s \in Servers :
    serverToBg[s][c] # << >> =>
      LET w     == Mgr!Word(Head(serverToBg[s][c]).version)
          after == Mgr!ServerAcknowledgeVersion(mgr[c], s, w)
      IN  \A d \in Words \ {0} :
            Mgr!ServerAcknowledgeVersion(Rotated(mgr[c], d), s, Mgr!Word(w + d))
              = Rotated(after, d)

\* A cached row of server s holds what every thread did before the clock up to
\* which the worker has seen s push: no update goes past a subscriber, whether
\* the row was requested, evicted and requested again, or changed before
\* anybody subscribed.
CachedRowsFollowTheirServer ==
  \A c \in Clients : \A r \in CachedRows(c) : \A u \in Threads :
    LET k == serverClock[c].vec[ServerOf[r]]
    IN  k <= clock[u] /\ MadeBefore(u, r, k) <= cache[c][r].data[u]

\* No thread sleeps through the clock it waits for, although the worker ticks
\* the system clock without the mutex and counts it only one up for each new
\* minimum of the servers' clocks: when all servers have pushed that clock,
\* whoever still waits for it will be notified.
NobodySleepsThroughTheClock ==
  \A t \in Threads :
    LET c == ClientOf[t]
    IN  pc[t] = "blocked" /\ (\A s \in Servers : serverClock[c].vec[s] >= want[t].clock)
          => notifying[c]

\* For each request of GetAsync that a thread still counts, and for its Get if
\* it waits in one, there is a reply, or a request that will be replied to.
\* So WaitPendingAsnycGet neither waits for a reply too many nor leaves one
\* for the next Get.
AsyncGetsAreCounted ==
  \A t \in {t \in Readers \cup AsyncReaders : Alive(ClientOf[t])} :
    LET c         == ClientOf[t]
        asked     == {i \in DOMAIN appToBg[t] : appToBg[t][i].type = "RowRequest"}
        waiting   == [r \in Rows |-> AnswersTo(mgr[c].pending[r], t)]
    IN  replies[t] + Cardinality(asked) + SumFunction(waiting)
          = pending[t] + (IF pc[t] = "wait" THEN 1 ELSE 0)

=============================================================================
