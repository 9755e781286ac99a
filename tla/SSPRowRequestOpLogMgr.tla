------------------------ MODULE SSPRowRequestOpLogMgr ------------------------
(***************************************************************************)
(* petuum_ps/thread/row_request_oplog_mgr.{hpp,cpp}: what a background     *)
(* worker remembers about the rows it waits for and about the updates it   *)
(* has sent since it asked for them.                                       *)
(*                                                                         *)
(*   pending   pending_row_requests_: per row, the waiting application     *)
(*             threads' requests in increasing order of clock              *)
(*   oplogs    version_oplog_map_: version -> the updates of that version  *)
(*   count     version_request_cnt_map_: version -> how many pending       *)
(*             requests were made when it was the last version sent        *)
(*                                                                         *)
(* A request is [thread, clock, version, sent].  RowRequestInfo's copy     *)
(* constructor and assignment copy every field but sent, so the element    *)
(* that std::list stores has an uninitialised sent: AddRowRequest takes    *)
(* the value the stored field happens to hold as an argument.              *)
(*                                                                         *)
(* Operators commented "Mutant of X: ..." are what a slip in X would make  *)
(* of it.  The specification does not use them; substituted for X, each    *)
(* must break a property.                                                  *)
(***************************************************************************)
EXTENDS Integers, SequencesExt

EmptyMgr(Rows) == [pending |-> [r \in Rows |-> << >>], oplogs |-> << >>, count |-> << >>]

Without(f, S) == [x \in DOMAIN f \ S |-> f[x]]

IncCount(count, v) ==
  [x \in DOMAIN count \cup {v} |->
     (IF x \in DOMAIN count THEN count[x] ELSE 0) + (IF x = v THEN 1 ELSE 0)]

\* Mutant of DecCount: leaves a count of zero behind.
DecCountOnly(count, v) == [count EXCEPT ![v] = @ - 1]

DecCount(count, v) ==
  IF count[v] = 1 THEN Without(count, {v}) ELSE [count EXCEPT ![v] = @ - 1]

\* The last pending request of the row that a request for clock goes behind.
Behind(m, row, clock) ==
  Max({0} \cup {i \in DOMAIN m.pending[row] : m.pending[row][i].clock <= clock})

\* AddRowRequest returns true: no request with a lower or the same clock
\* waits for the row, and the caller sends this one to the server.
ShouldBeSent(m, row, clock) == Behind(m, row, clock) = 0

\* AddRowRequest.
AddRowRequest(m, row, thread, clock, version, storedSent) ==
  LET request == [thread |-> thread, clock |-> clock, version |-> version,
                  sent |-> storedSent]
  IN  [m EXCEPT
        !.pending[row] = InsertAt(@, Behind(m, row, clock) + 1, request),
        !.count = IncCount(@, version)]

\* Mutant of AddOpLog: looks only for requests made at the version before.
AddOpLogOfLatest(m, version, oplog) ==
  IF version - 1 \notin DOMAIN m.count THEN m
  ELSE [m EXCEPT !.oplogs = [v \in DOMAIN @ \cup {version} |->
                                IF v = version THEN oplog ELSE @[v]]]

\* AddOpLog: the oplog of a version is kept only for pending requests.
AddOpLog(m, version, oplog) ==
  IF DOMAIN m.count = {} THEN m
  ELSE [m EXCEPT !.oplogs = [v \in DOMAIN @ \cup {version} |->
                                IF v = version THEN oplog ELSE @[v]]]

\* CleanVersionOpLogs: the last request of version is gone.  Unless an older
\* request still needs the oplog of version itself, drop the later ones up to
\* the next version a request is waiting at.
CleanVersionOpLogs(m, version, current) ==
  IF version + 1 = current \/ version \in DOMAIN m.oplogs THEN m
  ELSE [m EXCEPT !.oplogs =
          Without(@, {v \in DOMAIN @ :
                        /\ v > version
                        /\ \A w \in version + 1 .. v - 1 : w \notin DOMAIN m.count})]

\* Mutant of Satisfied: every request of the row.
AllRequests(m, row, clock) == m.pending[row]

\* Mutant of Satisfied: only the requests for an earlier clock.
EarlierRequests(m, row, clock) ==
  SubSeq(m.pending[row], 1,
    Max({n \in 0 .. Len(m.pending[row]) :
           \A i \in 1 .. n : m.pending[row][i].clock < clock}))

\* The requests at the head of the row's list that a reply of clock satisfies.
Satisfied(m, row, clock) ==
  SubSeq(m.pending[row], 1,
    Max({n \in 0 .. Len(m.pending[row]) :
           \A i \in 1 .. n : m.pending[row][i].clock <= clock}))

Forget(m, version, current) ==
  LET counted == [m EXCEPT !.count = DecCount(@, version)]
  IN  IF version \in DOMAIN counted.count THEN counted
      ELSE CleanVersionOpLogs(counted, version, current)

\* InformReply, its while loop: the satisfied requests leave in order.
RemoveSatisfied(m, row, clock, current) ==
  LET done == Satisfied(m, row, clock)
      rest == SubSeq(m.pending[row], Len(done) + 1, Len(m.pending[row]))
      kept[n \in 0 .. Len(done)] ==
        IF n = 0 THEN m ELSE Forget(kept[n - 1], done[n].version, current)
  IN  [kept[Len(done)] EXCEPT !.pending[row] = rest]

\* InformReply, its last iteration: the first request that still waits is
\* sent now if its sent field reads false, as of the current version.
NeedsRequest(m, row) == m.pending[row] # << >> /\ ~m.pending[row][1].sent

MarkRequested(m, row, current) ==
  LET first   == m.pending[row][1]
      asked   == [thread |-> first.thread, clock |-> first.clock, version |-> current - 1,
                  sent |-> TRUE]
      counted == [pending |-> [m.pending EXCEPT ![row][1] = asked],
                  oplogs  |-> m.oplogs,
                  count   |-> IncCount(DecCount(m.count, first.version), current - 1)]
  IN  IF first.version \in DOMAIN counted.count THEN counted
      ELSE CleanVersionOpLogs(counted, first.version, current)

InformReply(m, row, clock, current) ==
  LET left == RemoveSatisfied(m, row, clock, current)
  IN  IF NeedsRequest(left, row) THEN MarkRequested(left, row, current) ELSE left

\* clock_to_request, or -1.
ClockToRequest(m, row, clock, current) ==
  LET left == RemoveSatisfied(m, row, clock, current)
  IN  IF NeedsRequest(left, row) THEN left.pending[row][1].clock ELSE -1
=============================================================================
