---------------------- MODULE SSPPushRowRequestOpLogMgr ----------------------
(***************************************************************************)
(* petuum_ps/thread/ssp_push_row_request_oplog_mgr.{hpp,cpp}: what a       *)
(* background worker remembers under SSPPush.  It keeps the updates of     *)
(* every version it has sent until all servers have acknowledged it, as a  *)
(* server may push a row at any time.                                      *)
(*                                                                         *)
(*   pending    pending_row_requests_: per row, the requests that wait, in *)
(*              increasing order of clock                                  *)
(*   oplogs     version_oplog_list_: [version, updates], oldest first      *)
(*   versions   server_version_mgr_                                        *)
(*                                                                         *)
(* A request is [thread, clock, sent]; as in SSPRowRequestOpLogMgr, sent   *)
(* of the stored copy is not initialised.                                  *)
(***************************************************************************)
EXTENDS ServerVersionMgr, SequencesExt
Base == INSTANCE SSPRowRequestOpLogMgr

EmptyMgr(Rows, Servers) ==
  [pending |-> [r \in Rows |-> << >>], oplogs |-> << >>, versions |-> StartVersions(Servers)]

\* AddRowRequest returns true.
ShouldBeSent(m, row, clock) == Base!ShouldBeSent(m, row, clock)

\* AddRowRequest.
AddRowRequest(m, row, thread, clock, storedSent) ==
  [m EXCEPT !.pending[row] =
     InsertAt(@, Base!Behind(m, row, clock) + 1,
              [thread |-> thread, clock |-> clock, sent |-> storedSent])]

\* The requests at the head of the row's list that a reply of clock satisfies.
Satisfied(m, row, clock) == Base!Satisfied(m, row, clock)

\* InformReply: the satisfied requests leave; the next one is sent now if its
\* sent field reads false.
RemoveSatisfied(m, row, clock) ==
  [m EXCEPT !.pending[row] = SubSeq(@, Len(Satisfied(m, row, clock)) + 1, Len(@))]

NeedsRequest(m, row, clock) == Base!NeedsRequest(RemoveSatisfied(m, row, clock), row)

InformReply(m, row, clock) ==
  LET left == RemoveSatisfied(m, row, clock)
  IN  IF NeedsRequest(m, row, clock) THEN [left EXCEPT !.pending[row][1].sent = TRUE] ELSE left

\* clock_to_request, or -1.
ClockToRequest(m, row, clock) ==
  IF NeedsRequest(m, row, clock) THEN RemoveSatisfied(m, row, clock).pending[row][1].clock
  ELSE -1

\* AddOpLog and InformVersionInc: the oplog of the version is kept.
AddOpLog(m, version, updates) ==
  [m EXCEPT !.oplogs = Append(@, [version |-> version, updates |-> updates]),
            !.versions = IncVersionUpperBound(@)]

\* Mutant of Removable: keeps the version that all servers have just applied.
RemovableBelow(versions, version) ==
  IF versions.min > versions.upper
  THEN version > versions.upper /\ version < versions.min
  ELSE version > versions.upper \/ version < versions.min

\* Whether all servers have applied the version, by the oldest of theirs.
Removable(versions, version) ==
  IF versions.min > versions.upper
  THEN version > versions.upper /\ version <= versions.min
  ELSE version > versions.upper \/ version <= versions.min

\* ServerAcknowledgeVersion: forget what every server has applied.
ServerAcknowledgeVersion(m, s, version) ==
  LET versions == SetServerVersion(m.versions, s, version)
      acked    == Max({n \in 0 .. Len(m.oplogs) :
                         \A i \in 1 .. n : Removable(versions, m.oplogs[i].version)})
  IN  [m EXCEPT !.versions = versions,
                !.oplogs = IF RaisesMin(m.versions, s, version)
                           THEN SubSeq(@, acked + 1, Len(@)) ELSE @]
=============================================================================
