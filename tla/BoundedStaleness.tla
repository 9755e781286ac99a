--------------------------- MODULE BoundedStaleness ---------------------------
(***************************************************************************)
(* What the SSP consistency model promises an application, without         *)
(* processes, caches or messages (SSPConsistencyController::Get returns a  *)
(* row whose clock is at least max(0, clock - staleness)):                 *)
(*                                                                         *)
(*   a Get by a thread at clock k returns every increment that any thread  *)
(*   made before its own clock k - Staleness, exactly once each, nothing   *)
(*   that was not made, and exactly the increments the threads of the      *)
(*   reader's process have made so far.                                    *)
(***************************************************************************)
EXTENDS Integers, Sequences

CONSTANTS Threads, Rows, ClientOf, Staleness

VARIABLES
  clock,    \* the clock of each thread
  made,     \* the increments each thread has made to each row
  closed,   \* those it had made when it ended each of its clocks
  read      \* the row a Get returned in the last step, if that was a Get

vars == <<clock, made, closed, read>>

NoRead == {}

Init ==
  /\ clock = [t \in Threads |-> 0]
  /\ made = [t \in Threads |-> [r \in Rows |-> 0]]
  /\ closed = [t \in Threads |-> << >>]
  /\ read = NoRead

\* The increments thread u made to row r while its clock was below k.
MadeBefore(u, r, k) == IF k = 0 THEN 0 ELSE closed[u][k][r]

Stalest(t) == IF clock[t] > Staleness THEN clock[t] - Staleness ELSE 0

\* Whether a Get by t may return the content d of row r.
Allowed(t, r, d) ==
  \A u \in Threads :
    /\ MadeBefore(u, r, Stalest(t)) <= d[u]
    /\ d[u] <= made[u][r]
    /\ ClientOf[u] = ClientOf[t] => d[u] = made[u][r]

\* One increment, or several at once when a thread flushes its own cache.
Inc(t, r) ==
  /\ made'[t][r] > made[t][r]
  /\ made' = [made EXCEPT ![t][r] = made'[t][r]]
  /\ read' = NoRead
  /\ UNCHANGED <<clock, closed>>

Clock(t) ==
  /\ clock' = [clock EXCEPT ![t] = @ + 1]
  /\ closed' = [closed EXCEPT ![t] = Append(@, made[t])]
  /\ read' = NoRead
  /\ UNCHANGED made

\* A Get waits until every thread has reached the clock it needs.
Get(t, r) ==
  /\ \A u \in Threads : clock[u] >= Stalest(t)
  /\ \E got \in read' : /\ read' = {[thread |-> t, row |-> r, data |-> got.data]}
                        /\ Allowed(t, r, got.data)
  /\ UNCHANGED <<clock, made, closed>>

\* The moment after a Get passes.
Pass == read' = NoRead /\ UNCHANGED <<clock, made, closed>>

Next ==
  \/ \E t \in Threads, r \in Rows : Inc(t, r) \/ Get(t, r)
  \/ \E t \in Threads : Clock(t)
  \/ Pass

Spec == Init /\ [][Next]_vars
=============================================================================
