------------------------------ MODULE MCSSPPush ------------------------------
(* An instance of SSPPush for TLC: t1 and t2 share a process; t2 reads.      *)
EXTENDS SSPPush, TLC

CONSTANTS c1, c2, t1, t2, t3, r1, r2

TwoAndOne == t1 :> c1 @@ t2 :> c1 @@ t3 :> c2
BothOnFirst == r1 :> c1 @@ r2 :> c1
Incs == [t \in Threads |-> [r \in Rows |-> IF t # t2 /\ r = r1 THEN 1 ELSE 0]]

\* What a behaviour has beside clocks and Gets of r1.
OwnIncs     == made[t1][r1] > 0
ForeignIncs == made[t3][r1] > 0
Prefetches  == pending[t2] > 0
ThreadCache ==
  threadRows[t2] # << >> \/ (want[t2] # << >> /\ want[t2].byThread)
SecondRow ==
  \/ pending[t2] > 1 \/ mgr[c1].pending[r2] # << >> \/ subscribed[c1][r2] # {}
  \/ \E i \in DOMAIN appToBg[t2] :
       appToBg[t2][i].type = "RowRequest" /\ appToBg[t2][i].row = r2

NoClockYet == \A t \in Threads : clock[t] = 0

ClocksSent == \A c \in Clients : clientClock[c] = 1

\* Bound: the combinations that are explored.  t2 clocks after t1, the other
\* process increments before it clocks, and t1 increments either before it
\* clocks or when the updates of the other process are on their way.  The
\* process nobody reads in handles a server's message before the next arrives.
Explored ==
  /\ clock[t2] = 1 => clock[t1] = 1 /\ pc[t1] \notin {"tick", "clock", "send"}
  /\ clock[t3] = 1 => closed[t3][1] = made[t3]
  /\ OwnIncs /\ clock[t1] = 1 => ForeignIncs # (closed[t1][1] = made[t1])
  /\ OwnIncs /\ ForeignIncs => ClocksSent
  /\ ThreadCache => NoClockYet /\ ~OwnIncs /\ ~ForeignIncs /\ ~Prefetches
  /\ SecondRow => NoClockYet /\ ~OwnIncs /\ ~ForeignIncs /\ ~ThreadCache
  /\ Prefetches /\ ~SecondRow => ForeignIncs /\ ~OwnIncs /\ want[t2] = << >> /\ ClocksSent
  /\ Len(serverToBg[c1][c2]) + Len(serverToBg[c2][c2]) <= 1
=============================================================================
