-------------------------- MODULE VectorClockObject --------------------------
(***************************************************************************)
(* A VectorClock (petuum_ps_common/util/vector_clock.cpp) under its public *)
(* methods, called in any order: what its owners may rely on, whoever they *)
(* are (TableGroup ticks it, Server and the SSPPush workers bring an id up *)
(* to a clock at once).                                                    *)
(***************************************************************************)
EXTENDS Integers, VectorClock

CONSTANTS
  Ids,        \* the ids a clock may be kept for
  MaxClock    \* bound: the highest clock

ASSUME MaxClockAssumption == MaxClock \in Nat

VARIABLES
  vc,         \* vec_clock_ and min_clock_
  result      \* what the last Tick or TickUntil returned

vars == <<vc, result>>

Init == vc = NoClock /\ result = 0

\* An id is added once, by the thread or for the worker it stands for.
CallAddClock(id, k) ==
  /\ id \notin DOMAIN vc.vec
  /\ vc' = AddClock(vc, id, k)
  /\ UNCHANGED result

CallTick(id) ==
  /\ id \in DOMAIN vc.vec /\ vc.vec[id] < MaxClock
  /\ vc' = Tick(vc, id)
  /\ result' = TickResult(vc, id)

CallTickUntil(id, k) ==
  /\ id \in DOMAIN vc.vec
  /\ vc' = TickUntil(vc, id, k)
  /\ result' = TickUntilResult(vc, id, k)

Next ==
  \E id \in Ids : \/ CallTick(id)
                  \/ \E k \in 0 .. MaxClock : CallAddClock(id, k) \/ CallTickUntil(id, k)

Spec == Init /\ [][Next]_vars

-----------------------------------------------------------------------------
\* The minimum kept by counting is the minimum: Tick recomputes nothing, it
\* raises min_clock_ by one when IsUniqueMin finds the id alone at the bottom.
MinimumIsExact == DOMAIN vc.vec # {} => IsMinimum(vc)

\* The owners learn from the result, and only from it, that the minimum has
\* risen (TableGroup::Clock, Server::ClockUntil): it is the new minimum when it
\* rose and 0 when it did not.
ResultTellsTheMinimum ==
  [][DOMAIN vc'.vec = DOMAIN vc.vec =>
       result' = IF vc'.min # vc.min THEN vc'.min ELSE 0]_vars

\* One turn of the loop of TickUntil, on the clock and the local new_clock.
Ticked(acc, id) ==
  [vc     |-> Tick(acc.vc, id),
   result |-> IF TickResult(acc.vc, id) # 0 THEN TickResult(acc.vc, id) ELSE acc.result]

\* The loop of TickUntil: num_ticks turns, or none if id is not behind clock k.
TicksUntil(id, k) ==
  LET n == IF k > vc.vec[id] THEN k - vc.vec[id] ELSE 0
      after[i \in 0 .. n] == IF i = 0 THEN [vc |-> vc, result |-> 0]
                             ELSE Ticked(after[i - 1], id)
  IN  after[n]

\* The closed form of TickUntil that the other modules use is what that loop
\* computes, in every state a vector clock reaches.
TickUntilIsTicks ==
  \A id \in DOMAIN vc.vec, k \in 0 .. MaxClock :
    /\ TickUntil(vc, id, k) = TicksUntil(id, k).vc
    /\ TickUntilResult(vc, id, k) = TicksUntil(id, k).result
=============================================================================
