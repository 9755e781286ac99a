----------------------------- MODULE VectorClock -----------------------------
(***************************************************************************)
(* petuum_ps_common/util/vector_clock.{hpp,cpp}.                           *)
(*                                                                         *)
(* A vector clock is kept as the record [vec |-> clock per id,             *)
(* min |-> the cached minimum].  The class never recomputes min_clock_     *)
(* from scratch: AddClock lowers it, Tick raises it by one when the ticking *)
(* id is the only one left at the minimum.  The operators keep that         *)
(* incremental style, so that the agreement of min with vec (IsMinimum) is *)
(* a result and not a definition.                                          *)
(*                                                                         *)
(* Whatever waits for "everybody has reached clock k" uses this class:     *)
(* TableGroup over its application threads, Server over the background     *)
(* workers, the SSPPush workers over their servers.                        *)
(*                                                                         *)
(* Operators commented "Mutant of X: ..." are what a slip in X would make  *)
(* of it.  The specification does not use them; substituted for X, each    *)
(* must break a property.                                                  *)
(***************************************************************************)
LOCAL INSTANCE Integers

\* VectorClock(): no clock yet.
NoClock == [vec |-> << >>, min |-> -1]

\* VectorClock(ids): every clock at zero.
StartClock(Ids) == [vec |-> [i \in Ids |-> 0], min |-> 0]

\* AddClock(id, clock).
AddClock(vc, id, clock) ==
  [vec |-> [i \in DOMAIN vc.vec \cup {id} |-> IF i = id THEN clock ELSE vc.vec[i]],
   min |-> IF vc.min = -1 \/ clock < vc.min THEN clock ELSE vc.min]

\* Mutant of IsUniqueMin: forgets to look for others at the minimum.
AtMin(vc, id) == vc.vec[id] = vc.min

\* IsUniqueMin(id): would a tick of id raise the minimum?
IsUniqueMin(vc, id) ==
  /\ vc.vec[id] = vc.min
  /\ \A i \in DOMAIN vc.vec \ {id} : vc.vec[i] # vc.min

\* Tick(id): the clock it leaves, and the value it returns.
Tick(vc, id) ==
  [vec |-> [vc.vec EXCEPT ![id] = @ + 1],
   min |-> IF IsUniqueMin(vc, id) THEN vc.min + 1 ELSE vc.min]

\* Mutant of TickResult: reports the clock of the id, not a new minimum.
TickResultOfId(vc, id) == vc.vec[id] + 1

TickResult(vc, id) == IF IsUniqueMin(vc, id) THEN vc.min + 1 ELSE 0

\* Mutant of LowestAfter: forgets that others hold the minimum back.
ReachedClock(vc, id, clock) == clock

\* TickUntil(id, clock) ticks id until it shows clock, and does nothing when
\* clock is not ahead of it.  The ticks raise min only while id is alone at
\* the minimum, so min ends at the first clock that id or another id holds.
LowestAfter(vc, id, clock) ==
  LET held == {clock} \cup {vc.vec[i] : i \in DOMAIN vc.vec \ {id}}
  IN  CHOOSE k \in held : \A j \in held : k <= j

TickUntil(vc, id, clock) ==
  IF clock <= vc.vec[id] THEN vc
  ELSE [vec |-> [vc.vec EXCEPT ![id] = clock],
        min |-> IF IsUniqueMin(vc, id) THEN LowestAfter(vc, id, clock) ELSE vc.min]

\* The value TickUntil returns: the last new minimum, or 0.
TickUntilResult(vc, id, clock) ==
  IF clock > vc.vec[id] /\ IsUniqueMin(vc, id) THEN LowestAfter(vc, id, clock) ELSE 0

\* The clocks of the ids in S.
VectorClocks(S) == [vec : [S -> Nat], min : Nat]

\* What min_clock_ must always be.
IsMinimum(vc) ==
  /\ \E i \in DOMAIN vc.vec : vc.vec[i] = vc.min
  /\ \A i \in DOMAIN vc.vec : vc.min <= vc.vec[i]
=============================================================================
