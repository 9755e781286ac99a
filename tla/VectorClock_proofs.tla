-------------------------- MODULE VectorClock_proofs --------------------------
(***************************************************************************)
(* Facts about the operators of VectorClock, for any set of ids: adding an *)
(* id, ticking one and bringing one up to a clock all leave min the        *)
(* minimum of vec, although none of them computes it afresh.               *)
(***************************************************************************)
EXTENDS VectorClock, Integers, WellFoundedInduction, TLAPS

\* A set of naturals that is not empty has a least element.  The minimal
\* element that the well-foundedness of < gives.
LEMMA NatHasLeast ==
  ASSUME NEW S \in SUBSET Nat, S # {}
  PROVE  \E k \in S : \A j \in S : k <= j
<1> DEFINE R == OpToRel(<, Nat)
<1>1. IsWellFoundedOn(R, Nat)
  BY NatLessThanWellFounded
<1>2. PICK k \in S : \A j \in S : ~ (<<j, k>> \in R)
  <2> HIDE DEF R
  <2> QED  BY <1>1, WFMin, Zenon
<1>3. \A j \in S : <<j, k>> \in R <=> j < k
  BY DEF OpToRel
<1>4. \A j \in S : ~ (j < k)
  <2> HIDE DEF R
  <2> QED  BY <1>2, <1>3, Zenon
<1>5. \A j \in S : k <= j
  BY <1>4
<1> QED  BY <1>5

\* LowestAfter picks the least of the clocks held after the ticks.
LEMMA LowestAfterIsLeast ==
  ASSUME NEW S, NEW vc \in VectorClocks(S), NEW id \in S, NEW clock \in Nat
  PROVE  LET low == LowestAfter(vc, id, clock)
         IN  /\ low \in Nat
             /\ low = clock \/ \E i \in S \ {id} : low = vc.vec[i]
             /\ low <= clock
             /\ \A i \in S \ {id} : low <= vc.vec[i]
<1> DEFINE held == {clock} \cup {vc.vec[i] : i \in DOMAIN vc.vec \ {id}}
           least(k) == k \in held /\ \A j \in held : k <= j
<1>1. DOMAIN vc.vec = S /\ \A i \in S : vc.vec[i] \in Nat
  BY DEF VectorClocks
<1>2. held \in SUBSET Nat /\ held # {}
  BY <1>1
<1>3. \E k : least(k)
  <2> HIDE DEF held
  <2> QED  BY <1>2, NatHasLeast
<1>4. LowestAfter(vc, id, clock) = CHOOSE k \in held : \A j \in held : k <= j
  BY DEF LowestAfter
<1>5. least(LowestAfter(vc, id, clock))
  <2> HIDE DEF held
  <2> QED  BY <1>3, <1>4
<1> QED  BY <1>1, <1>2, <1>5

\* AddClock of a new id.
LEMMA AddClockKeepsMinimum ==
  ASSUME NEW S, NEW vc \in VectorClocks(S), IsMinimum(vc), 
         NEW id, id \notin S, NEW clock \in Nat
  PROVE  /\ AddClock(vc, id, clock) \in VectorClocks(S \cup {id})
         /\ IsMinimum(AddClock(vc, id, clock))
<1> DEFINE new == AddClock(vc, id, clock)
<1>1. /\ DOMAIN new.vec = S \cup {id}
      /\ \A i \in S \cup {id} : new.vec[i] = IF i = id THEN clock ELSE vc.vec[i]
      /\ new.min = IF clock < vc.min THEN clock ELSE vc.min
  BY DEF AddClock, VectorClocks
<1>2. new \in VectorClocks(S \cup {id})
  BY DEF AddClock, VectorClocks
<1>3. DOMAIN vc.vec = S /\ (\A i \in S : vc.vec[i] \in Nat) /\ vc.min \in Nat
  BY DEF VectorClocks
<1>4. IsMinimum(new)
  <2> HIDE DEF new
  <2> QED  BY <1>1, <1>3 DEF IsMinimum
<1> QED  BY <1>2, <1>4

\* The first id to be added.
LEMMA FirstClockIsMinimum ==
  ASSUME NEW id, NEW clock \in Nat
  PROVE  /\ AddClock(NoClock, id, clock) \in VectorClocks({id})
         /\ IsMinimum(AddClock(NoClock, id, clock))
BY DEF AddClock, NoClock, VectorClocks, IsMinimum

\* Tick: the minimum never falls, and its result is the new minimum exactly
\* when it has risen, by one.
LEMMA TickKeepsMinimum ==
  ASSUME NEW S, NEW vc \in VectorClocks(S), IsMinimum(vc), NEW id \in S
  PROVE  /\ Tick(vc, id) \in VectorClocks(S)
         /\ IsMinimum(Tick(vc, id))
         /\ Tick(vc, id).min \in {vc.min, vc.min + 1}
         /\ TickResult(vc, id) = IF Tick(vc, id).min # vc.min THEN Tick(vc, id).min ELSE 0
<1> DEFINE new == Tick(vc, id)
<1>1. DOMAIN vc.vec = S /\ (\A i \in S : vc.vec[i] \in Nat) /\ vc.min \in Nat
  BY DEF VectorClocks
<1>2. /\ DOMAIN new.vec = S
      /\ \A i \in S : new.vec[i] = IF i = id THEN vc.vec[id] + 1 ELSE vc.vec[i]
      /\ new.min = IF IsUniqueMin(vc, id) THEN vc.min + 1 ELSE vc.min
  BY <1>1 DEF Tick, VectorClocks
<1>3. new \in VectorClocks(S)
  BY DEF Tick, VectorClocks
<1>4. IsMinimum(new)
  <2> HIDE DEF new
  <2>1. CASE IsUniqueMin(vc, id)
    BY <1>1, <1>2, <2>1 DEF IsMinimum, IsUniqueMin
  <2>2. CASE ~IsUniqueMin(vc, id)
    BY <1>1, <1>2, <2>2 DEF IsMinimum, IsUniqueMin
  <2> QED  BY <2>1, <2>2
<1> QED  BY <1>1, <1>2, <1>3, <1>4 DEF TickResult

\* TickUntil: likewise, but the minimum may rise by more than one.
LEMMA TickUntilKeepsMinimum ==
  ASSUME NEW S, NEW vc \in VectorClocks(S), IsMinimum(vc), NEW id \in S, NEW clock \in Nat
  PROVE  /\ TickUntil(vc, id, clock) \in VectorClocks(S)
         /\ IsMinimum(TickUntil(vc, id, clock))
         /\ TickUntil(vc, id, clock).min >= vc.min
         /\ TickUntilResult(vc, id, clock) =
              IF TickUntil(vc, id, clock).min # vc.min THEN TickUntil(vc, id, clock).min ELSE 0
<1> DEFINE new == TickUntil(vc, id, clock)
           low == LowestAfter(vc, id, clock)
<1>1. DOMAIN vc.vec = S /\ (\A i \in S : vc.vec[i] \in Nat) /\ vc.min \in Nat
  BY DEF VectorClocks
<1>2. CASE clock <= vc.vec[id]
  BY <1>1, <1>2 DEF TickUntil, TickUntilResult
<1>3. CASE clock > vc.vec[id]
  <2>1. /\ low \in Nat /\ low <= clock
        /\ low = clock \/ \E i \in S \ {id} : low = vc.vec[i]
        /\ \A i \in S \ {id} : low <= vc.vec[i]
    BY LowestAfterIsLeast
  <2>2. /\ DOMAIN new.vec = S
        /\ \A i \in S : new.vec[i] = IF i = id THEN clock ELSE vc.vec[i]
        /\ new.min = IF IsUniqueMin(vc, id) THEN low ELSE vc.min
    BY <1>1, <1>3 DEF TickUntil, VectorClocks
  <2>3. new \in VectorClocks(S)
    BY <1>1, <1>3, <2>1 DEF TickUntil, VectorClocks
  <2>4. TickUntilResult(vc, id, clock) = IF IsUniqueMin(vc, id) THEN low ELSE 0
    BY <1>3 DEF TickUntilResult
  <2>5. IsUniqueMin(vc, id) => low > vc.min
    BY <1>1, <1>3, <2>1 DEF IsMinimum, IsUniqueMin
  <2>6. IsMinimum(new)
    <3> HIDE DEF new, low
    <3>1. CASE IsUniqueMin(vc, id)
      BY <1>1, <1>3, <2>1, <2>2, <3>1 DEF IsMinimum, IsUniqueMin
    <3>2. CASE ~IsUniqueMin(vc, id)
      BY <1>1, <1>3, <2>2, <3>2 DEF IsMinimum, IsUniqueMin
    <3> QED  BY <3>1, <3>2
  <2> QED  BY <1>1, <2>1, <2>2, <2>3, <2>4, <2>5, <2>6
<1> QED  BY <1>1, <1>2, <1>3

\* Two clocks that agree on vec, each with an exact minimum, are the same.
LEMMA MinimumIsUnique ==
  ASSUME NEW S, NEW v \in VectorClocks(S), NEW w \in VectorClocks(S),
         v.vec = w.vec, IsMinimum(v), IsMinimum(w)
  PROVE  v = w
<1>1. DOMAIN v.vec = S /\ (\A i \in S : v.vec[i] \in Nat) /\ v.min \in Nat /\ w.min \in Nat
  BY DEF VectorClocks
<1>2. v.min <= w.min /\ w.min <= v.min
  BY <1>1 DEF IsMinimum
<1>3. v.min = w.min
  BY <1>1, <1>2
<1> QED  BY <1>3 DEF VectorClocks

\* Ticking on after TickUntil(clock) is TickUntil(clock + 1), and a tick's
\* result, if it is not 0, replaces that of the ticks before it.
LEMMA TickUntilStep ==
  ASSUME NEW S, NEW vc \in VectorClocks(S), IsMinimum(vc), NEW id \in S, NEW clock \in Nat,
         vc.vec[id] <= clock
  PROVE  LET u == TickUntil(vc, id, clock)
         IN  /\ Tick(u, id) = TickUntil(vc, id, clock + 1)
             /\ TickUntilResult(vc, id, clock + 1) =
                  IF TickResult(u, id) # 0 THEN TickResult(u, id)
                  ELSE TickUntilResult(vc, id, clock)
<1> DEFINE u == TickUntil(vc, id, clock)
           v == Tick(u, id)
           w == TickUntil(vc, id, clock + 1)
<1>1. /\ u \in VectorClocks(S) /\ IsMinimum(u) /\ u.min >= vc.min
      /\ TickUntilResult(vc, id, clock) = IF u.min # vc.min THEN u.min ELSE 0
  BY TickUntilKeepsMinimum
<1>2. /\ w \in VectorClocks(S) /\ IsMinimum(w) /\ w.min >= vc.min
      /\ TickUntilResult(vc, id, clock + 1) = IF w.min # vc.min THEN w.min ELSE 0
  <2>1. clock + 1 \in Nat
    OBVIOUS
  <2> QED  BY <2>1, TickUntilKeepsMinimum
<1>3. /\ v \in VectorClocks(S) /\ IsMinimum(v) /\ v.min \in {u.min, u.min + 1}
      /\ TickResult(u, id) = IF v.min # u.min THEN v.min ELSE 0
  <2> HIDE DEF u
  <2> QED  BY <1>1, TickKeepsMinimum
<1>4. vc.vec \in [S -> Nat] /\ vc.min \in Nat
  BY DEF VectorClocks
<1>5. u.vec = [vc.vec EXCEPT ![id] = clock]
  BY <1>4 DEF TickUntil
<1>6. w.vec = [vc.vec EXCEPT ![id] = clock + 1]
  BY <1>4 DEF TickUntil
<1>7. v.vec = [vc.vec EXCEPT ![id] = clock + 1]
  <2>1. v.vec = [u.vec EXCEPT ![id] = @ + 1]
    BY DEF Tick
  <2> HIDE DEF u, v
  <2> QED  BY <1>4, <1>5, <2>1
<1>8. u.min \in Nat /\ w.min \in Nat
  BY <1>1, <1>2 DEF VectorClocks
<1> HIDE DEF u, v, w
<1>9. v = w
  BY <1>2, <1>3, <1>6, <1>7, MinimumIsUnique
<1>10. TickUntilResult(vc, id, clock + 1) =
         IF TickResult(u, id) # 0 THEN TickResult(u, id) ELSE TickUntilResult(vc, id, clock)
  BY <1>1, <1>2, <1>3, <1>4, <1>8, <1>9
<1> QED  BY <1>9, <1>10 DEF u, v, w
=============================================================================
