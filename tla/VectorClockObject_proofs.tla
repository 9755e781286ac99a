----------------------- MODULE VectorClockObject_proofs -----------------------
(***************************************************************************)
(* What the owners of a VectorClock rely on holds for any set of ids and   *)
(* any bound on the clocks.                                                *)
(***************************************************************************)
EXTENDS VectorClockObject, VectorClock_proofs

\* The invariant: the clock has its type and its minimum is exact, or no id
\* has been added yet.
Inv ==
  \/ vc = NoClock
  \/ /\ DOMAIN vc.vec # {}
     /\ vc \in VectorClocks(DOMAIN vc.vec)
     /\ IsMinimum(vc)

\* A vector clock without ids.
LEMMA NoClockIsEmpty == DOMAIN NoClock.vec = {}
BY DEF NoClock

\* Every call keeps the invariant.
LEMMA CallsKeepInv ==
  ASSUME Inv, [Next]_vars
  PROVE  Inv'
<1>1. CASE UNCHANGED vars
  BY <1>1 DEF Inv, vars
<1>2. ASSUME NEW id \in Ids, NEW k \in 0 .. MaxClock, CallAddClock(id, k)
      PROVE  Inv'
  <2>1. k \in Nat
    BY MaxClockAssumption
  <2>2. CASE vc = NoClock
    <3>1. vc' \in VectorClocks({id}) /\ IsMinimum(vc')
      BY <1>2, <2>1, <2>2, FirstClockIsMinimum DEF CallAddClock
    <3> QED  BY <3>1 DEF Inv, VectorClocks
  <2>3. CASE vc # NoClock
    <3>1. vc' \in VectorClocks(DOMAIN vc.vec \cup {id}) /\ IsMinimum(vc')
      BY <1>2, <2>1, <2>3, AddClockKeepsMinimum DEF CallAddClock, Inv
    <3> QED  BY <3>1 DEF Inv, VectorClocks
  <2> QED  BY <2>2, <2>3
<1>3. ASSUME NEW id \in Ids, CallTick(id)
      PROVE  Inv'
  <2>1. vc # NoClock /\ id \in DOMAIN vc.vec
    BY <1>3, NoClockIsEmpty DEF CallTick
  <2>2. vc' \in VectorClocks(DOMAIN vc.vec) /\ IsMinimum(vc')
    BY <1>3, <2>1, TickKeepsMinimum DEF CallTick, Inv
  <2> QED  BY <2>1, <2>2 DEF Inv, VectorClocks
<1>4. ASSUME NEW id \in Ids, NEW k \in 0 .. MaxClock, CallTickUntil(id, k)
      PROVE  Inv'
  <2>1. vc # NoClock /\ id \in DOMAIN vc.vec /\ k \in Nat
    BY <1>4, NoClockIsEmpty, MaxClockAssumption DEF CallTickUntil
  <2>2. vc' \in VectorClocks(DOMAIN vc.vec) /\ IsMinimum(vc')
    BY <1>4, <2>1, TickUntilKeepsMinimum DEF CallTickUntil, Inv
  <2> QED  BY <2>1, <2>2 DEF Inv, VectorClocks
<1> QED  BY <1>1, <1>2, <1>3, <1>4 DEF Next

\* The invariant always holds.
LEMMA InvHolds == Spec => []Inv
<1>1. Init => Inv
  BY DEF Init, Inv
<1>2. Inv /\ [Next]_vars => Inv'
  BY CallsKeepInv
<1> QED  BY <1>1, <1>2, PTL DEF Spec

\* min_clock_ is the minimum of vec_clock_ after any sequence of calls, for
\* any set of ids: Tick may raise it without looking for the new minimum.
THEOREM MinimumAlwaysExact == Spec => []MinimumIsExact
<1>1. Inv => MinimumIsExact
  BY NoClockIsEmpty DEF Inv, MinimumIsExact
<1> QED  BY <1>1, InvHolds, PTL

\* A call returns the new minimum if it raised it and 0 otherwise, so an owner
\* that looks only at the results misses no rise and invents none.
THEOREM ResultAlwaysTells == Spec => ResultTellsTheMinimum
<1> DEFINE Tells == DOMAIN vc'.vec = DOMAIN vc.vec =>
                      result' = IF vc'.min # vc.min THEN vc'.min ELSE 0
<1>1. ASSUME Inv, Next PROVE Tells
  <2>1. ASSUME NEW id \in Ids, NEW k \in 0 .. MaxClock, CallAddClock(id, k)
        PROVE  Tells
    BY <2>1 DEF CallAddClock, AddClock
  <2>2. ASSUME NEW id \in Ids, CallTick(id)
        PROVE  Tells
    <3>1. vc # NoClock /\ id \in DOMAIN vc.vec
      BY <2>2, NoClockIsEmpty DEF CallTick
    <3> QED  BY <1>1, <2>2, <3>1, TickKeepsMinimum DEF CallTick, Inv
  <2>3. ASSUME NEW id \in Ids, NEW k \in 0 .. MaxClock, CallTickUntil(id, k)
        PROVE  Tells
    <3>1. vc # NoClock /\ id \in DOMAIN vc.vec /\ k \in Nat
      BY <2>3, NoClockIsEmpty, MaxClockAssumption DEF CallTickUntil
    <3> QED  BY <1>1, <2>3, <3>1, TickUntilKeepsMinimum DEF CallTickUntil, Inv
  <2> QED  BY <1>1, <2>1, <2>2, <2>3 DEF Next
<1>2. Inv /\ [Next]_vars => [Tells]_vars
  BY <1>1
<1> QED  BY <1>2, InvHolds, PTL DEF Spec, ResultTellsTheMinimum

\* The loop of TickUntil on the clock c: after[i] is the clock and the result
\* after i turns.
Loop(after, c, id, n) ==
  after = [i \in 0 .. n |-> IF i = 0 THEN [vc |-> c, result |-> 0]
                            ELSE Ticked(after[i - 1], id)]

\* The loop of TickUntil comes to an end.
LEMMA LoopExists ==
  ASSUME NEW c, NEW id, NEW n \in Nat
  PROVE  \E after : Loop(after, c, id, n)
<1> DEFINE Bad == {i \in Nat : ~ \E after : Loop(after, c, id, i)}
           start == [vc |-> c, result |-> 0]
<1> SUFFICES ASSUME Bad # {} PROVE FALSE
  OBVIOUS
<1>1. PICK i \in Bad : \A j \in Bad : i <= j
  <2>1. Bad \in SUBSET Nat
    OBVIOUS
  <2> HIDE DEF Bad
  <2> QED  BY <2>1, NatHasLeast
<1>2. i # 0
  <2>1. Loop([j \in 0 .. 0 |-> start], c, id, 0)
    BY DEF Loop
  <2> QED  BY <1>1, <2>1
<1>3. i - 1 \in Nat /\ i - 1 \notin Bad
  BY <1>1, <1>2
<1>4. PICK after : Loop(after, c, id, i - 1)
  BY <1>3
<1> DEFINE next == [j \in 0 .. i |-> IF j = i THEN Ticked(after[i - 1], id) ELSE after[j]]
<1>5. \A j \in 0 .. i - 1 : after[j] = IF j = 0 THEN start ELSE Ticked(after[j - 1], id)
  BY <1>4 DEF Loop
<1> HIDE DEF start
<1>6. \A j \in 0 .. i : next[j] = IF j = 0 THEN start ELSE Ticked(next[j - 1], id)
  BY <1>2, <1>3, <1>5
<1>7. next = [j \in 0 .. i |-> IF j = 0 THEN start ELSE Ticked(next[j - 1], id)]
  BY <1>6
<1>8. Loop(next, c, id, i)
  <2> HIDE DEF next
  <2> QED  BY <1>7 DEF Loop, start
<1> QED  BY <1>1, <1>8

\* After i turns the loop stands where TickUntil stands for the id's clock + i.
LEMMA LoopIsTickUntil ==
  ASSUME NEW S, NEW c \in VectorClocks(S), IsMinimum(c), NEW id \in S, NEW n \in Nat,
         NEW after, Loop(after, c, id, n)
  PROVE  after[n] = [vc |-> TickUntil(c, id, c.vec[id] + n),
                     result |-> TickUntilResult(c, id, c.vec[id] + n)]
<1> DEFINE until(i) == [vc |-> TickUntil(c, id, c.vec[id] + i),
                        result |-> TickUntilResult(c, id, c.vec[id] + i)]
           Bad == {i \in 0 .. n : after[i] # until(i)}
<1> SUFFICES ASSUME after[n] # until(n) PROVE FALSE
  OBVIOUS
<1>1. PICK i \in Bad : \A j \in Bad : i <= j
  <2>1. Bad \in SUBSET Nat /\ Bad # {}
    OBVIOUS
  <2> HIDE DEF Bad
  <2> QED  BY <2>1, NatHasLeast
<1>2. \A j \in 0 .. n : after[j] = IF j = 0 THEN [vc |-> c, result |-> 0]
                                   ELSE Ticked(after[j - 1], id)
  BY DEF Loop
<1>3. c.vec[id] \in Nat
  BY DEF VectorClocks
<1>4. i # 0
  <2>1. c.vec[id] + 0 <= c.vec[id] /\ ~ (c.vec[id] + 0 > c.vec[id])
    BY <1>3
  <2>2. until(0) = [vc |-> c, result |-> 0]
    BY <2>1 DEF TickUntil, TickUntilResult
  <2> QED  BY <1>1, <1>2, <2>2
<1>5. i - 1 \in 0 .. n /\ after[i - 1] = until(i - 1)
  BY <1>1, <1>4
<1> DEFINE k == c.vec[id] + (i - 1)
           u == TickUntil(c, id, k)
<1>6. k \in Nat /\ c.vec[id] <= k /\ k + 1 = c.vec[id] + i
  BY <1>3, <1>5
<1>7. /\ Tick(u, id) = TickUntil(c, id, k + 1)
      /\ TickUntilResult(c, id, k + 1) =
           IF TickResult(u, id) # 0 THEN TickResult(u, id) ELSE TickUntilResult(c, id, k)
  <2> HIDE DEF k
  <2> QED  BY <1>6, TickUntilStep
<1>8. after[i] = Ticked([vc |-> u, result |-> TickUntilResult(c, id, k)], id)
  BY <1>1, <1>2, <1>4, <1>5
<1>9. after[i] = [vc |-> TickUntil(c, id, k + 1), result |-> TickUntilResult(c, id, k + 1)]
  <2> HIDE DEF k, u
  <2> QED  BY <1>7, <1>8 DEF Ticked
<1>10. after[i] = until(i)
  <2> HIDE DEF k
  <2> QED  BY <1>6, <1>9
<1> QED  BY <1>1, <1>10

\* The closed form of TickUntil, which takes no turn at all, is what the loop of
\* Ticks computes, result included, for any number of turns.
THEOREM TickUntilAlwaysTicks == Spec => []TickUntilIsTicks
<1>1. Inv => TickUntilIsTicks
  <2> SUFFICES ASSUME Inv, NEW id \in DOMAIN vc.vec, NEW k \in 0 .. MaxClock
               PROVE  /\ TickUntil(vc, id, k) = TicksUntil(id, k).vc
                      /\ TickUntilResult(vc, id, k) = TicksUntil(id, k).result
    BY DEF TickUntilIsTicks
  <2> DEFINE n == IF k > vc.vec[id] THEN k - vc.vec[id] ELSE 0
             after == CHOOSE after : after = [i \in 0 .. n |->
                        IF i = 0 THEN [vc |-> vc, result |-> 0] ELSE Ticked(after[i - 1], id)]
  <2>1. vc \in VectorClocks(DOMAIN vc.vec) /\ IsMinimum(vc)
    BY NoClockIsEmpty DEF Inv
  <2>2. k \in Nat /\ vc.vec[id] \in Nat
    BY <2>1, MaxClockAssumption DEF VectorClocks
  <2>3. n \in Nat
    BY <2>2
  <2>4. TicksUntil(id, k) = after[n]
    BY DEF TicksUntil
  <2>5. Loop(after, vc, id, n)
    <3> HIDE DEF n
    <3>1. \E f : Loop(f, vc, id, n)
      BY <2>3, LoopExists
    <3>2. \E f : f = [i \in 0 .. n |-> IF i = 0 THEN [vc |-> vc, result |-> 0]
                                       ELSE Ticked(f[i - 1], id)]
      BY <3>1 DEF Loop
    <3>3. after = [i \in 0 .. n |-> IF i = 0 THEN [vc |-> vc, result |-> 0]
                                    ELSE Ticked(after[i - 1], id)]
      BY <3>2
    <3> HIDE DEF after
    <3> QED  BY <3>3 DEF Loop
  <2>6. after[n] = [vc |-> TickUntil(vc, id, vc.vec[id] + n),
                    result |-> TickUntilResult(vc, id, vc.vec[id] + n)]
    <3> HIDE DEF n, after
    <3> QED  BY <2>1, <2>3, <2>5, LoopIsTickUntil
  <2>7. CASE k > vc.vec[id]
    <3>1. vc.vec[id] + n = k
      BY <2>2, <2>7
    <3> HIDE DEF n, after
    <3> QED  BY <2>4, <2>6, <3>1
  <2>8. CASE ~ (k > vc.vec[id])
    <3>1. /\ k <= vc.vec[id] /\ vc.vec[id] + n <= vc.vec[id]
          /\ ~ (vc.vec[id] + n > vc.vec[id])
      BY <2>2, <2>8
    <3> HIDE DEF n, after
    <3>2. /\ TickUntil(vc, id, k) = vc /\ TickUntilResult(vc, id, k) = 0
          /\ TickUntil(vc, id, vc.vec[id] + n) = vc
          /\ TickUntilResult(vc, id, vc.vec[id] + n) = 0
      BY <2>8, <3>1 DEF TickUntil, TickUntilResult
    <3> QED  BY <2>4, <2>6, <3>2
  <2> QED  BY <2>7, <2>8
<1> QED  BY <1>1, InvHolds, PTL
=============================================================================
