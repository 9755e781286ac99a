------------------------- MODULE ProcessStorage_proofs -------------------------
(***************************************************************************)
(* The process cache for any capacity, any rows and any number of workers  *)
(* and threads: rows with references are not evicted, the map, the clock   *)
(* of slots and the count of rows agree, no CHECK on a row or a slot to    *)
(* fill fails, and there are rows enough to evict.                         *)
(*                                                                         *)
(* The argument, after the locks: what a worker holds is held by it alone  *)
(* (RowLocksInv, SlotLocksInv); the row it is about to evict therefore     *)
(* stays where it is, without references (VictimInv); a worker inserts     *)
(* only rows of its channel, so nobody else stores its row meanwhile       *)
(* (InsertionInv).  And after the counts: num_rows_ counts a row before it *)
(* takes a slot, so a worker that finds empty_slots_ empty finds an unused *)
(* slot above the insert hand, also if others take some first (CountInv),  *)
(* and while any worker evicts, the rows and those on their way to a place *)
(* fill the capacity.                                                      *)
(***************************************************************************)
EXTENDS ProcessStorage, FiniteSetTheorems, SequenceTheorems, TLAPS

-----------------------------------------------------------------------------
(* The invariant.                                                          *)

\* The stages of Insert at which a worker points at a slot, holds the lock of
\* the row to insert, and holds that of a slot to free.
SlotStages == {"recent", "try", "candidate", "erase", "place", "publish"}
RowLockStages == {"slot", "space", "place", "publish"}
SlotLockStages == {"candidate", "erase"}

\* A worker inserts a row of its channel that is not there; the slot it points
\* at is one of the clock's.
InsertionInv ==
  \A w \in Workers :
    /\ ~At(w, "idle") => worker[w].row \in RowsOf[w] /\ ~Stored(worker[w].row)
    /\ worker[w].pc \in SlotStages => worker[w].slot \in Slots

\* Worker w holds the lock l of a row: of the one to erase or to insert.
HoldsRow(w, l) ==
  \/ At(w, "erase") /\ l = LockIndex(Candidate(w))
  \/ worker[w].pc \in RowLockStages /\ l = LockIndex(worker[w].row)

\* The lock of a slot: of the one whose row may be evicted.
HoldsSlot(w, l) == worker[w].pc \in SlotLockStages /\ l = LockIndex(worker[w].slot)

\* What a worker holds is locked, and it alone holds it.
RowLocksInv ==
  \A w \in Workers, l \in Int : HoldsRow(w, l) =>
    l \in rowLocks /\ \A v \in Workers : HoldsRow(v, l) => v = w
SlotLocksInv ==
  \A w \in Workers, l \in Int : HoldsSlot(w, l) =>
    l \in slotLocks /\ \A v \in Workers : HoldsSlot(v, l) => v = w

\* A slot that is held to be freed is occupied; the row it is chosen for is
\* there, nobody refers to it, and nobody will as long as it is locked.
VictimInv ==
  \A w \in Workers :
    /\ worker[w].pc \in SlotLockStages => Candidate(w) # NoRow
    /\ At(w, "erase") => /\ slotOf[Candidate(w)] = worker[w].slot
                         /\ numRefs[Candidate(w)] = 0

\* The row in an occupied slot is stored there, or is about to be.
OccupantInv ==
  /\ \A r \in Rows : Stored(r) => rowIds[slotOf[r]] = r
  /\ \A s \in Slots : rowIds[s] # NoRow =>
       \/ slotOf[rowIds[s]] = s
       \/ \E w \in Workers : At(w, "publish") /\ worker[w].row = rowIds[s] /\ worker[w].slot = s
  /\ \A w \in Workers : At(w, "publish") => rowIds[worker[w].slot] = worker[w].row

\* A slot that is free to insert into is empty, has been used up to the insert
\* hand, and is offered once: to a worker or in empty_slots_.
EmptyInv ==
  /\ \A s \in Slots : s >= insertHand => rowIds[s] = NoRow
  /\ \A w \in Workers : At(w, "place") =>
       /\ worker[w].slot < insertHand /\ rowIds[worker[w].slot] = NoRow
       /\ \A v \in Workers : At(v, "place") /\ worker[v].slot = worker[w].slot => v = w
  /\ \A i \in 1 .. Len(emptySlots) :
       /\ emptySlots[i] < insertHand /\ rowIds[emptySlots[i]] = NoRow
       /\ \A j \in 1 .. Len(emptySlots) : emptySlots[j] = emptySlots[i] => j = i
       /\ \A w \in Workers : At(w, "place") => worker[w].slot # emptySlots[i]

\* How many accessors refer to row r, how many rows are stored, how many
\* workers are at one of the stages P.
References(f, r) == Cardinality({u \in Users : f[u] = r})
StoredRows(f) == {r \in Rows : f[r] # NoSlot}
Busy(f, P) == Cardinality({w \in Workers : f[w].pc \in P})

\* num_refs_ is not below the accessors of a row, and a row with accessors is
\* there.
RefsInv ==
  /\ \A r \in Rows : numRefs[r] >= References(accessor, r)
  /\ \A u \in Users : accessor[u] # NoRow => Stored(accessor[u])

\* The stages at which num_rows_ counts a row that is not stored yet.
Counted == {"evict", "lock", "slot", "space", "place", "publish"}

\* The stages of an eviction that has not ended, unless with the process.
Unended == EvictStages \cup {"aborted"}

\* num_rows_ counts the stored rows and the ones that have their place; it is
\* above the capacity only by the workers that will evict, and as long as any
\* evicts, by no less.  The slots up to the insert hand are occupied, free or
\* given out, and there is one above it for each worker that found none free.
CountInv ==
  /\ IsFiniteSet(StoredRows(slotOf))
  /\ numRows = Cardinality(StoredRows(slotOf)) + Busy(worker, Counted)
  /\ numRows <= Capacity + Busy(worker, {"evict"})
  /\ Busy(worker, Unended) > 0 => numRows = Capacity + Busy(worker, {"evict"})
  /\ insertHand = Cardinality(StoredRows(slotOf)) + Busy(worker, {"place", "publish"})
                    + Len(emptySlots)
  /\ insertHand + Busy(worker, {"space"}) <= Capacity

\* A worker's stage, row and slot, and its tries.
WorkerStates == [pc : Stages, row : Rows \cup {NoRow}, slot : Slots \cup {NoSlot},
                 tries : 0 .. MaxRounds * Capacity]

\* The types, with the bounds on the counts left out: these follow from the rest.
ShapeInv ==
  /\ numRows \in Nat
  /\ slotOf \in [Rows -> Slots \cup {NoSlot}]
  /\ numRefs \in [Rows -> Nat]
  /\ evictHand \in -MaxHand - 1 .. MaxHand /\ insertHand \in Nat
  /\ emptySlots \in Seq(Slots)
  /\ stale \in [Slots -> BOOLEAN]
  /\ rowIds \in [Slots -> Rows \cup {NoRow}]
  /\ rowLocks \subseteq 0 .. GetLockPoolSize - 1 /\ slotLocks \subseteq 0 .. GetLockPoolSize - 1
  /\ worker \in [Workers -> WorkerStates]
  /\ accessor \in [Users -> Rows \cup {NoRow}]
  /\ replies \in [Workers -> 0 .. MaxReplies] /\ finds \in [Threads -> 0 .. MaxFinds]

IInv ==
  /\ ShapeInv /\ InsertionInv /\ RowLocksInv /\ SlotLocksInv
  /\ VictimInv /\ OccupantInv /\ EmptyInv /\ RefsInv /\ CountInv

-----------------------------------------------------------------------------
(* What the actions change.                                                *)

\* Only these actions of Insert change these variables.
LEMMA InsertFrame ==
  ASSUME NEW w \in Workers, Insert(w)
  PROVE  /\ numRows' = numRows \/ CountRow(w) \/ EvictOneRow(w)
         /\ slotOf' = slotOf \/ Erase(w) \/ PublishRow(w)
         /\ numRefs' = numRefs \/ PublishRow(w)
         /\ evictHand' = evictHand \/ MoveHand(w)
         /\ insertHand' = insertHand \/ NextUnusedSlot(w)
         /\ emptySlots' = emptySlots \/ Erase(w) \/ PopEmptySlot(w)
         /\ stale' = stale \/ TestRecency(w) \/ PlaceRow(w)
         /\ rowIds' = rowIds \/ Erase(w) \/ PlaceRow(w)
         /\ rowLocks' = rowLocks \/ ChooseCandidate(w) \/ Erase(w) \/ LockRow(w) \/ PublishRow(w)
         /\ slotLocks' = slotLocks \/ LockSlot(w) \/ KeepCandidate(w) \/ Erase(w)
         /\ accessor' = accessor /\ replies' = replies /\ finds' = finds
<1> USE DEF lruVars, boundVars
<1>1. CASE CountRow(w)
  BY <1>1 DEF CountRow
<1>2. CASE EvictOneRow(w)
  BY <1>2 DEF EvictOneRow
<1>3. CASE MoveHand(w)
  BY <1>3 DEF MoveHand
<1>4. CASE TestRecency(w)
  BY <1>4 DEF TestRecency
<1>5. CASE PassSlot(w)
  BY <1>5 DEF PassSlot
<1>6. CASE LockSlot(w)
  BY <1>6 DEF LockSlot
<1>7. CASE KeepCandidate(w)
  BY <1>7 DEF KeepCandidate
<1>8. CASE ChooseCandidate(w)
  BY <1>8 DEF ChooseCandidate
<1>9. CASE Erase(w)
  BY <1>9 DEF Erase
<1>10. CASE LockRow(w)
  BY <1>10 DEF LockRow
<1>11. CASE PopEmptySlot(w)
  BY <1>11 DEF PopEmptySlot
<1>12. CASE NoEmptySlot(w)
  BY <1>12 DEF NoEmptySlot
<1>13. CASE NextUnusedSlot(w)
  BY <1>13 DEF NextUnusedSlot
<1>14. CASE PlaceRow(w)
  BY <1>14 DEF PlaceRow
<1>15. CASE PublishRow(w)
  BY <1>15 DEF PublishRow
<1>16. CASE GiveUp(w)
  BY <1>16 DEF GiveUp
<1> QED
  BY <1>1, <1>2, <1>3, <1>4, <1>5, <1>6, <1>7, <1>8,
     <1>9, <1>10, <1>11, <1>12, <1>13, <1>14, <1>15, <1>16 DEF Insert

\* The slot that an insertion gets is one of the clock's.
LEMMA NewSlotIsSlot ==
  ASSUME ShapeInv
  PROVE  /\ emptySlots # << >> => Head(emptySlots) \in Slots /\ Tail(emptySlots) \in Seq(Slots)
         /\ insertHand < Capacity => insertHand \in Slots
         /\ NoSlot \notin Slots /\ NoRow \notin Rows
<1>1. Capacity \in Nat \ {0} /\ Rows \subseteq Nat
  BY ProcessStorageAssumption DEF Rows
<1> QED  BY <1>1, HeadTailProperties DEF ShapeInv, Slots, NoSlot, NoRow

\* Insert moves its own worker, to a state of its type.
LEMMA InsertMoves ==
  ASSUME ShapeInv, InsertionInv, NEW w \in Workers, Insert(w)
  PROVE  /\ worker' \in [Workers -> WorkerStates]
         /\ \A v \in Workers : v # w => worker'[v] = worker[v]
<1>0. /\ worker \in [Workers -> WorkerStates]
      /\ MaxRounds * Capacity \in Nat
  BY ProcessStorageAssumption DEF ShapeInv
<1> USE DEF WorkerStates, Stages, GoTo, Idle
<1>1. CASE CountRow(w)
  BY <1>0, <1>1 DEF CountRow
<1>2. CASE EvictOneRow(w)
  BY <1>0, <1>2 DEF EvictOneRow
<1>3. CASE MoveHand(w)
  <2>1. worker[w].tries + 1 \in 0 .. MaxRounds * Capacity
    BY <1>0, <1>3 DEF MoveHand, TriesLeft
  <2>2. CASE HandSlot \in Slots
    <3>1. worker' = [worker EXCEPT ![w].pc = "recent", ![w].slot = HandSlot,
                                   ![w].tries = worker[w].tries + 1]
      BY <1>3, <2>2 DEF MoveHand
    <3> HIDE DEF GoTo
    <3> QED  BY <1>0, <2>1, <2>2, <3>1
  <2>3. CASE HandSlot \notin Slots
    BY <1>0, <1>3, <2>3 DEF MoveHand
  <2> QED  BY <2>2, <2>3
<1>4. CASE TestRecency(w)
  <2>1. GoTo(w, "try") \/ GoTo(w, "hand")
    BY <1>4 DEF TestRecency
  <2>2. CASE GoTo(w, "try")
    BY <1>0, <2>2
  <2>3. CASE GoTo(w, "hand")
    BY <1>0, <2>3
  <2> QED  BY <2>1, <2>2, <2>3
<1>5. CASE PassSlot(w)
  BY <1>0, <1>5 DEF PassSlot
<1>6. CASE LockSlot(w)
  <2>1. worker' = [worker EXCEPT ![w].pc = "candidate", ![w].tries = 0]
    BY <1>6 DEF LockSlot
  <2>2. 0 \in 0 .. MaxRounds * Capacity
    BY <1>0
  <2> QED  BY <1>0, <2>1, <2>2
<1>7. CASE KeepCandidate(w)
  BY <1>0, <1>7 DEF KeepCandidate
<1>8. CASE ChooseCandidate(w)
  BY <1>0, <1>8 DEF ChooseCandidate
<1>9. CASE Erase(w)
  BY <1>0, <1>9 DEF Erase
<1>10. CASE LockRow(w)
  BY <1>0, <1>10 DEF LockRow
<1>11. CASE PopEmptySlot(w)
  <2>1. Head(emptySlots) \in Slots
    BY <1>11, NewSlotIsSlot DEF PopEmptySlot
  <2>2. worker' = [worker EXCEPT ![w].pc = "place", ![w].slot = Head(emptySlots)]
    BY <1>11 DEF PopEmptySlot
  <2> QED  BY <1>0, <2>1, <2>2
<1>12. CASE NoEmptySlot(w)
  BY <1>0, <1>12 DEF NoEmptySlot
<1>13. CASE NextUnusedSlot(w)
  <2>1. insertHand \in Slots
    BY <1>13, NewSlotIsSlot DEF NextUnusedSlot
  <2>2. worker' = [worker EXCEPT ![w].pc = "place", ![w].slot = insertHand]
    BY <1>13 DEF NextUnusedSlot
  <2> QED  BY <1>0, <2>1, <2>2
<1>14. CASE PlaceRow(w)
  BY <1>0, <1>14 DEF PlaceRow
<1>15. CASE PublishRow(w)
  BY <1>0, <1>15 DEF PublishRow
<1>16. CASE GiveUp(w)
  BY <1>0, <1>16 DEF GiveUp
<1> QED
  BY <1>1, <1>2, <1>3, <1>4, <1>5, <1>6, <1>7, <1>8,
     <1>9, <1>10, <1>11, <1>12, <1>13, <1>14, <1>15, <1>16 DEF Insert

\* The stages of Insert, one after another.  A row to insert is never there, so
\* LockRow goes on.
LEMMA InsertStages ==
  ASSUME ShapeInv, InsertionInv, NEW w \in Workers, Insert(w)
  PROVE  \/ CountRow(w) /\ At(w, "count") /\ worker'[w].pc \in {"evict", "lock"}
         \/ EvictOneRow(w) /\ At(w, "evict") /\ worker'[w].pc = "hand"
         \/ MoveHand(w) /\ At(w, "hand") /\ worker'[w].pc \in {"recent", "aborted"}
         \/ GiveUp(w) /\ At(w, "hand") /\ worker'[w].pc = "aborted"
         \/ TestRecency(w) /\ At(w, "recent") /\ worker'[w].pc \in {"try", "hand"}
         \/ PassSlot(w) /\ At(w, "try") /\ worker'[w].pc = "hand"
         \/ LockSlot(w) /\ At(w, "try") /\ worker'[w].pc = "candidate"
         \/ KeepCandidate(w) /\ At(w, "candidate") /\ worker'[w].pc = "hand"
         \/ ChooseCandidate(w) /\ At(w, "candidate") /\ worker'[w].pc = "erase"
         \/ Erase(w) /\ At(w, "erase") /\ worker'[w].pc = "lock"
         \/ LockRow(w) /\ At(w, "lock") /\ worker'[w].pc = "slot"
         \/ PopEmptySlot(w) /\ At(w, "slot") /\ worker'[w].pc = "place"
         \/ NoEmptySlot(w) /\ At(w, "slot") /\ worker'[w].pc = "space"
         \/ NextUnusedSlot(w) /\ At(w, "space") /\ worker'[w].pc = "place"
         \/ PlaceRow(w) /\ At(w, "place") /\ worker'[w].pc = "publish"
         \/ PublishRow(w) /\ At(w, "publish") /\ worker'[w].pc = "idle"
<1> USE DEF ShapeInv, WorkerStates, InsertionInv, At, GoTo, Idle
<1>1. CASE CountRow(w)
  BY <1>1 DEF CountRow
<1>2. CASE EvictOneRow(w)
  BY <1>2 DEF EvictOneRow
<1>3. CASE MoveHand(w)
  <2>1. CASE HandSlot \in Slots
    <3>1. worker' = [worker EXCEPT ![w].pc = "recent", ![w].slot = HandSlot,
                                   ![w].tries = worker[w].tries + 1]
      BY <1>3, <2>1 DEF MoveHand
    <3>2. MoveHand(w) /\ At(w, "hand")
      BY <1>3 DEF MoveHand
    <3> QED  BY <3>1, <3>2
  <2>2. CASE HandSlot \notin Slots
    BY <1>3, <2>2 DEF MoveHand
  <2> QED  BY <2>1, <2>2
<1>4. CASE TestRecency(w)
  BY <1>4 DEF TestRecency
<1>5. CASE PassSlot(w)
  BY <1>5 DEF PassSlot
<1>6. CASE LockSlot(w)
  BY <1>6 DEF LockSlot
<1>7. CASE KeepCandidate(w)
  BY <1>7 DEF KeepCandidate
<1>8. CASE ChooseCandidate(w)
  BY <1>8 DEF ChooseCandidate
<1>9. CASE Erase(w)
  BY <1>9 DEF Erase
<1>10. CASE LockRow(w)
  BY <1>10 DEF LockRow
<1>11. CASE PopEmptySlot(w)
  BY <1>11 DEF PopEmptySlot
<1>12. CASE NoEmptySlot(w)
  BY <1>12 DEF NoEmptySlot
<1>13. CASE NextUnusedSlot(w)
  BY <1>13 DEF NextUnusedSlot
<1>14. CASE PlaceRow(w)
  BY <1>14 DEF PlaceRow
<1>15. CASE PublishRow(w)
  BY <1>15 DEF PublishRow
<1>16. CASE GiveUp(w)
  BY <1>16 DEF GiveUp
<1> QED
  BY <1>1, <1>2, <1>3, <1>4, <1>5, <1>6, <1>7, <1>8,
     <1>9, <1>10, <1>11, <1>12, <1>13, <1>14, <1>15, <1>16 DEF Insert

-----------------------------------------------------------------------------
(* Counting.                                                               *)

\* The workers at some stages can be counted.
LEMMA BusyIsNatural ==
  ASSUME NEW f, NEW P
  PROVE  /\ Busy(f, P) \in Nat
         /\ \A w \in Workers : f[w].pc \in P => Busy(f, P) > 0
<1> DEFINE S == {w \in Workers : f[w].pc \in P}
<1>1. IsFiniteSet(S) /\ Cardinality(S) \in Nat
  BY ProcessStorageAssumption, FS_Subset, FS_CardinalityType
<1>2. S # {} => Cardinality(S) > 0
  BY <1>1, FS_EmptySet
<1> QED  BY <1>1, <1>2 DEF Busy

\* A worker that moves changes the count by its own coming and going.
LEMMA BusyChange ==
  ASSUME NEW f, NEW g, NEW w \in Workers, \A v \in Workers : v # w => g[v] = f[v], NEW P
  PROVE  Busy(g, P) = Busy(f, P) + (IF g[w].pc \in P THEN 1 ELSE 0)
                                 - (IF f[w].pc \in P THEN 1 ELSE 0)
<1> DEFINE F == {v \in Workers : f[v].pc \in P}
           G == {v \in Workers : g[v].pc \in P}
<1>1. IsFiniteSet(F) /\ IsFiniteSet(G) /\ Cardinality(F) \in Nat /\ Cardinality(G) \in Nat
  BY ProcessStorageAssumption, FS_Subset, FS_CardinalityType
<1>2. F \ {w} = G \ {w}
  OBVIOUS
<1>3. (w \in F <=> f[w].pc \in P) /\ (w \in G <=> g[w].pc \in P)
  OBVIOUS
<1> HIDE DEF F, G
<1>4. /\ Cardinality(F \ {w}) = IF w \in F THEN Cardinality(F) - 1 ELSE Cardinality(F)
      /\ Cardinality(G \ {w}) = IF w \in G THEN Cardinality(G) - 1 ELSE Cardinality(G)
  BY <1>1, FS_RemoveElement
<1>5. /\ w \in F => Cardinality(F \ {w}) = Cardinality(F) - 1
      /\ w \notin F => Cardinality(F \ {w}) = Cardinality(F)
      /\ w \in G => Cardinality(F \ {w}) = Cardinality(G) - 1
      /\ w \notin G => Cardinality(F \ {w}) = Cardinality(G)
  BY <1>2, <1>4
<1>6. Cardinality(G) = Cardinality(F) + (IF w \in G THEN 1 ELSE 0) - (IF w \in F THEN 1 ELSE 0)
  BY <1>1, <1>5
<1> QED  BY <1>3, <1>6 DEF Busy, F, G

\* The counts of stages that differ add up.
LEMMA BusyUnion ==
  ASSUME NEW f, NEW P, NEW Q, P \cap Q = {}
  PROVE  Busy(f, P \cup Q) = Busy(f, P) + Busy(f, Q)
<1> DEFINE S(R) == {w \in Workers : f[w].pc \in R}
<1>1. IsFiniteSet(S(P)) /\ IsFiniteSet(S(Q))
  BY ProcessStorageAssumption, FS_Subset
<1>2. S(P \cup Q) = S(P) \cup S(Q) /\ S(P) \cap S(Q) = {}
  OBVIOUS
<1>3. Cardinality(S(P)) \in Nat /\ Cardinality(S(Q)) \in Nat /\ Cardinality({}) = 0
  BY <1>1, FS_CardinalityType, FS_EmptySet
<1> HIDE DEF S
<1>4. Cardinality(S(P) \cup S(Q)) =
        Cardinality(S(P)) + Cardinality(S(Q)) - Cardinality(S(P) \cap S(Q))
  BY <1>1, FS_Union
<1>5. Cardinality(S(P) \cap S(Q)) = 0
  BY <1>2, <1>3
<1>6. Cardinality(S(P) \cup S(Q)) = Cardinality(S(P)) + Cardinality(S(Q))
  BY <1>3, <1>4, <1>5
<1>7. Cardinality(S(P \cup Q)) = Cardinality(S(P)) + Cardinality(S(Q))
  BY <1>2, <1>6
<1> QED  BY <1>7 DEF Busy, S

\* Who is about to evict is evicting.
LEMMA EvictingIsUnended ==
  ASSUME NEW f
  PROVE  Busy(f, Unended) = 0 => Busy(f, {"evict"}) = 0
<1>1. Busy(f, {"evict"} \cup (Unended \ {"evict"})) = Busy(f, {"evict"}) + Busy(f, Unended \ {"evict"})
  BY BusyUnion
<1>2. {"evict"} \cup (Unended \ {"evict"}) = Unended
  BY DEF Unended, EvictStages
<1>3. Busy(f, {"evict"}) \in Nat /\ Busy(f, Unended \ {"evict"}) \in Nat
  BY BusyIsNatural
<1> QED  BY <1>1, <1>2, <1>3

\* The references to a row can be counted.
LEMMA ReferencesAreCounted ==
  ASSUME NEW f, NEW r
  PROVE  /\ References(f, r) \in Nat
         /\ \A u \in Users : f[u] = r => References(f, r) > 0
<1> DEFINE F == {v \in Users : f[v] = r}
<1>1. IsFiniteSet(Users)
  BY ProcessStorageAssumption, FS_Union DEF Users
<1>2. IsFiniteSet(F) /\ Cardinality(F) \in Nat
  BY <1>1, FS_Subset, FS_CardinalityType
<1>3. F # {} => Cardinality(F) > 0
  BY <1>2, FS_EmptySet
<1> QED  BY <1>2, <1>3 DEF References

\* An accessor that is set, or cleared, changes the counts of the row that it
\* refers to now, or did.
LEMMA ReferencesChange ==
  ASSUME NEW f, NEW u \in Users, NEW x, NEW r, 
         NEW g, g[u] = x, \A v \in Users : v # u => g[v] = f[v]
  PROVE  /\ References(f, r) \in Nat
         /\ f[u] = r => References(f, r) > 0
         /\ References(g, r) = References(f, r) + (IF x = r THEN 1 ELSE 0)
                                               - (IF f[u] = r THEN 1 ELSE 0)
<1> DEFINE F == {v \in Users : f[v] = r}
           G == {v \in Users : g[v] = r}
<1>0. IsFiniteSet(Users)
  BY ProcessStorageAssumption, FS_Union DEF Users
<1>1. IsFiniteSet(F) /\ IsFiniteSet(G) /\ Cardinality(F) \in Nat /\ Cardinality(G) \in Nat
  BY <1>0, FS_Subset, FS_CardinalityType
<1>2. F \ {u} = G \ {u}
  OBVIOUS
<1>3. (u \in F <=> f[u] = r) /\ (u \in G <=> x = r)
  OBVIOUS
<1> HIDE DEF F, G
<1>4. /\ Cardinality(F \ {u}) = IF u \in F THEN Cardinality(F) - 1 ELSE Cardinality(F)
      /\ Cardinality(G \ {u}) = IF u \in G THEN Cardinality(G) - 1 ELSE Cardinality(G)
  BY <1>1, FS_RemoveElement
<1>5. /\ u \in F => Cardinality(F \ {u}) = Cardinality(F) - 1
      /\ u \notin F => Cardinality(F \ {u}) = Cardinality(F)
      /\ u \in G => Cardinality(F \ {u}) = Cardinality(G) - 1
      /\ u \notin G => Cardinality(F \ {u}) = Cardinality(G)
  BY <1>2, <1>4
<1>6. Cardinality(G) = Cardinality(F) + (IF u \in G THEN 1 ELSE 0) - (IF u \in F THEN 1 ELSE 0)
  BY <1>1, <1>5
<1>7. u \in F => Cardinality(F) > 0
  BY <1>1, FS_EmptySet
<1> QED  BY <1>1, <1>3, <1>6, <1>7 DEF References, F, G

-----------------------------------------------------------------------------
(* Types.                                                                  *)

\* Every row and slot has a lock.
LEMMA LockIndexIsLock ==
  ASSUME NEW i \in Nat
  PROVE  LockIndex(i) \in 0 .. GetLockPoolSize - 1
<1>1. Capacity \in Nat /\ Capacity > 0
  BY ProcessStorageAssumption
<1> QED  BY <1>1 DEF LockIndex, GetLockPoolSize

\* Evicting and placing rows keeps the types.
LEMMA ShapeStep ==
  ASSUME IInv, NEW w \in Workers, Insert(w)
  PROVE  ShapeInv'
<1> USE DEF IInv
<1>1. worker' \in [Workers -> WorkerStates]
  BY InsertMoves
<1>2. numRows' \in Nat
  <2>1. CASE CountRow(w)
    BY <2>1 DEF ShapeInv, CountRow
  <2>2. CASE EvictOneRow(w)
    <3>1. worker[w].pc \in Counted
      BY <2>2 DEF EvictOneRow, At, Counted
    <3>2. Busy(worker, Counted) > 0 /\ Busy(worker, Counted) \in Nat
      BY <3>1, BusyIsNatural
    <3>3. Cardinality(StoredRows(slotOf)) \in Nat
      BY FS_CardinalityType DEF CountInv
    <3>4. numRows > 0
      BY <3>2, <3>3 DEF CountInv
    <3> QED  BY <2>2, <3>4 DEF ShapeInv, EvictOneRow
  <2> QED  BY <2>1, <2>2, InsertFrame DEF ShapeInv
<1>3. ~At(w, "idle") => worker[w].row \in Rows
  BY DEF InsertionInv, Rows
<1>4. slotOf' \in [Rows -> Slots \cup {NoSlot}]
  <2>1. CASE Erase(w)
    BY <2>1 DEF ShapeInv, Erase
  <2>2. CASE PublishRow(w)
    <3>1. worker[w].slot \in Slots \cup {NoSlot}
      BY DEF ShapeInv, WorkerStates
    <3> QED  BY <2>2, <3>1 DEF ShapeInv, PublishRow
  <2> QED  BY <2>1, <2>2, InsertFrame DEF ShapeInv
<1>5. numRefs' \in [Rows -> Nat]
  <2>1. CASE PublishRow(w)
    BY <2>1 DEF ShapeInv, PublishRow
  <2> QED  BY <2>1, InsertFrame DEF ShapeInv
<1>6. evictHand' \in -MaxHand - 1 .. MaxHand
  <2>1. CASE MoveHand(w)
    <3>1. MaxHand \in Nat /\ evictHand \in -MaxHand - 1 .. MaxHand /\ evictHand' = NextHand
      BY <2>1, ProcessStorageAssumption DEF ShapeInv, MoveHand
    <3> QED  BY <3>1 DEF NextHand
  <2> QED  BY <2>1, InsertFrame DEF ShapeInv
<1>7. insertHand' \in Nat
  <2>1. CASE NextUnusedSlot(w)
    BY <2>1 DEF ShapeInv, NextUnusedSlot
  <2> QED  BY <2>1, InsertFrame DEF ShapeInv
<1>8. emptySlots' \in Seq(Slots)
  <2>1. CASE Erase(w)
    <3>1. slotOf[Candidate(w)] \in Slots
      BY <2>1 DEF Erase, VictimInv, InsertionInv, SlotStages, At
    <3> QED  BY <2>1, <3>1, AppendProperties DEF Erase, ShapeInv
  <2>2. CASE PopEmptySlot(w)
    BY <2>2, NewSlotIsSlot DEF PopEmptySlot, ShapeInv
  <2> QED  BY <2>1, <2>2, InsertFrame DEF ShapeInv
<1>9. stale' \in [Slots -> BOOLEAN]
  <2>1. CASE TestRecency(w)
    BY <2>1 DEF TestRecency, ShapeInv
  <2>2. CASE PlaceRow(w)
    BY <2>2 DEF PlaceRow, ShapeInv
  <2> QED  BY <2>1, <2>2, InsertFrame DEF ShapeInv
<1>10. rowIds' \in [Slots -> Rows \cup {NoRow}]
  <2>1. CASE Erase(w)
    BY <2>1 DEF Erase, ShapeInv
  <2>2. CASE PlaceRow(w)
    BY <1>3, <2>2 DEF PlaceRow, ShapeInv, At
  <2> QED  BY <2>1, <2>2, InsertFrame DEF ShapeInv
<1>11. \A r \in Rows : LockIndex(r) \in 0 .. GetLockPoolSize - 1
  BY LockIndexIsLock, ProcessStorageAssumption DEF Rows
<1>12. \A s \in Slots : LockIndex(s) \in 0 .. GetLockPoolSize - 1
  BY LockIndexIsLock DEF Slots
<1>13. rowLocks' \subseteq 0 .. GetLockPoolSize - 1
  <2>1. CASE ChooseCandidate(w)
    <3>1. Candidate(w) \in Rows
      BY <2>1 DEF ChooseCandidate, VictimInv, SlotLockStages, At, Candidate, ShapeInv,
                  InsertionInv, SlotStages
    <3> QED  BY <1>11, <2>1, <3>1 DEF ChooseCandidate, ShapeInv
  <2>2. CASE Erase(w)
    BY <2>2 DEF Erase, ShapeInv
  <2>3. CASE LockRow(w)
    BY <1>3, <1>11, <2>3 DEF LockRow, ShapeInv, At
  <2>4. CASE PublishRow(w)
    BY <2>4 DEF PublishRow, ShapeInv
  <2> QED  BY <2>1, <2>2, <2>3, <2>4, InsertFrame DEF ShapeInv
<1>14. slotLocks' \subseteq 0 .. GetLockPoolSize - 1
  <2>1. CASE LockSlot(w)
    BY <1>12, <2>1 DEF LockSlot, ShapeInv, InsertionInv, SlotStages, At
  <2>2. CASE KeepCandidate(w)
    BY <2>2 DEF KeepCandidate, ShapeInv
  <2>3. CASE Erase(w)
    BY <2>3 DEF Erase, ShapeInv
  <2> QED  BY <2>1, <2>2, <2>3, InsertFrame DEF ShapeInv
<1>15. /\ accessor' \in [Users -> Rows \cup {NoRow}]
       /\ replies' \in [Workers -> 0 .. MaxReplies] /\ finds' \in [Threads -> 0 .. MaxFinds]
  BY InsertFrame DEF ShapeInv
<1> QED
  BY <1>1, <1>2, <1>4, <1>5, <1>6, <1>7, <1>8, <1>9, <1>10, <1>13, <1>14, <1>15
     DEF ShapeInv, WorkerStates

-----------------------------------------------------------------------------
(* The steps of Insert.                                                    *)

\* The row in a slot that is held to be freed.
LEMMA VictimIsRow ==
  ASSUME IInv, NEW w \in Workers, worker[w].pc \in SlotLockStages
  PROVE  /\ worker[w].slot \in Slots /\ Candidate(w) \in Rows
         /\ Candidate(w) = rowIds[worker[w].slot]
<1>1. worker[w].slot \in Slots
  BY DEF IInv, InsertionInv, SlotLockStages, SlotStages
<1> QED  BY <1>1 DEF IInv, VictimInv, ShapeInv, Candidate

\* Once it is not locked any more it is the row that is stored in that slot: no
\* other worker is about to store it.
LEMMA CandidateIsStored ==
  ASSUME IInv, NEW w \in Workers, At(w, "candidate"), RowIsFree(Candidate(w))
  PROVE  slotOf[Candidate(w)] = worker[w].slot /\ Stored(Candidate(w))
<1>1. worker[w].slot \in Slots /\ Candidate(w) \in Rows
  BY VictimIsRow DEF At, SlotLockStages
<1>2. ASSUME NEW v \in Workers, At(v, "publish"), worker[v].row = Candidate(w)
      PROVE  FALSE
  <2>1. HoldsRow(v, LockIndex(Candidate(w)))
    BY <1>2 DEF HoldsRow, RowLockStages, At
  <2>2. LockIndex(Candidate(w)) \in Int
    BY <1>1, LockIndexIsLock, ProcessStorageAssumption DEF Rows
  <2> QED  BY <2>1, <2>2 DEF IInv, RowLocksInv, RowIsFree
<1>3. slotOf[Candidate(w)] = worker[w].slot
  BY <1>1, <1>2, NewSlotIsSlot DEF IInv, OccupantInv, Candidate
<1> QED  BY <1>1, <1>3, NewSlotIsSlot DEF IInv, Stored

\* A worker inserts only rows of its own channel.
LEMMA InsertionStep ==
  ASSUME IInv, NEW w \in Workers, Insert(w)
  PROVE  InsertionInv'
<1>0. /\ emptySlots # << >> => Head(emptySlots) \in Slots
      /\ insertHand < Capacity => insertHand \in Slots
      /\ worker \in [Workers -> WorkerStates]
  BY NewSlotIsSlot DEF IInv, ShapeInv
<1>1. CASE PublishRow(w)
  <2> DEFINE r == worker[w].row
  <2>1. r \in RowsOf[w] /\ r \in Rows
    BY <1>1 DEF PublishRow, At, IInv, InsertionInv, Rows
  <2>2. ASSUME NEW v \in Workers, v # w, ~At(v, "idle")
        PROVE  worker[v].row \in RowsOf[v] /\ slotOf'[worker[v].row] = slotOf[worker[v].row]
    <3>1. worker[v].row \in RowsOf[v] /\ worker[v].row \in Rows
      BY <2>2 DEF IInv, InsertionInv, Rows
    <3>2. worker[v].row # r
      BY <2>1, <2>2, <3>1, ProcessStorageAssumption
    <3> QED  BY <1>1, <3>1, <3>2 DEF PublishRow, IInv, ShapeInv
  <2>3. worker'[w] = Idle
    BY <1>1 DEF PublishRow, IInv, ShapeInv
  <2>4. \A v \in Workers : v # w => worker'[v] = worker[v]
    BY <1>1 DEF PublishRow, IInv, ShapeInv
  <2> HIDE DEF r
  <2> QED  BY <2>2, <2>3, <2>4 DEF IInv, InsertionInv, At, Idle, Stored, SlotStages
<1>2. CASE MoveHand(w)
  <2>1. /\ worker'[w].row = worker[w].row /\ ~At(w, "idle")
        /\ worker'[w].pc = "aborted" \/ worker'[w].slot \in Slots
        /\ \A v \in Workers : v # w => worker'[v] = worker[v]
    <3>1. worker \in [Workers -> WorkerStates] /\ ~At(w, "idle")
      BY <1>2 DEF MoveHand, IInv, ShapeInv, At
    <3>2. CASE HandSlot \in Slots
      <4>1. worker' = [worker EXCEPT ![w].pc = "recent", ![w].slot = HandSlot,
                                     ![w].tries = worker[w].tries + 1]
        BY <1>2, <3>2 DEF MoveHand
      <4> QED  BY <3>1, <3>2, <4>1 DEF WorkerStates
    <3>3. CASE HandSlot \notin Slots
      BY <1>2, <3>1, <3>3 DEF MoveHand, GoTo, WorkerStates
    <3> QED  BY <3>1, <3>2, <3>3
  <2>2. slotOf' = slotOf
    BY <1>2 DEF MoveHand
  <2> QED  BY <2>1, <2>2 DEF IInv, InsertionInv, At, Stored, SlotStages
<1>12. CASE PopEmptySlot(w)
  <2>1. /\ worker' = [worker EXCEPT ![w].pc = "place", ![w].slot = Head(emptySlots)]
        /\ slotOf' = slotOf /\ worker[w].pc = "slot" /\ Head(emptySlots) \in Slots
    BY <1>0, <1>12 DEF PopEmptySlot, At
  <2>2. /\ worker'[w].row = worker[w].row /\ worker'[w].slot \in Slots
        /\ \A v \in Workers : v # w => worker'[v] = worker[v]
    BY <1>0, <2>1 DEF WorkerStates
  <2> QED  BY <2>1, <2>2 DEF IInv, InsertionInv, At, Stored, SlotStages
<1>14. CASE NextUnusedSlot(w)
  <2>1. /\ worker' = [worker EXCEPT ![w].pc = "place", ![w].slot = insertHand]
        /\ slotOf' = slotOf /\ worker[w].pc = "space" /\ insertHand \in Slots
    BY <1>0, <1>14 DEF NextUnusedSlot, At
  <2>2. /\ worker'[w].row = worker[w].row /\ worker'[w].slot \in Slots
        /\ \A v \in Workers : v # w => worker'[v] = worker[v]
    BY <1>0, <2>1 DEF WorkerStates
  <2> QED  BY <2>1, <2>2 DEF IInv, InsertionInv, At, Stored, SlotStages
<1> USE DEF IInv, InsertionInv, ShapeInv, WorkerStates, SlotStages, Stored, At, GoTo, Idle
<1>3. CASE CountRow(w)
  BY <1>3 DEF CountRow
<1>4. CASE EvictOneRow(w)
  BY <1>4 DEF EvictOneRow
<1>5. CASE TestRecency(w)
  BY <1>5 DEF TestRecency
<1>6. CASE PassSlot(w)
  BY <1>6 DEF PassSlot
<1>7. CASE LockSlot(w)
  BY <1>7 DEF LockSlot
<1>8. CASE KeepCandidate(w)
  BY <1>8 DEF KeepCandidate
<1>9. CASE ChooseCandidate(w)
  BY <1>9 DEF ChooseCandidate
<1>10. CASE Erase(w)
  BY <1>10 DEF Erase
<1>11. CASE LockRow(w)
  BY <1>11 DEF LockRow
<1>13. CASE NoEmptySlot(w)
  BY <1>13 DEF NoEmptySlot
<1>15. CASE PlaceRow(w)
  BY <1>15 DEF PlaceRow
<1>16. CASE GiveUp(w)
  BY <1>16 DEF GiveUp, lruVars
<1> QED
  BY <1>1, <1>2, <1>3, <1>4, <1>5, <1>6, <1>7, <1>8,
     <1>9, <1>10, <1>11, <1>12, <1>13, <1>14, <1>15, <1>16 DEF Insert

\* A slot that is held to be freed keeps its row as long as it is held: another
\* worker frees or fills another slot.
LEMMA VictimStays ==
  ASSUME IInv, NEW w \in Workers, Insert(w), NEW v \in Workers, v # w,
         worker[v].pc \in SlotLockStages
  PROVE  worker'[v] = worker[v] /\ Candidate(v)' = Candidate(v) /\ Candidate(v) # NoRow
<1>1. worker'[v] = worker[v]
  BY InsertMoves DEF IInv
<1>2. Candidate(v) = rowIds[worker[v].slot] /\ Candidate(v) # NoRow /\ worker[v].slot \in Slots
  BY VictimIsRow DEF IInv, VictimInv
<1>3. rowIds'[worker[v].slot] = rowIds[worker[v].slot]
  <2>1. CASE Erase(w)
    <3>1. worker[w].slot \in Slots /\ slotOf[Candidate(w)] = worker[w].slot
      BY <2>1, VictimIsRow DEF Erase, At, SlotLockStages, IInv, VictimInv
    <3>2. /\ HoldsSlot(w, LockIndex(worker[w].slot)) /\ HoldsSlot(v, LockIndex(worker[v].slot))
          /\ LockIndex(worker[w].slot) \in Int
      BY <1>2, <2>1, <3>1, LockIndexIsLock DEF Erase, At, SlotLockStages, HoldsSlot, Slots
    <3>3. worker[v].slot # worker[w].slot
      BY <3>2 DEF IInv, SlotLocksInv
    <3> QED  BY <1>2, <2>1, <3>1, <3>3 DEF Erase, IInv, ShapeInv
  <2>2. CASE PlaceRow(w)
    <3>1. rowIds[worker[w].slot] = NoRow
      BY <2>2 DEF PlaceRow, At, IInv, EmptyInv
    <3> QED  BY <1>2, <2>2, <3>1 DEF PlaceRow, IInv, ShapeInv
  <2> QED  BY <2>1, <2>2, InsertFrame
<1> QED  BY <1>1, <1>2, <1>3 DEF Candidate

\* Nobody takes the lock of a row that is held, or gives back another's.
LEMMA RowLocksStep ==
  ASSUME IInv, NEW w \in Workers, Insert(w)
  PROVE  RowLocksInv'
<1>1. \A v \in Workers, l \in Int : v # w => (HoldsRow(v, l)' <=> HoldsRow(v, l))
  <2> SUFFICES ASSUME NEW v \in Workers, v # w, NEW l \in Int
               PROVE  HoldsRow(v, l)' <=> HoldsRow(v, l)
    OBVIOUS
  <2>1. worker'[v] = worker[v]
    BY InsertMoves DEF IInv
  <2>2. At(v, "erase") => Candidate(v)' = Candidate(v)
    BY VictimStays DEF At, SlotLockStages
  <2> QED  BY <2>1, <2>2 DEF HoldsRow, At, RowLockStages
<1>2. ASSUME NEW l \in Int, HoldsRow(w, l)'
      PROVE  l \in rowLocks' /\ (HoldsRow(w, l) \/ l \notin rowLocks)
  <2>1. worker'[w].pc = "erase" \/ worker'[w].pc \in RowLockStages
    BY <1>2 DEF HoldsRow, At
  <2>2. CASE ChooseCandidate(w)
    <3>1. /\ worker'[w].pc = "erase" /\ Candidate(w)' = Candidate(w)
          /\ rowLocks' = rowLocks \cup {LockIndex(Candidate(w))}
          /\ LockIndex(Candidate(w)) \notin rowLocks
      BY <2>2 DEF ChooseCandidate, GoTo, IInv, ShapeInv, Candidate, RowIsFree, lruVars
    <3> QED  BY <1>2, <3>1 DEF HoldsRow, At, RowLockStages
  <2>3. CASE LockRow(w)
    <3>1. /\ worker'[w].pc = "slot" /\ worker'[w].row = worker[w].row
          /\ rowLocks' = rowLocks \cup {LockIndex(worker[w].row)}
          /\ LockIndex(worker[w].row) \notin rowLocks
      BY <2>3 DEF LockRow, At, IInv, ShapeInv, InsertionInv, RowIsFree
    <3> QED  BY <1>2, <3>1 DEF HoldsRow, At, RowLockStages
  <2>4. CASE PopEmptySlot(w) \/ NoEmptySlot(w) \/ NextUnusedSlot(w) \/ PlaceRow(w)
    <3>1. /\ worker[w].pc \in RowLockStages /\ worker'[w].pc \in RowLockStages
          /\ worker'[w].row = worker[w].row /\ rowLocks' = rowLocks
      BY <2>4 DEF PopEmptySlot, NoEmptySlot, NextUnusedSlot, PlaceRow, GoTo, At, RowLockStages,
                  IInv, ShapeInv, WorkerStates
    <3>2. HoldsRow(w, l)
      BY <1>2, <3>1 DEF HoldsRow, At, RowLockStages
    <3> QED  BY <3>1, <3>2 DEF IInv, RowLocksInv
  <2> QED  BY <2>1, <2>2, <2>3, <2>4, InsertStages DEF IInv, RowLockStages
<1>3. ASSUME NEW v \in Workers, v # w, NEW l \in Int, HoldsRow(v, l)
      PROVE  l \in rowLocks'
  <2>1. l \in rowLocks /\ ~HoldsRow(w, l)
    BY <1>3 DEF IInv, RowLocksInv
  <2>2. CASE Erase(w)
    BY <2>1, <2>2 DEF Erase, HoldsRow, IInv, ShapeInv
  <2>3. CASE PublishRow(w)
    BY <2>1, <2>3 DEF PublishRow, HoldsRow, RowLockStages, At, IInv, ShapeInv
  <2>4. CASE ChooseCandidate(w) \/ LockRow(w)
    BY <2>1, <2>4 DEF ChooseCandidate, LockRow
  <2> QED  BY <2>1, <2>2, <2>3, <2>4, InsertFrame
<1>4. \A v \in Workers, l \in Int : HoldsRow(v, l)' => l \in rowLocks'
  BY <1>1, <1>2, <1>3
<1>5. ASSUME NEW v \in Workers, NEW u \in Workers, NEW l \in Int, HoldsRow(v, l)', HoldsRow(u, l)'
      PROVE  v = u
  BY <1>1, <1>2, <1>5 DEF IInv, RowLocksInv
<1> QED  BY <1>4, <1>5 DEF RowLocksInv

\* Nor that of a slot.
LEMMA SlotLocksStep ==
  ASSUME IInv, NEW w \in Workers, Insert(w)
  PROVE  SlotLocksInv'
<1>1. \A v \in Workers, l \in Int : v # w => (HoldsSlot(v, l)' <=> HoldsSlot(v, l))
  BY InsertMoves DEF IInv, HoldsSlot, SlotLockStages
<1>2. ASSUME NEW l \in Int, HoldsSlot(w, l)'
      PROVE  l \in slotLocks' /\ (HoldsSlot(w, l) \/ l \notin slotLocks)
  <2>1. worker'[w].pc \in SlotLockStages
    BY <1>2 DEF HoldsSlot
  <2>2. CASE LockSlot(w)
    BY <1>2, <2>2 DEF LockSlot, HoldsSlot, GoTo, SlotIsFree, IInv, ShapeInv
  <2>3. CASE ChooseCandidate(w)
    <3>1. /\ At(w, "candidate") /\ worker'[w].slot = worker[w].slot /\ slotLocks' = slotLocks
      BY <2>3 DEF ChooseCandidate, GoTo, lruVars, IInv, ShapeInv
    <3>2. HoldsSlot(w, l)
      BY <1>2, <3>1 DEF HoldsSlot, At, SlotLockStages
    <3> QED  BY <3>1, <3>2 DEF IInv, SlotLocksInv
  <2> QED  BY <2>1, <2>2, <2>3, InsertStages DEF IInv, SlotLockStages
<1>3. ASSUME NEW v \in Workers, v # w, NEW l \in Int, HoldsSlot(v, l)
      PROVE  l \in slotLocks'
  <2>1. l \in slotLocks /\ ~HoldsSlot(w, l)
    BY <1>3 DEF IInv, SlotLocksInv
  <2>2. CASE Erase(w)
    <3>1. slotOf[Candidate(w)] = worker[w].slot
      BY <2>2 DEF Erase, IInv, VictimInv
    <3> QED  BY <2>1, <2>2, <3>1 DEF Erase, HoldsSlot, SlotLockStages, At, IInv, ShapeInv
  <2>3. CASE KeepCandidate(w)
    <3>1. slotOf[Candidate(w)] = worker[w].slot
      BY <2>3, CandidateIsStored DEF KeepCandidate
    <3> QED  BY <2>1, <2>3, <3>1 DEF KeepCandidate, HoldsSlot, SlotLockStages, At, IInv, ShapeInv
  <2>4. CASE LockSlot(w)
    BY <2>1, <2>4 DEF LockSlot
  <2> QED  BY <2>1, <2>2, <2>3, <2>4, InsertFrame
<1>4. \A v \in Workers, l \in Int : HoldsSlot(v, l)' => l \in slotLocks'
  BY <1>1, <1>2, <1>3
<1>5. ASSUME NEW v \in Workers, NEW u \in Workers, NEW l \in Int, HoldsSlot(v, l)', HoldsSlot(u, l)'
      PROVE  v = u
  BY <1>1, <1>2, <1>5 DEF IInv, SlotLocksInv
<1> QED  BY <1>4, <1>5 DEF SlotLocksInv

\* A row that is chosen stays there, and nobody else refers to it.
LEMMA VictimStep ==
  ASSUME IInv, NEW w \in Workers, Insert(w)
  PROVE  VictimInv'
<1>1. ASSUME NEW v \in Workers, v # w, At(v, "erase")
      PROVE  /\ slotOf'[Candidate(v)] = slotOf[Candidate(v)]
             /\ numRefs'[Candidate(v)] = numRefs[Candidate(v)]
  <2>1. worker[v].slot \in Slots /\ Candidate(v) \in Rows /\ slotOf[Candidate(v)] = worker[v].slot
    BY <1>1, VictimIsRow DEF At, SlotLockStages, IInv, VictimInv
  <2>2. CASE Erase(w)
    <3>1. Candidate(w) \in Rows
      BY <2>2, VictimIsRow DEF Erase, At, SlotLockStages
    <3>2. /\ HoldsRow(w, LockIndex(Candidate(w))) /\ HoldsRow(v, LockIndex(Candidate(v)))
          /\ LockIndex(Candidate(w)) \in Int
      BY <1>1, <2>1, <2>2, <3>1, LockIndexIsLock, ProcessStorageAssumption DEF Erase, HoldsRow, Rows
    <3>3. Candidate(v) # Candidate(w)
      BY <1>1, <3>2 DEF IInv, RowLocksInv
    <3> QED  BY <2>1, <2>2, <3>3 DEF Erase, IInv, ShapeInv
  <2>3. CASE PublishRow(w)
    <3>1. Candidate(v) # worker[w].row
      BY <2>1, <2>3, NewSlotIsSlot DEF PublishRow, At, IInv, InsertionInv, Stored
    <3> QED  BY <2>1, <2>3, <3>1 DEF PublishRow, IInv, ShapeInv
  <2> QED  BY <2>2, <2>3, InsertFrame
<1>2. ASSUME NEW v \in Workers, v # w
      PROVE  /\ worker'[v].pc \in SlotLockStages => Candidate(v)' # NoRow
             /\ worker'[v].pc = "erase" => /\ slotOf'[Candidate(v)'] = worker'[v].slot
                                           /\ numRefs'[Candidate(v)'] = 0
  <2>1. worker'[v] = worker[v]
    BY <1>2, InsertMoves DEF IInv
  <2>2. worker[v].pc \in SlotLockStages => Candidate(v)' = Candidate(v) /\ Candidate(v) # NoRow
    BY <1>2, VictimStays
  <2> QED  BY <1>1, <1>2, <2>1, <2>2 DEF IInv, VictimInv, SlotLockStages, At
<1>3. /\ worker'[w].pc \in SlotLockStages => Candidate(w)' # NoRow
      /\ worker'[w].pc = "erase" => /\ slotOf'[Candidate(w)'] = worker'[w].slot
                                    /\ numRefs'[Candidate(w)'] = 0
  <2>1. CASE LockSlot(w)
    BY <2>1 DEF LockSlot, GoTo, Candidate, IInv, ShapeInv
  <2>2. CASE ChooseCandidate(w)
    <3>1. /\ At(w, "candidate") /\ RowIsFree(Candidate(w)) /\ numRefs[Candidate(w)] = 0
          /\ worker'[w].slot = worker[w].slot /\ Candidate(w)' = Candidate(w)
          /\ slotOf' = slotOf /\ numRefs' = numRefs
      BY <2>2 DEF ChooseCandidate, GoTo, Candidate, lruVars, IInv, ShapeInv
    <3>2. slotOf[Candidate(w)] = worker[w].slot /\ Candidate(w) # NoRow
      BY <3>1, CandidateIsStored DEF IInv, VictimInv, At, SlotLockStages
    <3> QED  BY <3>1, <3>2
  <2> QED  BY <2>1, <2>2, InsertStages DEF IInv, SlotLockStages
<1> QED  BY <1>2, <1>3 DEF VictimInv, At

\* The row in an occupied slot is stored there, or is about to be.
LEMMA OccupantStep ==
  ASSUME IInv, NEW w \in Workers, Insert(w)
  PROVE  OccupantInv'
<1>1. \A v \in Workers : v # w => worker'[v] = worker[v]
  BY InsertMoves DEF IInv
<1>2. CASE Erase(w)
  <2> DEFINE r == Candidate(w)
             s == worker[w].slot
  <2>1. r \in Rows /\ s \in Slots /\ rowIds[s] = r /\ slotOf[r] = s
    BY <1>2, VictimIsRow DEF Erase, At, SlotLockStages, IInv, VictimInv
  <2>2. slotOf' = [slotOf EXCEPT ![r] = NoSlot] /\ rowIds' = [rowIds EXCEPT ![s] = NoRow]
    BY <1>2, <2>1 DEF Erase
  <2>3. worker'[w].pc = "lock"
    BY <1>2 DEF Erase, GoTo, IInv, ShapeInv
  <2> HIDE DEF r, s
  <2>4. ASSUME NEW x \in Rows, slotOf'[x] # NoSlot
        PROVE  rowIds'[slotOf'[x]] = x
    <3>1. x # r /\ slotOf'[x] = slotOf[x] /\ slotOf[x] \in Slots /\ rowIds[slotOf[x]] = x
      BY <2>1, <2>2, <2>4 DEF IInv, ShapeInv, OccupantInv, Stored
    <3> QED  BY <2>1, <2>2, <3>1 DEF IInv, ShapeInv
  <2>5. ASSUME NEW y \in Slots, rowIds'[y] # NoRow
        PROVE  \/ slotOf'[rowIds'[y]] = y
               \/ \E v \in Workers : /\ worker'[v].pc = "publish" /\ worker'[v].row = rowIds'[y]
                                     /\ worker'[v].slot = y
    <3>1. y # s /\ rowIds'[y] = rowIds[y] /\ rowIds[y] \in Rows
      BY <2>1, <2>2, <2>5 DEF IInv, ShapeInv
    <3>2. CASE slotOf[rowIds[y]] = y
      BY <2>1, <2>2, <3>1, <3>2 DEF IInv, ShapeInv
    <3>3. CASE slotOf[rowIds[y]] # y
      <4>1. PICK v \in Workers : At(v, "publish") /\ worker[v].row = rowIds[y] /\ worker[v].slot = y
        BY <3>1, <3>3, <2>5 DEF IInv, OccupantInv
      <4>2. v # w
        BY <1>2, <4>1 DEF Erase, At
      <4> QED  BY <1>1, <3>1, <4>1, <4>2 DEF At
    <3> QED  BY <3>2, <3>3
  <2>6. ASSUME NEW v \in Workers, worker'[v].pc = "publish"
        PROVE  rowIds'[worker'[v].slot] = worker'[v].row
    <3>1. v # w /\ worker'[v] = worker[v] /\ At(v, "publish")
      BY <1>1, <2>3, <2>6 DEF At
    <3>2. /\ rowIds[worker[v].slot] = worker[v].row /\ worker[v].slot \in Slots
          /\ slotOf[worker[v].row] = NoSlot
      BY <3>1 DEF At, IInv, OccupantInv, InsertionInv, SlotStages, Stored
    <3>3. worker[v].slot # s
      BY <2>1, <3>2, NewSlotIsSlot DEF IInv
    <3> QED  BY <2>1, <2>2, <3>1, <3>2, <3>3 DEF IInv, ShapeInv
  <2> QED  BY <2>4, <2>5, <2>6 DEF OccupantInv, Stored, At
<1>3. CASE PlaceRow(w)
  <2> DEFINE r == worker[w].row
             s == worker[w].slot
  <2>1. /\ r \in Rows /\ s \in Slots /\ rowIds[s] = NoRow /\ slotOf' = slotOf
        /\ rowIds' = [rowIds EXCEPT ![s] = r]
        /\ worker'[w].pc = "publish" /\ worker'[w].row = r /\ worker'[w].slot = s
    <3>1. At(w, "place") /\ r \in RowsOf[w] /\ s \in Slots /\ rowIds[s] = NoRow
      BY <1>3 DEF PlaceRow, At, IInv, InsertionInv, EmptyInv, SlotStages
    <3>2. worker'[w].pc = "publish" /\ worker'[w].row = r /\ worker'[w].slot = s
      BY <1>3 DEF PlaceRow, GoTo, IInv, ShapeInv
    <3> QED  BY <1>3, <3>1, <3>2 DEF PlaceRow, Rows
  <2>2. ~At(w, "publish")
    BY <1>3 DEF PlaceRow, At
  <2> HIDE DEF r, s
  <2>3. \A x \in Rows : slotOf'[x] # NoSlot => rowIds'[slotOf'[x]] = x
    BY <2>1, NewSlotIsSlot DEF IInv, ShapeInv, OccupantInv, Stored
  <2>4. ASSUME NEW y \in Slots, rowIds'[y] # NoRow
        PROVE  \/ slotOf'[rowIds'[y]] = y
               \/ \E v \in Workers : /\ worker'[v].pc = "publish" /\ worker'[v].row = rowIds'[y]
                                     /\ worker'[v].slot = y
    <3>1. CASE y = s
      BY <2>1, <3>1 DEF IInv, ShapeInv
    <3>2. CASE y # s
      <4>1. rowIds'[y] = rowIds[y]
        BY <2>1, <3>2 DEF IInv, ShapeInv
      <4> QED  BY <1>1, <2>1, <2>2, <2>4, <4>1 DEF IInv, OccupantInv, At
    <3> QED  BY <3>1, <3>2
  <2>5. ASSUME NEW v \in Workers, v # w, worker'[v].pc = "publish"
        PROVE  rowIds'[worker'[v].slot] = worker'[v].row
    <3>1. /\ rowIds[worker[v].slot] = worker[v].row /\ worker[v].slot \in Slots
          /\ worker[v].row \in Rows /\ worker'[v] = worker[v]
      BY <1>1, <2>5 DEF At, IInv, OccupantInv, InsertionInv, SlotStages, Rows
    <3>2. worker[v].slot # s
      BY <2>1, <3>1, NewSlotIsSlot DEF IInv
    <3> QED  BY <2>1, <3>1, <3>2 DEF IInv, ShapeInv
  <2>6. rowIds'[worker'[w].slot] = worker'[w].row
    BY <2>1 DEF IInv, ShapeInv
  <2> QED  BY <2>3, <2>4, <2>5, <2>6 DEF OccupantInv, Stored, At
<1>4. CASE PublishRow(w)
  <2> DEFINE r == worker[w].row
             s == worker[w].slot
  <2>1. /\ r \in Rows /\ s \in Slots /\ rowIds[s] = r /\ slotOf[r] = NoSlot /\ rowIds' = rowIds
        /\ slotOf' = [slotOf EXCEPT ![r] = s] /\ worker'[w].pc = "idle"
    <3>1. At(w, "publish") /\ r \in RowsOf[w] /\ s \in Slots /\ rowIds[s] = r /\ ~Stored(r)
      BY <1>4 DEF PublishRow, At, IInv, InsertionInv, OccupantInv, SlotStages
    <3>2. worker'[w].pc = "idle"
      BY <1>4 DEF PublishRow, Idle, IInv, ShapeInv
    <3> QED  BY <1>4, <3>1, <3>2 DEF PublishRow, Rows, Stored, lruVars
  <2> HIDE DEF r, s
  <2>3. \A x \in Rows : slotOf'[x] # NoSlot => rowIds'[slotOf'[x]] = x
    BY <2>1 DEF IInv, ShapeInv, OccupantInv, Stored
  <2>4. ASSUME NEW y \in Slots, rowIds'[y] # NoRow
        PROVE  \/ slotOf'[rowIds'[y]] = y
               \/ \E v \in Workers : /\ worker'[v].pc = "publish" /\ worker'[v].row = rowIds'[y]
                                     /\ worker'[v].slot = y
    <3>1. rowIds[y] # NoRow /\ rowIds[y] \in Rows
      BY <2>1, <2>4 DEF IInv, ShapeInv
    <3>2. CASE slotOf[rowIds[y]] = y
      BY <2>1, <3>1, <3>2, NewSlotIsSlot DEF IInv, ShapeInv
    <3>3. CASE slotOf[rowIds[y]] # y
      <4>1. PICK v \in Workers : At(v, "publish") /\ worker[v].row = rowIds[y] /\ worker[v].slot = y
        BY <3>1, <3>3 DEF IInv, OccupantInv
      <4>2. CASE v = w
        BY <2>1, <4>1, <4>2 DEF IInv, ShapeInv, r, s
      <4>3. CASE v # w
        BY <1>1, <2>1, <4>1, <4>3 DEF At
      <4> QED  BY <4>2, <4>3
    <3> QED  BY <3>2, <3>3
  <2>5. \A v \in Workers : worker'[v].pc = "publish" => rowIds'[worker'[v].slot] = worker'[v].row
    BY <1>1, <2>1 DEF At, IInv, OccupantInv
  <2> QED  BY <2>3, <2>4, <2>5 DEF OccupantInv, Stored, At
<1>5. CASE ~Erase(w) /\ ~PlaceRow(w) /\ ~PublishRow(w)
  <2>1. slotOf' = slotOf /\ rowIds' = rowIds
    BY <1>5, InsertFrame
  <2>2. worker[w].pc # "publish" /\ worker'[w].pc # "publish"
    BY <1>5, InsertStages DEF IInv, At
  <2> QED  BY <1>1, <2>1, <2>2 DEF IInv, OccupantInv, Stored, At
<1> QED  BY <1>2, <1>3, <1>4, <1>5

\* Only free slots are given out, each to one worker.
LEMMA EmptyStep ==
  ASSUME IInv, NEW w \in Workers, Insert(w)
  PROVE  EmptyInv'
<1> DEFINE n == Len(emptySlots)
<1>1. \A v \in Workers : v # w => worker'[v] = worker[v]
  BY InsertMoves DEF IInv
<1>2. n \in Nat /\ (\A i \in 1 .. n : emptySlots[i] \in Slots) /\ insertHand \in Nat
  BY LenProperties, ElementOfSeq DEF IInv, ShapeInv
<1>3. \A v \in Workers : At(v, "place") => worker[v].slot \in Slots
  BY DEF IInv, InsertionInv, SlotStages, At
<1>4. \A s \in Slots : s \in Nat
  BY DEF Slots
<1>5. CASE Erase(w)
  <2> DEFINE s == worker[w].slot
  <2>1. s \in Slots /\ rowIds[s] # NoRow /\ slotOf[Candidate(w)] = s
    BY <1>5, VictimIsRow DEF Erase, At, SlotLockStages, IInv, VictimInv
  <2>2. /\ rowIds' = [rowIds EXCEPT ![s] = NoRow] /\ emptySlots' = Append(emptySlots, s)
        /\ insertHand' = insertHand /\ worker'[w].pc = "lock"
    BY <1>5, <2>1 DEF Erase, GoTo, IInv, ShapeInv
  <2> HIDE DEF s
  <2>3. s < insertHand
    BY <1>2, <1>4, <2>1 DEF IInv, EmptyInv
  <2>4. /\ Len(emptySlots') = n + 1
        /\ \A i \in 1 .. n : emptySlots'[i] = emptySlots[i]
        /\ emptySlots'[n + 1] = s
    BY <2>1, <2>2, AppendProperties DEF IInv, ShapeInv
  <2>5. \A y \in Slots : rowIds'[y] = IF y = s THEN NoRow ELSE rowIds[y]
    BY <2>2 DEF IInv, ShapeInv
  <2>6. \A y \in Slots : y >= insertHand' => rowIds'[y] = NoRow
    BY <2>2, <2>5 DEF IInv, EmptyInv
  <2>7. ASSUME NEW v \in Workers, worker'[v].pc = "place"
        PROVE  /\ v # w /\ worker'[v] = worker[v] /\ At(v, "place") /\ worker[v].slot # s
               /\ worker'[v].slot < insertHand' /\ rowIds'[worker'[v].slot] = NoRow
    <3>1. v # w /\ worker'[v] = worker[v] /\ At(v, "place")
      BY <1>1, <2>2, <2>7 DEF At
    <3>2. worker[v].slot < insertHand /\ rowIds[worker[v].slot] = NoRow
      BY <3>1 DEF IInv, EmptyInv
    <3> QED  BY <1>3, <2>1, <2>2, <2>5, <3>1, <3>2
  <2>8. ASSUME NEW v \in Workers, worker'[v].pc = "place",
               NEW u \in Workers, worker'[u].pc = "place", worker'[u].slot = worker'[v].slot
        PROVE  u = v
    BY <2>7, <2>8 DEF IInv, EmptyInv
  <2>9. ASSUME NEW i \in 1 .. n + 1
        PROVE  /\ emptySlots'[i] < insertHand' /\ rowIds'[emptySlots'[i]] = NoRow
               /\ \A j \in 1 .. n + 1 : emptySlots'[j] = emptySlots'[i] => j = i
               /\ \A v \in Workers : worker'[v].pc = "place" => worker'[v].slot # emptySlots'[i]
    <3>1. \A j \in 1 .. n : emptySlots[j] # s
      BY <2>1 DEF IInv, EmptyInv
    <3>2. CASE i \in 1 .. n
      <4>1. /\ emptySlots[i] < insertHand /\ rowIds[emptySlots[i]] = NoRow
            /\ \A j \in 1 .. n : emptySlots[j] = emptySlots[i] => j = i
            /\ \A v \in Workers : At(v, "place") => worker[v].slot # emptySlots[i]
        BY <3>2 DEF IInv, EmptyInv
      <4>2. emptySlots[i] \in Slots /\ emptySlots'[i] = emptySlots[i] /\ emptySlots[i] # s
        BY <1>2, <2>4, <3>1, <3>2
      <4>3. \A j \in 1 .. n + 1 : emptySlots'[j] = emptySlots'[i] => j = i
        BY <1>2, <2>4, <4>1, <4>2
      <4> QED  BY <2>2, <2>5, <2>7, <4>1, <4>2, <4>3
    <3>3. CASE i = n + 1
      <4>1. emptySlots'[i] = s
        BY <2>4, <3>3
      <4>2. \A j \in 1 .. n + 1 : emptySlots'[j] = s => j = i
        BY <1>2, <2>4, <3>1, <3>3
      <4> QED  BY <2>1, <2>2, <2>3, <2>5, <2>7, <4>1, <4>2
    <3> QED  BY <1>2, <3>2, <3>3
  <2> QED  BY <2>4, <2>6, <2>7, <2>8, <2>9 DEF EmptyInv, At
<1>6. CASE PopEmptySlot(w)
  <2>1. /\ emptySlots # << >> /\ emptySlots' = Tail(emptySlots) /\ rowIds' = rowIds
        /\ insertHand' = insertHand
        /\ worker'[w].pc = "place" /\ worker'[w].slot = Head(emptySlots)
    BY <1>6 DEF PopEmptySlot, IInv, ShapeInv
  <2>2. n > 0 /\ Head(emptySlots) = emptySlots[1]
    BY <1>2, <2>1, EmptySeq DEF IInv, ShapeInv
  <2>3. Len(emptySlots') = n - 1 /\ \A i \in 1 .. n - 1 : emptySlots'[i] = emptySlots[i + 1]
    BY <2>1, HeadTailProperties DEF IInv, ShapeInv
  <2>4. \A v \in Workers : v # w => /\ At(v, "place")' <=> At(v, "place")
                                    /\ worker'[v].slot = worker[v].slot
    BY <1>1 DEF At
  <2>5. /\ emptySlots[1] < insertHand /\ rowIds[emptySlots[1]] = NoRow
        /\ \A j \in 1 .. n : emptySlots[j] = emptySlots[1] => j = 1
        /\ \A v \in Workers : At(v, "place") => worker[v].slot # emptySlots[1]
    BY <1>2, <2>2 DEF IInv, EmptyInv
  <2>6. \A v \in Workers : At(v, "place")' =>
          /\ worker'[v].slot < insertHand' /\ rowIds'[worker'[v].slot] = NoRow
          /\ \A u \in Workers : At(u, "place")' /\ worker'[u].slot = worker'[v].slot => u = v
    BY <2>1, <2>2, <2>4, <2>5 DEF IInv, EmptyInv
  <2>7. ASSUME NEW i \in 1 .. n - 1
        PROVE  /\ emptySlots'[i] < insertHand' /\ rowIds'[emptySlots'[i]] = NoRow
               /\ \A j \in 1 .. n - 1 : emptySlots'[j] = emptySlots'[i] => j = i
               /\ \A v \in Workers : At(v, "place")' => worker'[v].slot # emptySlots'[i]
    <3>1. i + 1 \in 1 .. n /\ i + 1 # 1 /\ emptySlots'[i] = emptySlots[i + 1]
      BY <1>2, <2>3
    <3>2. /\ emptySlots[i + 1] < insertHand /\ rowIds[emptySlots[i + 1]] = NoRow
          /\ \A j \in 1 .. n : emptySlots[j] = emptySlots[i + 1] => j = i + 1
          /\ \A v \in Workers : At(v, "place") => worker[v].slot # emptySlots[i + 1]
      BY <3>1 DEF IInv, EmptyInv
    <3>3. \A j \in 1 .. n - 1 : emptySlots'[j] = emptySlots'[i] => j = i
      BY <1>2, <2>3, <3>1, <3>2
    <3>4. emptySlots[i + 1] # emptySlots[1]
      BY <2>5, <3>1
    <3>5. \A v \in Workers : At(v, "place")' => worker'[v].slot # emptySlots'[i]
      BY <2>1, <2>2, <2>4, <3>1, <3>2, <3>4
    <3> QED  BY <2>1, <3>1, <3>2, <3>3, <3>5
  <2>8. \A y \in Slots : y >= insertHand' => rowIds'[y] = NoRow
    BY <2>1 DEF IInv, EmptyInv
  <2> QED  BY <2>3, <2>6, <2>7, <2>8 DEF EmptyInv
<1>7. CASE NextUnusedSlot(w)
  <2>1. /\ emptySlots' = emptySlots /\ rowIds' = rowIds /\ insertHand' = insertHand + 1
        /\ insertHand \in Slots
        /\ worker'[w].pc = "place" /\ worker'[w].slot = insertHand
    BY <1>7, NewSlotIsSlot DEF NextUnusedSlot, IInv, ShapeInv
  <2>2. \A v \in Workers : v # w => /\ At(v, "place")' <=> At(v, "place")
                                    /\ worker'[v].slot = worker[v].slot
    BY <1>1 DEF At
  <2>3. rowIds[insertHand] = NoRow
    BY <1>2, <2>1 DEF IInv, EmptyInv
  <2>4. \A y \in Slots : y >= insertHand' => rowIds'[y] = NoRow
    BY <1>2, <1>4, <2>1 DEF IInv, EmptyInv
  <2>5. ASSUME NEW v \in Workers, At(v, "place"), v # w
        PROVE  /\ worker[v].slot < insertHand /\ rowIds[worker[v].slot] = NoRow
               /\ worker[v].slot \in Nat
    BY <1>3, <1>4, <2>5 DEF IInv, EmptyInv
  <2>6. ASSUME NEW v \in Workers, At(v, "place")'
        PROVE  /\ worker'[v].slot < insertHand' /\ rowIds'[worker'[v].slot] = NoRow
               /\ \A u \in Workers : At(u, "place")' /\ worker'[u].slot = worker'[v].slot => u = v
    <3>1. CASE v = w
      BY <1>2, <2>1, <2>2, <2>3, <2>5, <3>1
    <3>2. CASE v # w
      <4>1. At(v, "place") /\ worker'[v].slot = worker[v].slot
        BY <2>2, <2>6, <3>2
      <4>2. worker[v].slot # insertHand /\ worker[v].slot < insertHand + 1
        BY <1>2, <2>5, <3>2, <4>1
      <4> QED  BY <2>1, <2>2, <2>5, <3>2, <4>1, <4>2 DEF IInv, EmptyInv
    <3> QED  BY <3>1, <3>2
  <2>7. ASSUME NEW i \in 1 .. n
        PROVE  /\ emptySlots[i] < insertHand' /\ rowIds[emptySlots[i]] = NoRow
               /\ \A j \in 1 .. n : emptySlots[j] = emptySlots[i] => j = i
               /\ \A v \in Workers : At(v, "place")' => worker'[v].slot # emptySlots[i]
    <3>1. /\ emptySlots[i] < insertHand /\ rowIds[emptySlots[i]] = NoRow
          /\ \A j \in 1 .. n : emptySlots[j] = emptySlots[i] => j = i
          /\ \A v \in Workers : At(v, "place") => worker[v].slot # emptySlots[i]
      BY DEF IInv, EmptyInv
    <3>2. emptySlots[i] \in Nat /\ emptySlots[i] # insertHand /\ emptySlots[i] < insertHand + 1
      BY <1>2, <1>4, <3>1
    <3> QED  BY <2>1, <2>2, <3>1, <3>2
  <2> QED  BY <2>1, <2>4, <2>6, <2>7 DEF EmptyInv
<1>8. CASE PlaceRow(w)
  <2> DEFINE s == worker[w].slot
  <2>1. /\ emptySlots' = emptySlots /\ insertHand' = insertHand
        /\ s \in Slots /\ s < insertHand /\ s \in Nat /\ At(w, "place")
        /\ worker'[w].pc = "publish"
    BY <1>3, <1>4, <1>8 DEF PlaceRow, At, GoTo, IInv, ShapeInv, EmptyInv
  <2>2. \A y \in Slots : y # s => rowIds'[y] = rowIds[y]
    BY <1>8 DEF PlaceRow, IInv, ShapeInv
  <2> HIDE DEF s
  <2>3. \A v \in Workers : At(v, "place")' =>
          /\ v # w /\ worker'[v] = worker[v] /\ At(v, "place") /\ worker[v].slot # s
    BY <1>1, <2>1 DEF At, IInv, EmptyInv, s
  <2>4. \A i \in 1 .. n : emptySlots[i] # s
    BY <2>1 DEF IInv, EmptyInv, s
  <2>5. \A y \in Slots : y >= insertHand' => rowIds'[y] = NoRow
    BY <1>2, <1>4, <2>1, <2>2 DEF IInv, EmptyInv
  <2>6. \A v \in Workers : At(v, "place")' =>
          /\ worker'[v].slot < insertHand' /\ rowIds'[worker'[v].slot] = NoRow
          /\ \A u \in Workers : At(u, "place")' /\ worker'[u].slot = worker'[v].slot => u = v
    <3> SUFFICES ASSUME NEW v \in Workers, At(v, "place")'
                 PROVE  /\ worker'[v].slot < insertHand' /\ rowIds'[worker'[v].slot] = NoRow
                        /\ \A u \in Workers :
                             At(u, "place")' /\ worker'[u].slot = worker'[v].slot => u = v
      OBVIOUS
    <3>1. /\ worker[v].slot < insertHand /\ rowIds[worker[v].slot] = NoRow
          /\ \A u \in Workers : At(u, "place") /\ worker[u].slot = worker[v].slot => u = v
      BY <2>3 DEF IInv, EmptyInv
    <3>2. worker'[v] = worker[v] /\ rowIds'[worker[v].slot] = rowIds[worker[v].slot]
      BY <1>3, <2>2, <2>3
    <3> QED  BY <2>1, <2>3, <3>1, <3>2
  <2>7. \A i \in 1 .. n :
          /\ emptySlots[i] < insertHand /\ rowIds'[emptySlots[i]] = NoRow
          /\ \A j \in 1 .. n : emptySlots[j] = emptySlots[i] => j = i
          /\ \A v \in Workers : At(v, "place")' => worker'[v].slot # emptySlots[i]
    BY <1>2, <2>2, <2>3, <2>4 DEF IInv, EmptyInv
  <2> QED  BY <2>1, <2>5, <2>6, <2>7 DEF EmptyInv
<1>9. CASE ~Erase(w) /\ ~PopEmptySlot(w) /\ ~NextUnusedSlot(w) /\ ~PlaceRow(w)
  <2>1. emptySlots' = emptySlots /\ rowIds' = rowIds /\ insertHand' = insertHand
    BY <1>9, InsertFrame
  <2>2. worker'[w].pc # "place"
    BY <1>9, InsertStages DEF IInv, At
  <2> QED  BY <1>1, <2>1, <2>2 DEF IInv, EmptyInv, At
<1> QED  BY <1>5, <1>6, <1>7, <1>8, <1>9

\* A row that is evicted has no accessor, and neither has one that comes in.
LEMMA RefsStep ==
  ASSUME IInv, NEW w \in Workers, Insert(w)
  PROVE  RefsInv'
<1>1. accessor' = accessor
  BY InsertFrame
<1>2. \A r \in Rows : References(accessor, r) = 0 => \A u \in Users : accessor[u] # r
  BY ReferencesAreCounted
<1>3. CASE Erase(w)
  <2>1. /\ Candidate(w) \in Rows /\ numRefs[Candidate(w)] = 0
        /\ slotOf' = [slotOf EXCEPT ![Candidate(w)] = NoSlot] /\ numRefs' = numRefs
    BY <1>3, VictimIsRow DEF Erase, At, SlotLockStages, IInv, VictimInv
  <2>2. \A u \in Users : accessor[u] # Candidate(w)
    <3>1. 0 >= References(accessor, Candidate(w)) /\ References(accessor, Candidate(w)) \in Nat
      BY <2>1, ReferencesAreCounted DEF IInv, RefsInv
    <3> QED  BY <1>2, <2>1, <3>1
  <2>3. ASSUME NEW u \in Users, accessor[u] # NoRow
        PROVE  slotOf'[accessor[u]] # NoSlot
    BY <2>1, <2>2, <2>3 DEF IInv, RefsInv, ShapeInv, Stored
  <2> QED  BY <1>1, <2>1, <2>3 DEF IInv, RefsInv, Stored
<1>4. CASE PublishRow(w)
  <2> DEFINE r == worker[w].row
  <2>1. r \in Rows /\ slotOf[r] = NoSlot /\ worker[w].slot \in Slots
    BY <1>4 DEF PublishRow, At, IInv, InsertionInv, SlotStages, Rows, Stored
  <2>2. slotOf' = [slotOf EXCEPT ![r] = worker[w].slot] /\ numRefs' = [numRefs EXCEPT ![r] = 0]
    BY <1>4 DEF PublishRow
  <2> HIDE DEF r
  <2>3. {u \in Users : accessor[u] = r} = {}
    BY <2>1, NewSlotIsSlot DEF IInv, RefsInv, Stored
  <2>4. References(accessor, r) = 0
    BY <2>3, FS_EmptySet DEF References
  <2>5. \A x \in Rows : numRefs'[x] >= References(accessor, x)
    BY <2>2, <2>4 DEF IInv, RefsInv, ShapeInv
  <2>6. \A u \in Users : accessor[u] # NoRow => slotOf'[accessor[u]] # NoSlot
    BY <2>1, <2>2, NewSlotIsSlot DEF IInv, RefsInv, ShapeInv, Stored
  <2> QED  BY <1>1, <2>5, <2>6 DEF RefsInv, Stored
<1>5. CASE ~Erase(w) /\ ~PublishRow(w)
  <2>1. slotOf' = slotOf /\ numRefs' = numRefs
    BY <1>5, InsertFrame
  <2> QED  BY <1>1, <2>1 DEF IInv, RefsInv, Stored
<1> QED  BY <1>3, <1>4, <1>5

\* Rows and slots are counted before they come and go.
LEMMA CountStep ==
  ASSUME IInv, NEW w \in Workers, Insert(w)
  PROVE  CountInv'
<1> DEFINE old == worker[w].pc
           new == worker'[w].pc
           n == Cardinality(StoredRows(slotOf))
           m == Cardinality(StoredRows(slotOf'))
<1>1. ASSUME NEW P
      PROVE  Busy(worker', P) = Busy(worker, P) + (IF new \in P THEN 1 ELSE 0)
                                                - (IF old \in P THEN 1 ELSE 0)
  <2>1. \A v \in Workers : v # w => worker'[v] = worker[v]
    BY InsertMoves DEF IInv
  <2> QED  BY <2>1, BusyChange
<1>2. /\ IsFiniteSet(StoredRows(slotOf)) /\ n \in Nat /\ Len(emptySlots) \in Nat
      /\ insertHand \in Nat /\ numRows \in Nat /\ Capacity \in Nat
  BY FS_CardinalityType, LenProperties, ProcessStorageAssumption DEF IInv, CountInv, ShapeInv
<1> HIDE DEF n, m, old, new
\* The counts, before and after, of workers with a counted row, about to evict,
\* evicting, with a slot and without one.
<1> DEFINE Counts(g, c, e, h, p, k) ==
             /\ c = Busy(g, Counted) /\ e = Busy(g, {"evict"}) /\ h = Busy(g, Unended)
             /\ p = Busy(g, {"place", "publish"}) /\ k = Busy(g, {"space"})
<1>3. PICK c \in Nat, e \in Nat, h \in Nat, p \in Nat, k \in Nat : Counts(worker, c, e, h, p, k)
  BY BusyIsNatural
<1>4. PICK c1 \in Nat, e1 \in Nat, h1 \in Nat, p1 \in Nat, k1 \in Nat :
        Counts(worker', c1, e1, h1, p1, k1)
  BY BusyIsNatural
<1>5. /\ numRows = n + c /\ numRows <= Capacity + e /\ (h > 0 => numRows = Capacity + e)
      /\ insertHand = n + p + Len(emptySlots) /\ insertHand + k <= Capacity
  BY <1>3 DEF IInv, CountInv, n
<1> DEFINE Moves(P, x, y) == /\ (new \in P <=> old \in P) => y = x
                             /\ new \in P /\ old \notin P => y = x + 1
                             /\ new \notin P /\ old \in P => x = y + 1
<1>6. /\ Moves(Counted, c, c1) /\ Moves({"evict"}, e, e1) /\ Moves(Unended, h, h1)
       /\ Moves({"place", "publish"}, p, p1) /\ Moves({"space"}, k, k1)
  <2>1. ASSUME NEW P, NEW x \in Nat, NEW y \in Nat, x = Busy(worker, P), y = Busy(worker', P)
        PROVE  Moves(P, x, y)
    BY <1>1, <2>1
  <2> HIDE DEF Moves
  <2> QED  BY <1>3, <1>4, <2>1
<1> DEFINE Right(numRows1, m1, insertHand1, len1) ==
             /\ numRows1 = m1 + c1 /\ numRows1 <= Capacity + e1
             /\ h1 > 0 => numRows1 = Capacity + e1
             /\ insertHand1 = m1 + p1 + len1 /\ insertHand1 + k1 <= Capacity
<1>7. ASSUME IsFiniteSet(StoredRows(slotOf')), Right(numRows', m, insertHand', Len(emptySlots'))
       PROVE  CountInv'
  BY <1>4, <1>7 DEF CountInv, m
<1> HIDE DEF Counts
<1>8. CASE CountRow(w)
  <2>1. /\ old = "count" /\ new \in {"evict", "lock"} /\ numRows' = numRows + 1
        /\ IF new = "lock" THEN numRows + 1 <= Capacity ELSE numRows + 1 > Capacity
    BY <1>2, <1>8 DEF CountRow, GoTo, At, IInv, ShapeInv, old, new
  <2>2. slotOf' = slotOf /\ insertHand' = insertHand /\ emptySlots' = emptySlots /\ m = n
    BY <1>8 DEF CountRow, lruVars, m, n
  <2>3. c1 = c + 1 /\ p1 = p /\ k1 = k
    BY <1>6, <2>1 DEF Counted
  <2>4. CASE new = "evict"
    <3>1. e1 = e + 1
      BY <1>6, <2>1, <2>4
    <3>2. h = 0 => e = 0
      BY <1>3, EvictingIsUnended DEF Counts
    <3> QED  BY <1>2, <1>5, <1>7, <2>1, <2>2, <2>3, <2>4, <3>1, <3>2
  <2>5. CASE new = "lock"
    <3>1. e1 = e /\ h1 = h
      BY <1>6, <2>1, <2>5 DEF Unended, EvictStages
    <3> QED  BY <1>2, <1>5, <1>7, <2>1, <2>2, <2>3, <2>5, <3>1
  <2> QED  BY <2>1, <2>4, <2>5
<1>9. CASE EvictOneRow(w)
  <2>1. old = "evict" /\ new = "hand" /\ numRows' = numRows - 1
    BY <1>9 DEF EvictOneRow, GoTo, At, IInv, ShapeInv, old, new
  <2>2. slotOf' = slotOf /\ insertHand' = insertHand /\ emptySlots' = emptySlots /\ m = n
    BY <1>9 DEF EvictOneRow, lruVars, m, n
  <2>3. c = c1 + 1 /\ e = e1 + 1 /\ h1 = h /\ p1 = p /\ k1 = k
    BY <1>6, <2>1 DEF Counted, Unended, EvictStages
  <2> QED  BY <1>2, <1>5, <1>7, <2>1, <2>2, <2>3
<1>10. CASE Erase(w)
  <2> DEFINE r == Candidate(w)
             s == worker[w].slot
  <2>1. r \in Rows /\ slotOf[r] = s /\ s \in Slots
    BY <1>10, VictimIsRow DEF Erase, At, SlotLockStages, IInv, VictimInv
  <2>2. /\ slotOf' = [slotOf EXCEPT ![r] = NoSlot] /\ insertHand' = insertHand
        /\ emptySlots' = Append(emptySlots, s) /\ numRows' = numRows
        /\ old = "erase" /\ new = "lock"
    BY <1>10, <2>1 DEF Erase, GoTo, At, IInv, ShapeInv, old, new
  <2> HIDE DEF r, s
  <2>3. StoredRows(slotOf') = StoredRows(slotOf) \ {r} /\ r \in StoredRows(slotOf)
    BY <2>1, <2>2, NewSlotIsSlot DEF StoredRows, IInv, ShapeInv
  <2>4. IsFiniteSet(StoredRows(slotOf')) /\ m = n - 1
    BY <1>2, <2>3, FS_RemoveElement DEF m, n
  <2>5. Len(emptySlots') = Len(emptySlots) + 1
    BY <2>1, <2>2, AppendProperties DEF IInv, ShapeInv
  <2>6. c1 = c + 1 /\ e1 = e /\ h = h1 + 1 /\ p1 = p /\ k1 = k
    BY <1>6, <2>2 DEF Counted, Unended, EvictStages
  <2> QED  BY <1>2, <1>5, <1>7, <2>2, <2>4, <2>5, <2>6
<1>11. CASE PopEmptySlot(w)
  <2>1. /\ emptySlots # << >> /\ emptySlots' = Tail(emptySlots) /\ insertHand' = insertHand
        /\ slotOf' = slotOf /\ m = n /\ numRows' = numRows
        /\ old = "slot" /\ new = "place"
    BY <1>11 DEF PopEmptySlot, At, IInv, ShapeInv, old, new, m, n
  <2>2. Len(emptySlots') = Len(emptySlots) - 1
    BY <2>1, HeadTailProperties DEF IInv, ShapeInv
  <2>3. c1 = c /\ e1 = e /\ h1 = h /\ p1 = p + 1 /\ k1 = k
    BY <1>6, <2>1 DEF Counted, Unended, EvictStages
  <2> QED  BY <1>2, <1>5, <1>7, <2>1, <2>2, <2>3
<1>12. CASE NoEmptySlot(w)
  <2>1. /\ emptySlots = << >> /\ emptySlots' = emptySlots /\ insertHand' = insertHand
        /\ slotOf' = slotOf /\ m = n /\ numRows' = numRows
        /\ old = "slot" /\ new = "space"
    BY <1>12 DEF NoEmptySlot, GoTo, At, lruVars, IInv, ShapeInv, old, new, m, n
  <2>2. Len(emptySlots) = 0
    BY <2>1
  <2>3. c1 = c /\ e1 = e /\ h1 = h /\ p1 = p /\ k1 = k + 1
    BY <1>6, <2>1 DEF Counted, Unended, EvictStages
  <2>4. PICK q \in Nat : q = Busy(worker, {"lock", "slot"}) /\ q > 0
    BY <2>1, BusyIsNatural DEF old
  <2>5. c = e + (p + (k + q))
    <3>1. Busy(worker, {"space"} \cup {"lock", "slot"}) =
            Busy(worker, {"space"}) + Busy(worker, {"lock", "slot"})
      BY BusyUnion
    <3>2. Busy(worker, {"place", "publish"} \cup ({"space"} \cup {"lock", "slot"})) =
            Busy(worker, {"place", "publish"}) + Busy(worker, {"space"} \cup {"lock", "slot"})
      BY BusyUnion
    <3>3. Busy(worker, {"evict"} \cup
                         ({"place", "publish"} \cup ({"space"} \cup {"lock", "slot"}))) =
            Busy(worker, {"evict"})
              + Busy(worker, {"place", "publish"} \cup ({"space"} \cup {"lock", "slot"}))
      BY BusyUnion
    <3>4. Counted = {"evict"} \cup ({"place", "publish"} \cup ({"space"} \cup {"lock", "slot"}))
      BY DEF Counted
    <3> QED  BY <1>3, <2>4, <3>1, <3>2, <3>3, <3>4 DEF Counts
  <2>6. n + p + k + 1 <= Capacity
    <3>1. n + c <= Capacity + e
      BY <1>5
    <3> QED  BY <1>2, <2>4, <2>5, <3>1
  <2> QED  BY <1>2, <1>5, <1>7, <2>1, <2>2, <2>3, <2>6
<1>13. CASE NextUnusedSlot(w)
  <2>1. /\ emptySlots' = emptySlots /\ insertHand' = insertHand + 1
        /\ slotOf' = slotOf /\ m = n /\ numRows' = numRows
        /\ old = "space" /\ new = "place"
    BY <1>13 DEF NextUnusedSlot, At, IInv, ShapeInv, old, new, m, n
  <2>2. c1 = c /\ e1 = e /\ h1 = h /\ p1 = p + 1 /\ k = k1 + 1
    BY <1>6, <2>1 DEF Counted, Unended, EvictStages
  <2> QED  BY <1>2, <1>5, <1>7, <2>1, <2>2
<1>14. CASE PublishRow(w)
  <2> DEFINE r == worker[w].row
             s == worker[w].slot
  <2>1. r \in Rows /\ slotOf[r] = NoSlot /\ s \in Slots
    BY <1>14 DEF PublishRow, At, IInv, InsertionInv, SlotStages, Rows, Stored
  <2>2. /\ slotOf' = [slotOf EXCEPT ![r] = s] /\ insertHand' = insertHand
        /\ emptySlots' = emptySlots /\ numRows' = numRows
        /\ old = "publish" /\ new = "idle"
    BY <1>14 DEF PublishRow, Idle, lruVars, At, IInv, ShapeInv, old, new
  <2> HIDE DEF r, s
  <2>3. StoredRows(slotOf') = StoredRows(slotOf) \cup {r} /\ r \notin StoredRows(slotOf)
    BY <2>1, <2>2, NewSlotIsSlot DEF StoredRows, IInv, ShapeInv
  <2>4. IsFiniteSet(StoredRows(slotOf')) /\ m = n + 1
    BY <1>2, <2>3, FS_AddElement DEF m, n
  <2>5. c = c1 + 1 /\ e1 = e /\ h1 = h /\ p = p1 + 1 /\ k1 = k
    BY <1>6, <2>2 DEF Counted, Unended, EvictStages
  <2> QED  BY <1>2, <1>5, <1>7, <2>2, <2>4, <2>5
<1>15. CASE /\ ~CountRow(w) /\ ~EvictOneRow(w) /\ ~Erase(w) /\ ~PopEmptySlot(w)
            /\ ~NoEmptySlot(w) /\ ~NextUnusedSlot(w) /\ ~PublishRow(w)
  <2>1. /\ emptySlots' = emptySlots /\ insertHand' = insertHand
        /\ slotOf' = slotOf /\ m = n /\ numRows' = numRows
    BY <1>15, InsertFrame DEF m, n
  <2>2. \/ {old, new} \subseteq {"hand", "recent", "try", "candidate", "erase", "aborted"}
        \/ old = "lock" /\ new = "slot"
        \/ old = "place" /\ new = "publish"
    BY <1>15, InsertStages DEF IInv, At, old, new
  <2>3. c1 = c /\ e1 = e /\ h1 = h /\ p1 = p /\ k1 = k
    BY <1>6, <2>2 DEF Counted, Unended, EvictStages
  <2> QED  BY <1>2, <1>5, <1>7, <2>1, <2>3
<1> QED
  BY <1>8, <1>9, <1>10, <1>11, <1>12, <1>13, <1>14, <1>15

-----------------------------------------------------------------------------
(* The steps outside Insert.                                               *)

\* Finding a row and referring to it, for a thread or a worker; a reference that
\* the accessor had before is lost.
LEMMA FindStep ==
  ASSUME IInv, NEW u \in Users, NEW r \in Rows, Find(u, r),
         UNCHANGED <<numRows, slotOf, evictHand, insertHand, emptySlots, rowIds, slotLocks,
                     rowLocks, worker>>,
         replies' \in [Workers -> 0 .. MaxReplies], finds' \in [Threads -> 0 .. MaxFinds]
  PROVE  IInv'
<1>1. ShapeInv'
  <2>1. /\ accessor' = [accessor EXCEPT ![u] = r] /\ numRefs' = [numRefs EXCEPT ![r] = @ + 1]
        /\ stale' = [stale EXCEPT ![slotOf[r]] = FALSE]
    BY DEF Find
  <2>2. /\ accessor' \in [Users -> Rows \cup {NoRow}] /\ numRefs' \in [Rows -> Nat]
        /\ stale' \in [Slots -> BOOLEAN]
    <3>1. numRefs' \in [Rows -> Nat]
      BY <2>1 DEF IInv, ShapeInv
    <3>2. stale' \in [Slots -> BOOLEAN]
      BY <2>1 DEF IInv, ShapeInv
    <3> QED  BY <2>1, <3>1, <3>2 DEF IInv, ShapeInv
  <2> QED  BY <2>2 DEF IInv, ShapeInv
<1>2. InsertionInv' /\ OccupantInv' /\ EmptyInv' /\ CountInv'
  BY DEF IInv, InsertionInv, OccupantInv, EmptyInv, CountInv, At, Stored
<1>3. RowLocksInv' /\ SlotLocksInv'
  BY DEF IInv, RowLocksInv, SlotLocksInv, HoldsRow, HoldsSlot, At, Candidate
<1>4. VictimInv'
  <2>1. ASSUME NEW w \in Workers, At(w, "erase")
        PROVE  numRefs'[Candidate(w)] = numRefs[Candidate(w)]
    <3>1. Candidate(w) \in Rows /\ HoldsRow(w, LockIndex(Candidate(w)))
      BY <2>1, VictimIsRow DEF At, SlotLockStages, HoldsRow
    <3>2. LockIndex(Candidate(w)) \in rowLocks
      BY <3>1, LockIndexIsLock, ProcessStorageAssumption DEF IInv, RowLocksInv, Rows
    <3>3. Candidate(w) # r
      BY <3>2 DEF Find, RowIsFree
    <3> QED  BY <3>1, <3>3 DEF Find, IInv, ShapeInv
  <2> QED  BY <2>1 DEF IInv, VictimInv, At, Candidate
<1>5. RefsInv'
  <2>1. /\ accessor' = [accessor EXCEPT ![u] = r] /\ numRefs' = [numRefs EXCEPT ![r] = @ + 1]
        /\ Stored(r) /\ slotOf' = slotOf
    BY DEF Find
  <2>2. accessor'[u] = r /\ \A v \in Users : v # u => accessor'[v] = accessor[v]
    BY <2>1 DEF IInv, ShapeInv
  <2>3. \A x \in Rows : /\ References(accessor, x) \in Nat
                        /\ References(accessor', x) = References(accessor, x)
                             + (IF r = x THEN 1 ELSE 0) - (IF accessor[u] = x THEN 1 ELSE 0)
    BY <2>2, ReferencesChange
  <2>4. \A x \in Rows : numRefs'[x] = IF x = r THEN numRefs[r] + 1 ELSE numRefs[x]
    BY <2>1 DEF IInv, ShapeInv
  <2>5. \A x \in Rows : numRefs[x] \in Nat /\ numRefs[x] >= References(accessor, x)
    BY DEF IInv, RefsInv, ShapeInv
  <2>6. \A x \in Rows : numRefs'[x] >= References(accessor', x)
    BY <2>3, <2>4, <2>5
  <2> QED  BY <2>1, <2>2, <2>6 DEF IInv, RefsInv, Stored
<1> QED  BY <1>1, <1>2, <1>3, <1>4, <1>5 DEF IInv

\* A worker that does not find the row begins to insert it.
LEMMA MissStep ==
  ASSUME IInv, NEW w \in Workers, NEW r \in Rows, WorkerMiss(w, r)
  PROVE  IInv'
<1>1. /\ worker'[w].pc = "count" /\ worker'[w].row = r /\ worker[w].pc = "idle"
      /\ \A v \in Workers : v # w => worker'[v] = worker[v]
      /\ worker' \in [Workers -> WorkerStates]
  <2> DEFINE new == [Idle EXCEPT !.pc = "count", !.row = r]
  <2>1. MaxRounds * Capacity \in Nat
    BY ProcessStorageAssumption
  <2>2. new \in WorkerStates /\ new.pc = "count" /\ new.row = r
    <3>1. Idle \in WorkerStates /\ "count" \in Stages
      BY <2>1 DEF Idle, WorkerStates, Stages
    <3> QED  BY <3>1 DEF WorkerStates
  <2>3. worker' = [worker EXCEPT ![w] = [Idle EXCEPT !.pc = "count", !.row = r]]
    BY DEF WorkerMiss
  <2>4. worker[w].pc = "idle"
    BY DEF WorkerMiss, At
  <2>5. worker' = [worker EXCEPT ![w] = new]
    BY <2>3
  <2> HIDE DEF new
  <2> QED  BY <2>2, <2>4, <2>5 DEF IInv, ShapeInv
<1>2. /\ numRows' = numRows /\ slotOf' = slotOf /\ numRefs' = numRefs /\ rowLocks' = rowLocks
      /\ evictHand' = evictHand /\ insertHand' = insertHand /\ emptySlots' = emptySlots
      /\ stale' = stale /\ rowIds' = rowIds /\ slotLocks' = slotLocks /\ accessor' = accessor
      /\ finds' = finds /\ replies' = [replies EXCEPT ![w] = @ + 1] /\ replies[w] < MaxReplies
      /\ r \in RowsOf[w] /\ ~Stored(r)
  BY DEF WorkerMiss, lruVars
<1>3. ShapeInv'
  <2>1. replies' \in [Workers -> 0 .. MaxReplies]
    BY <1>2, ProcessStorageAssumption DEF IInv, ShapeInv
  <2> QED  BY <1>1, <1>2, <2>1 DEF IInv, ShapeInv, WorkerStates
<1>4. InsertionInv'
  BY <1>1, <1>2 DEF IInv, InsertionInv, At, Stored, SlotStages
<1>5. RowLocksInv' /\ SlotLocksInv'
  <2>1. \A v \in Workers, l \in Int : /\ HoldsRow(v, l)' => HoldsRow(v, l)
                                      /\ HoldsSlot(v, l)' => HoldsSlot(v, l)
    BY <1>1, <1>2 DEF HoldsRow, HoldsSlot, At, Candidate, RowLockStages, SlotLockStages
  <2> QED  BY <1>2, <2>1 DEF IInv, RowLocksInv, SlotLocksInv
<1>6. VictimInv'
  BY <1>1, <1>2 DEF IInv, VictimInv, At, Candidate, SlotLockStages
<1>7. OccupantInv'
  BY <1>1, <1>2 DEF IInv, OccupantInv, At, Stored
<1>8. EmptyInv'
  BY <1>1, <1>2 DEF IInv, EmptyInv, At
<1>9. RefsInv'
  BY <1>2 DEF IInv, RefsInv, Stored
<1>10. CountInv'
  <2>1. ASSUME NEW P, "idle" \notin P, "count" \notin P
        PROVE  Busy(worker', P) = Busy(worker, P)
    BY <1>1, <2>1, BusyIsNatural, BusyChange
  <2>2. /\ Busy(worker', Counted) = Busy(worker, Counted)
        /\ Busy(worker', {"evict"}) = Busy(worker, {"evict"})
        /\ Busy(worker', Unended) = Busy(worker, Unended)
        /\ Busy(worker', {"place", "publish"}) = Busy(worker, {"place", "publish"})
        /\ Busy(worker', {"space"}) = Busy(worker, {"space"})
    BY <2>1 DEF Counted, Unended, EvictStages
  <2> QED  BY <1>2, <2>2 DEF IInv, CountInv
<1> QED  BY <1>3, <1>4, <1>5, <1>6, <1>7, <1>8, <1>9, <1>10 DEF IInv

\* An accessor that goes gives back its own reference.
LEMMA ReleaseStep ==
  ASSUME IInv, NEW u \in Users, Release(u)
  PROVE  IInv'
<1> DEFINE r == accessor[u]
<1>1. r \in Rows /\ r # NoRow
  BY DEF Release, IInv, ShapeInv
<1>2. /\ numRefs' = [numRefs EXCEPT ![r] = @ - 1] /\ accessor' = [accessor EXCEPT ![u] = NoRow]
      /\ UNCHANGED <<numRows, slotOf, evictHand, insertHand, emptySlots, stale, rowIds, slotLocks,
                     rowLocks, worker, replies, finds>>
  BY DEF Release, lruVars, boundVars
<1> HIDE DEF r
<1>3. accessor'[u] = NoRow /\ \A v \in Users : v # u => accessor'[v] = accessor[v]
  BY <1>2 DEF IInv, ShapeInv
<1>4. \A x \in Rows : /\ References(accessor, x) \in Nat
                      /\ r = x => References(accessor, x) > 0
                      /\ References(accessor', x) = References(accessor, x)
                             + (IF NoRow = x THEN 1 ELSE 0) - (IF r = x THEN 1 ELSE 0)
  BY <1>3, ReferencesChange DEF r
<1>5. numRefs[r] > 0 /\ numRefs[r] \in Nat
  BY <1>1, <1>4 DEF IInv, RefsInv, ShapeInv
<1>6. ShapeInv'
  BY <1>1, <1>2, <1>5 DEF IInv, ShapeInv
<1>7. InsertionInv' /\ OccupantInv' /\ EmptyInv' /\ CountInv'
  BY <1>2 DEF IInv, InsertionInv, OccupantInv, EmptyInv, CountInv, At, Stored
<1>8. RowLocksInv' /\ SlotLocksInv'
  BY <1>2 DEF IInv, RowLocksInv, SlotLocksInv, HoldsRow, HoldsSlot, At, Candidate
<1>9. VictimInv'
  <2>1. \A x \in Rows : numRefs[x] = 0 => numRefs'[x] = 0
    BY <1>1, <1>2, <1>5 DEF IInv, ShapeInv
  <2>2. \A w \in Workers : At(w, "erase") => Candidate(w) \in Rows
    BY VictimIsRow DEF At, SlotLockStages
  <2> QED  BY <1>2, <2>1, <2>2 DEF IInv, VictimInv, At, Candidate
<1>10. RefsInv'
  <2>1. \A x \in Rows : numRefs'[x] = IF x = r THEN numRefs[r] - 1 ELSE numRefs[x]
    BY <1>1, <1>2 DEF IInv, ShapeInv
  <2>2. \A x \in Rows : NoRow # x /\ numRefs[x] \in Nat /\ numRefs[x] >= References(accessor, x)
    BY NewSlotIsSlot DEF IInv, RefsInv, ShapeInv
  <2>3. \A x \in Rows : numRefs'[x] >= References(accessor', x)
    BY <1>4, <2>1, <2>2
  <2> QED  BY <1>2, <1>3, <2>3 DEF IInv, RefsInv, Stored
<1> QED  BY <1>6, <1>7, <1>8, <1>9, <1>10 DEF IInv

-----------------------------------------------------------------------------
(* The theorems.                                                           *)

\* The invariant holds at the start ...
LEMMA InitEstablishes == Init => IInv
<1> SUFFICES ASSUME Init PROVE IInv
  OBVIOUS
<1>1. /\ Capacity \in Nat \ {0} /\ MaxReplies \in Nat /\ MaxFinds \in Nat
      /\ MaxHand \in Nat /\ MaxRounds * Capacity \in Nat
  BY ProcessStorageAssumption
<1>2. ShapeInv
  BY <1>1 DEF Init, ShapeInv, WorkerStates, Idle, Stages, Slots
<1>3. \A w \in Workers : worker[w].pc = "idle"
  BY DEF Init, Idle
<1>4. InsertionInv /\ RowLocksInv /\ SlotLocksInv /\ VictimInv
  BY <1>3 DEF InsertionInv, RowLocksInv, SlotLocksInv, VictimInv, HoldsRow, HoldsSlot, At,
              SlotStages, RowLockStages, SlotLockStages
<1>5. OccupantInv /\ EmptyInv
  BY <1>3 DEF Init, OccupantInv, EmptyInv, Stored, At
<1>6. RefsInv
  <2>1. \A r \in Rows : {u \in Users : accessor[u] = r} = {}
    BY <1>2, NewSlotIsSlot DEF Init
  <2>2. \A r \in Rows : References(accessor, r) = 0 /\ numRefs[r] = 0
    BY <2>1, FS_EmptySet DEF Init, References
  <2> QED  BY <2>2 DEF Init, RefsInv
<1>7. CountInv
  <2>1. StoredRows(slotOf) = {}
    BY DEF Init, StoredRows
  <2>2. ASSUME NEW P, "idle" \notin P PROVE Busy(worker, P) = 0
    <3>1. {w \in Workers : worker[w].pc \in P} = {}
      BY <1>3, <2>2
    <3> QED  BY <3>1, FS_EmptySet DEF Busy
  <2>3. /\ Busy(worker, Counted) = 0 /\ Busy(worker, {"evict"}) = 0 /\ Busy(worker, Unended) = 0
        /\ Busy(worker, {"place", "publish"}) = 0 /\ Busy(worker, {"space"}) = 0
    BY <2>2 DEF Counted, Unended, EvictStages
  <2>4. numRows = 0 /\ insertHand = 0 /\ Len(emptySlots) = 0
    BY DEF Init
  <2> QED  BY <1>1, <2>1, <2>3, <2>4, FS_EmptySet DEF CountInv
<1> QED  BY <1>2, <1>4, <1>5, <1>6, <1>7 DEF IInv

\* ... and every step keeps it.
LEMMA StepKeeps ==
  ASSUME IInv, [Next]_vars
  PROVE  IInv'
<1>1. ASSUME NEW w \in Workers, Insert(w) PROVE IInv'
  BY <1>1, ShapeStep, InsertionStep, RowLocksStep, SlotLocksStep, VictimStep, OccupantStep,
     EmptyStep, RefsStep, CountStep DEF IInv
<1>2. ASSUME NEW w \in Workers, NEW r \in Rows, WorkerFind(w, r) PROVE IInv'
  <2>1. replies' \in [Workers -> 0 .. MaxReplies] /\ finds' \in [Threads -> 0 .. MaxFinds]
    BY <1>2, ProcessStorageAssumption DEF WorkerFind, IInv, ShapeInv
  <2>2. w \in Users /\ Find(w, r)
    BY <1>2 DEF WorkerFind, Users
  <2> QED  BY <1>2, <2>1, <2>2, FindStep DEF WorkerFind
<1>3. ASSUME NEW w \in Workers, NEW r \in Rows, WorkerMiss(w, r) PROVE IInv'
  BY <1>3, MissStep
<1>4. ASSUME NEW t \in Threads, NEW r \in Rows, ThreadFind(t, r) PROVE IInv'
  <2>1. replies' \in [Workers -> 0 .. MaxReplies] /\ finds' \in [Threads -> 0 .. MaxFinds]
    BY <1>4, ProcessStorageAssumption DEF ThreadFind, IInv, ShapeInv
  <2>2. t \in Users /\ Find(t, r)
    BY <1>4 DEF ThreadFind, Users
  <2> QED  BY <1>4, <2>1, <2>2, FindStep DEF ThreadFind
<1>5. ASSUME NEW u \in Users, Release(u) PROVE IInv'
  BY <1>5, ReleaseStep
<1>6. CASE UNCHANGED vars
  <2>1. ShapeInv' /\ InsertionInv' /\ OccupantInv' /\ EmptyInv' /\ CountInv' /\ RefsInv'
    BY <1>6 DEF vars, lruVars, boundVars, IInv, ShapeInv, InsertionInv, OccupantInv, EmptyInv,
                CountInv, RefsInv, At, Stored
  <2>2. RowLocksInv' /\ SlotLocksInv' /\ VictimInv'
    BY <1>6 DEF vars, lruVars, IInv, RowLocksInv, SlotLocksInv, VictimInv, HoldsRow, HoldsSlot,
                At, Candidate
  <2> QED  BY <2>1, <2>2 DEF IInv
<1> QED  BY <1>1, <1>2, <1>3, <1>4, <1>5, <1>6 DEF Next

\* The invariant always holds.
LEMMA IInvHolds == Spec => []IInv
BY InitEstablishes, StepKeeps, PTL DEF Spec

\* The counts, the hands and the locks keep their types: num_rows_ exceeds the
\* capacity at most by one for each worker, and who looks at a slot looks at one
\* of the clock's, also when the hand has wrapped around.
THEOREM TypesStayRight == Spec => []TypeOK
<1>1. IInv => TypeOK
  <2> SUFFICES ASSUME IInv PROVE TypeOK
    OBVIOUS
  <2>1. numRows \in 0 .. Capacity + Cardinality(Workers)
    <3>1. Busy(worker, {"evict"}) <= Cardinality(Workers) /\ Cardinality(Workers) \in Nat
      BY ProcessStorageAssumption, FS_Subset, FS_CardinalityType DEF Busy
    <3>2. Busy(worker, {"evict"}) \in Nat /\ Capacity \in Nat /\ numRows \in Nat
      BY BusyIsNatural, ProcessStorageAssumption DEF IInv, ShapeInv
    <3> QED  BY <3>1, <3>2 DEF IInv, CountInv
  <2>2. insertHand \in 0 .. Capacity
    <3>1. Busy(worker, {"space"}) \in Nat /\ Capacity \in Nat /\ insertHand \in Nat
      BY BusyIsNatural, ProcessStorageAssumption DEF IInv, ShapeInv
    <3> QED  BY <3>1 DEF IInv, CountInv
  <2>3. \A w \in Workers : worker[w].pc \in {"recent", "try", "candidate", "erase"}
          => worker[w].slot \in Slots
    BY DEF IInv, InsertionInv, SlotStages
  <2> QED  BY <2>1, <2>2, <2>3 DEF IInv, ShapeInv, WorkerStates, TypeOK
<1> QED  BY <1>1, IInvHolds, PTL

\* A row that an accessor refers to is not evicted, whoever inserts meanwhile:
\* the victim's lock and the reference count together keep Find and EvictOneRow
\* apart, for any capacity and any number of workers and threads.
THEOREM ReferencedRowsStay == Spec => []ReferencedRowsAreStored
<1>1. IInv => ReferencedRowsAreStored
  BY DEF IInv, RefsInv, References, ReferencedRowsAreStored
<1> QED  BY <1>1, IInvHolds, PTL

\* The map, the clock of slots and the count of rows agree, although each is
\* changed under a lock of its own or none.
THEOREM RowsSlotsAndCountAlwaysAgree == Spec => []RowsSlotsAndCountAgree
<1>1. ASSUME IInv, \A w \in Workers : At(w, "idle")
      PROVE  numRows = Cardinality({r \in Rows : Stored(r)})
  <2>1. {w \in Workers : worker[w].pc \in Counted} = {}
    BY <1>1 DEF At, Counted
  <2>2. Busy(worker, Counted) = 0
    BY <2>1, FS_EmptySet DEF Busy
  <2>3. {r \in Rows : Stored(r)} = StoredRows(slotOf)
    BY DEF Stored, StoredRows
  <2>4. Cardinality(StoredRows(slotOf)) \in Nat
    BY <1>1, FS_CardinalityType DEF IInv, CountInv
  <2>5. numRows = Cardinality(StoredRows(slotOf)) + Busy(worker, Counted)
    BY <1>1 DEF IInv, CountInv
  <2>6. numRows = Cardinality(StoredRows(slotOf))
    BY <2>2, <2>4, <2>5
  <2> QED  BY <2>3, <2>6
<1>2. IInv => RowsSlotsAndCountAgree
  BY <1>1 DEF IInv, OccupantInv, RowsSlotsAndCountAgree
<1> QED  BY <1>2, IInvHolds, PTL

\* No CHECK of Insert, EvictOneRow and FindEmptySlot fails and no insertion
\* finds its row there: the slots never run out, because num_rows_ counts a row
\* before it takes a slot.
THEOREM ChecksNeverFail == Spec => []NoCheckFails
<1>1. ASSUME IInv, NEW w \in Workers
      PROVE  /\ At(w, "candidate") /\ RowIsFree(Candidate(w)) => Stored(Candidate(w))
             /\ worker[w].pc \in {"lock", "publish"} => ~Stored(worker[w].row)
             /\ At(w, "place") /\ SlotIsFree(worker[w].slot) => rowIds[worker[w].slot] = NoRow
             /\ At(w, "space") => insertHand < Capacity
  <2>1. At(w, "candidate") /\ RowIsFree(Candidate(w)) => Stored(Candidate(w))
    BY <1>1, CandidateIsStored
  <2>2. worker[w].pc \in {"lock", "publish"} => ~Stored(worker[w].row)
    BY <1>1 DEF IInv, InsertionInv, At
  <2>3. At(w, "place") => rowIds[worker[w].slot] = NoRow
    BY <1>1 DEF IInv, EmptyInv
  <2>4. ASSUME At(w, "space") PROVE insertHand < Capacity
    <3>1. Busy(worker, {"space"}) > 0 /\ Busy(worker, {"space"}) \in Nat
      BY <2>4, BusyIsNatural DEF At
    <3>2. insertHand \in Nat /\ Capacity \in Nat /\ insertHand + Busy(worker, {"space"}) <= Capacity
      BY <1>1, ProcessStorageAssumption DEF IInv, ShapeInv, CountInv
    <3> QED  BY <3>1, <3>2
  <2> QED  BY <2>1, <2>2, <2>3, <2>4
<1>2. IInv => NoCheckFails
  BY <1>1 DEF NoCheckFails
<1> QED  BY <1>2, IInvHolds, PTL

\* What the header of the storage requires is enough: with the capacity, less the
\* referenced rows, not below the number of inserting workers, each eviction has a
\* row of its own to evict.  As long as somebody evicts, the rows stored and the
\* workers that have their place fill the capacity exactly.
THEOREM RoomIsEnough == Spec => []RowsToEvictSuffice
<1> DEFINE Placed == {"lock", "slot", "space", "place", "publish"}
           Inserting == Placed \cup EvictStages
           referenced == {r \in Rows : Stored(r) /\ numRefs[r] > 0}
           evictable  == {r \in Rows : Stored(r) /\ numRefs[r] = 0}
           inserting  == {w \in Workers : ~At(w, "idle")}
           evicting   == {w \in Workers : worker[w].pc \in EvictStages}
           n == Cardinality(StoredRows(slotOf))
<1>1. ASSUME IInv, Capacity - Cardinality(referenced) >= Cardinality(inserting)
      PROVE  Cardinality(evictable) >= Cardinality(evicting)
  <2>1. /\ IsFiniteSet(referenced) /\ IsFiniteSet(evictable)
        /\ Cardinality(referenced) \in Nat /\ Cardinality(evictable) \in Nat
        /\ n = Cardinality(referenced) + Cardinality(evictable)
    <3>1. /\ IsFiniteSet(StoredRows(slotOf)) /\ StoredRows(slotOf) = referenced \cup evictable
          /\ referenced \cap evictable = {}
      BY <1>1 DEF IInv, CountInv, ShapeInv, StoredRows, Stored
    <3>2. IsFiniteSet(referenced) /\ IsFiniteSet(evictable)
      BY <3>1, FS_Subset
    <3>3. /\ Cardinality(referenced) \in Nat /\ Cardinality(evictable) \in Nat
          /\ Cardinality(referenced \cap evictable) = 0
      BY <3>1, <3>2, FS_CardinalityType, FS_EmptySet
    <3>4. Cardinality(referenced \cup evictable) =
            Cardinality(referenced) + Cardinality(evictable) - Cardinality(referenced \cap evictable)
      BY <3>2, FS_Union
    <3> HIDE DEF referenced, evictable
    <3> QED  BY <3>1, <3>2, <3>3, <3>4
  <2>2. /\ Cardinality(evicting) = Busy(worker, EvictStages) /\ Busy(worker, EvictStages) \in Nat
        /\ Busy(worker, Placed) \in Nat
    BY BusyIsNatural DEF Busy
  <2>3. Cardinality(inserting) \in Nat
        /\ Cardinality(inserting) >= Busy(worker, Placed) + Busy(worker, EvictStages)
    <3>1. IsFiniteSet(inserting) /\ {w \in Workers : worker[w].pc \in Inserting} \subseteq inserting
      BY ProcessStorageAssumption, FS_Subset DEF At, EvictStages
    <3>2. Cardinality(inserting) \in Nat /\ Busy(worker, Inserting) <= Cardinality(inserting)
      BY <3>1, FS_Subset, FS_CardinalityType DEF Busy
    <3>3. Busy(worker, Inserting) = Busy(worker, Placed) + Busy(worker, EvictStages)
      BY BusyUnion DEF EvictStages
    <3> QED  BY <3>2, <3>3, BusyIsNatural
  <2>4. CASE Busy(worker, EvictStages) = 0
    BY <2>1, <2>2, <2>4
  <2>5. CASE Busy(worker, EvictStages) > 0
    <3>1. Busy(worker, Unended) > 0
      <4>1. Busy(worker, Unended) = Busy(worker, EvictStages) + Busy(worker, {"aborted"})
        BY BusyUnion DEF Unended, EvictStages
      <4> QED  BY <2>2, <2>5, <4>1, BusyIsNatural
    <3>2. Busy(worker, Counted) = Busy(worker, {"evict"}) + Busy(worker, Placed)
      <4>1. Counted = {"evict"} \cup Placed
        BY DEF Counted
      <4> QED  BY <4>1, BusyUnion
    <3>3. n + Busy(worker, Counted) = Capacity + Busy(worker, {"evict"})
      BY <1>1, <3>1 DEF IInv, CountInv
    <3>4. Busy(worker, {"evict"}) \in Nat /\ Capacity \in Nat /\ n \in Nat
      BY <2>1, BusyIsNatural, ProcessStorageAssumption
    <3>5. n + Busy(worker, Placed) = Capacity
      BY <2>2, <3>2, <3>3, <3>4
    <3> HIDE DEF referenced, evictable, inserting, evicting, n, Placed
    <3> QED  BY <1>1, <2>1, <2>2, <2>3, <3>4, <3>5
  <2> QED  BY <2>2, <2>4, <2>5
<1>2. IInv => RowsToEvictSuffice
  BY <1>1 DEF RowsToEvictSuffice
<1> QED  BY <1>2, IInvHolds, PTL
==============================================================================
