----------------------------- MODULE ProcessStorage -----------------------------
(***************************************************************************)
(* The process cache of a table, lock by lock: the rows that application   *)
(* threads find and refer to while background workers insert others and    *)
(* evict.                                                                  *)
(*                                                                         *)
(*   BoundedSparseProcessStorage   Find, Insert, EvictOneRow               *)
(*   ClockLRU                      FindOneToEvict, Evict, NoEvict, Insert, *)
(*                                 Reference, FindEmptySlot                *)
(*   RowAccessor, ClientRow        the reference count of a row            *)
(*   AbstractBgWorker              which rows a worker looks up or inserts *)
(*                                                                         *)
(* Rows and slots share locks (StripedLock); Insert takes a row's lock and *)
(* then a slot's, EvictOneRow a slot's and then a row's.                   *)
(*                                                                         *)
(* Operators commented "Mutant of X: ..." are what a slip in X would make  *)
(* of it.  The specification does not use them; substituted for X, each    *)
(* must break a property.                                                  *)
(***************************************************************************)
EXTENDS Integers, FiniteSets, Sequences

CONSTANTS
  Capacity,   \* capacity_
  MaxRounds,  \* MAX_NUM_ROUNDS, 20 in the code
  MaxHand,    \* the largest value of evict_hand_, which is an int32_t: 2^31 - 1
  Workers,    \* background workers of different channels
  RowsOf,     \* the rows of each worker's channel
  Threads,    \* application threads
  MaxReplies, \* bound: rows that each worker gets from servers
  MaxFinds    \* bound: rows that each thread looks up

Rows == UNION {RowsOf[w] : w \in Workers}
Slots == 0 .. Capacity - 1
Users == Workers \cup Threads

NoRow == -1
NoSlot == -1

ASSUME ProcessStorageAssumption ==
  /\ Capacity \in Nat \ {0} /\ MaxRounds \in Nat /\ MaxHand \in Nat
  /\ MaxReplies \in Nat /\ MaxFinds \in Nat
  /\ IsFiniteSet(Workers) /\ IsFiniteSet(Threads) /\ Workers \cap Threads = {}
  /\ RowsOf \in [Workers -> SUBSET Nat]
  /\ \A v, w \in Workers : v # w => RowsOf[v] \cap RowsOf[w] = {}

VARIABLES
  numRows,      \* num_rows_
  slotOf,       \* storage_map_: the slot of each stored row
  numRefs,      \* ClientRow::num_refs_
  evictHand,    \* evict_hand_
  insertHand,   \* insert_hand_
  emptySlots,   \* empty_slots_
  stale,        \* stale_
  rowIds,       \* row_ids_
  rowLocks,     \* the locks of rows that are held
  slotLocks,    \* the locks of slots that are held
  worker,       \* per worker, where it is in Insert, with which row and slot, and
                \* how often it has tried in FindOneToEvict
  accessor,     \* per worker and thread, the row its RowAccessor refers to
  replies,      \* bound: rows the worker has got
  finds         \* bound: rows the thread has looked up

lruVars == <<evictHand, insertHand, emptySlots, stale, rowIds, slotLocks>>
boundVars == <<replies, finds>>
vars == <<numRows, slotOf, numRefs, lruVars, rowLocks, worker, accessor, boundVars>>

Stored(r) == slotOf[r] # NoSlot

\* Mutant of GetLockPoolSize: kStripedLockReductionFactor is 2.
HalfTheLocks == (Capacity + 1) \div 2

\* The size of both lock pools: with a reduction factor of 1, the capacity.
GetLockPoolSize == Capacity

LockIndex(i) == i % GetLockPoolSize

RowIsFree(r) == LockIndex(r) \notin rowLocks
SlotIsFree(s) == LockIndex(s) \notin slotLocks

Idle == [pc |-> "idle", row |-> NoRow, slot |-> NoSlot, tries |-> 0]

Init ==
  /\ numRows = 0
  /\ slotOf = [r \in Rows |-> NoSlot]
  /\ numRefs = [r \in Rows |-> 0]
  /\ evictHand = 0 /\ insertHand = 0
  /\ emptySlots = << >>
  /\ stale = [s \in Slots |-> TRUE]
  /\ rowIds = [s \in Slots |-> NoRow]
  /\ rowLocks = {} /\ slotLocks = {}
  /\ worker = [w \in Workers |-> Idle]
  /\ accessor = [u \in Users |-> NoRow]
  /\ replies = [w \in Workers |-> 0]
  /\ finds = [t \in Threads |-> 0]

At(w, pc) == worker[w].pc = pc
GoTo(w, pc) == worker' = [worker EXCEPT ![w].pc = pc]

\* No CHECK and no LOG(FATAL) has stopped the process.
Alive == \A w \in Workers : ~At(w, "aborted")

-----------------------------------------------------------------------------
(* Find, and the accessor that refers to the row.                          *)

\* Mutant of Find: does not lock the row.
FindUnlocked(u, r) ==
  /\ Stored(r)
  /\ accessor' = [accessor EXCEPT ![u] = r]
  /\ numRefs' = [numRefs EXCEPT ![r] = @ + 1]
  /\ stale' = [stale EXCEPT ![slotOf[r]] = FALSE]

\* Find of a row that is there; all of it happens with the row locked.
Find(u, r) ==
  /\ RowIsFree(r)
  /\ Stored(r)
  /\ accessor' = [accessor EXCEPT ![u] = r]
  /\ numRefs' = [numRefs EXCEPT ![r] = @ + 1]
  /\ stale' = [stale EXCEPT ![slotOf[r]] = FALSE]

\* A thread finds a row (a thread that finds none changes nothing here).  Its
\* accessor may refer to a row already: to the stale one found by the same Get,
\* or to the one of an earlier Get.  SetClientRow does not release that row.
ThreadFind(t, r) ==
  /\ Alive /\ finds[t] < MaxFinds
  /\ Find(t, r)
  /\ finds' = [finds EXCEPT ![t] = @ + 1]
  /\ UNCHANGED <<numRows, slotOf, evictHand, insertHand, emptySlots, rowIds, slotLocks,
                 rowLocks, worker, replies>>

\* The accessor's destructor.
Release(u) ==
  /\ Alive /\ accessor[u] # NoRow
  /\ numRefs' = [numRefs EXCEPT ![accessor[u]] = @ - 1]
  /\ accessor' = [accessor EXCEPT ![u] = NoRow]
  /\ UNCHANGED <<numRows, slotOf, lruVars, rowLocks, worker, boundVars>>

\* HandleServerRowRequestReply: the row is there and is updated ...
WorkerFind(w, r) ==
  /\ Alive /\ At(w, "idle") /\ accessor[w] = NoRow
  /\ r \in RowsOf[w] /\ replies[w] < MaxReplies
  /\ Find(w, r)
  /\ replies' = [replies EXCEPT ![w] = @ + 1]
  /\ UNCHANGED <<numRows, slotOf, evictHand, insertHand, emptySlots, rowIds, slotLocks,
                 rowLocks, worker, finds>>

\* ... or it is not and will be inserted.
WorkerMiss(w, r) ==
  /\ Alive /\ At(w, "idle") /\ accessor[w] = NoRow
  /\ r \in RowsOf[w] /\ replies[w] < MaxReplies
  /\ RowIsFree(r) /\ ~Stored(r)
  /\ replies' = [replies EXCEPT ![w] = @ + 1]
  /\ worker' = [worker EXCEPT ![w] = [Idle EXCEPT !.pc = "count", !.row = r]]
  /\ UNCHANGED <<numRows, slotOf, numRefs, lruVars, rowLocks, accessor, finds>>

-----------------------------------------------------------------------------
(* Insert: making room.                                                    *)

\* Mutant of CountRow: evicts when the row to insert still has its place.
CountRowEarly(w) ==
  /\ Alive /\ At(w, "count")
  /\ numRows' = numRows + 1
  /\ GoTo(w, IF Capacity <= numRows + 1 THEN "evict" ELSE "lock")
  /\ UNCHANGED <<slotOf, numRefs, lruVars, rowLocks, accessor, boundVars>>

\* Insert counts the row, and evicts one if there are too many.
CountRow(w) ==
  /\ Alive /\ At(w, "count")
  /\ numRows' = numRows + 1
  /\ GoTo(w, IF Capacity < numRows + 1 THEN "evict" ELSE "lock")
  /\ UNCHANGED <<slotOf, numRefs, lruVars, rowLocks, accessor, boundVars>>

\* EvictOneRow counts the row before it has found it.
EvictOneRow(w) ==
  /\ Alive /\ At(w, "evict")
  /\ numRows' = numRows - 1
  /\ GoTo(w, "hand")
  /\ UNCHANGED <<slotOf, numRefs, lruVars, rowLocks, accessor, boundVars>>

\* evict_hand_ % capacity_: the remainder has the sign of the hand.
HandSlot == IF evictHand >= 0 THEN evictHand % Capacity ELSE -((-evictHand) % Capacity)

\* evict_hand_++, which wraps around.
NextHand == IF evictHand = MaxHand THEN -MaxHand - 1 ELSE evictHand + 1

TriesLeft(w) == worker[w].tries < MaxRounds * Capacity

\* Mutant of MoveHand: does not CHECK the slot.
MoveHandUnchecked(w) ==
  /\ Alive /\ At(w, "hand") /\ TriesLeft(w)
  /\ worker' = [worker EXCEPT ![w].pc = "recent", ![w].slot = HandSlot, ![w].tries = @ + 1]
  /\ evictHand' = NextHand
  /\ UNCHANGED <<numRows, slotOf, numRefs, insertHand, emptySlots, stale, rowIds, slotLocks,
                 rowLocks, accessor, boundVars>>

\* FindOneToEvict: the next slot; the CHECK stops the process when the hand has
\* become negative, ...
MoveHand(w) ==
  /\ Alive /\ At(w, "hand") /\ TriesLeft(w)
  /\ \/ /\ HandSlot \in Slots
        /\ worker' = [worker EXCEPT ![w].pc = "recent", ![w].slot = HandSlot, ![w].tries = @ + 1]
     \/ /\ HandSlot \notin Slots
        /\ GoTo(w, "aborted")
  /\ evictHand' = NextHand
  /\ UNCHANGED <<numRows, slotOf, numRefs, insertHand, emptySlots, stale, rowIds, slotLocks,
                 rowLocks, accessor, boundVars>>

\* ... and so does LOG(FATAL) after the last round, ...
GiveUp(w) ==
  /\ Alive /\ At(w, "hand") /\ ~TriesLeft(w)
  /\ GoTo(w, "aborted")
  /\ UNCHANGED <<numRows, slotOf, numRefs, lruVars, rowLocks, accessor, boundVars>>

\* ... unless it has been referred to since the hand last came by, ...
TestRecency(w) ==
  LET s == worker[w].slot
  IN  /\ Alive /\ At(w, "recent")
      /\ stale' = [stale EXCEPT ![s] = TRUE]
      /\ GoTo(w, IF stale[s] THEN "try" ELSE "hand")
      /\ UNCHANGED <<numRows, slotOf, numRefs, evictHand, insertHand, emptySlots, rowIds,
                     slotLocks, rowLocks, accessor, boundVars>>

\* ... or is locked or empty; ...
PassSlot(w) ==
  LET s == worker[w].slot
  IN  /\ Alive /\ At(w, "try")
      /\ ~SlotIsFree(s) \/ rowIds[s] = NoRow
      /\ GoTo(w, "hand")
      /\ UNCHANGED <<numRows, slotOf, numRefs, lruVars, rowLocks, accessor, boundVars>>

\* ... else it stays locked.
LockSlot(w) ==
  LET s == worker[w].slot
  IN  /\ Alive /\ At(w, "try")
      /\ SlotIsFree(s) /\ rowIds[s] # NoRow
      /\ slotLocks' = slotLocks \cup {LockIndex(s)}
      /\ worker' = [worker EXCEPT ![w].pc = "candidate", ![w].tries = 0]
      /\ UNCHANGED <<numRows, slotOf, numRefs, evictHand, insertHand, emptySlots, stale, rowIds,
                     rowLocks, accessor, boundVars>>

Candidate(w) == rowIds[worker[w].slot]

\* EvictOneRow: a row with references is kept (NoEvict) ...
KeepCandidate(w) ==
  LET r == Candidate(w)
  IN  /\ Alive /\ At(w, "candidate")
      /\ RowIsFree(r) /\ numRefs[r] > 0
      /\ slotLocks' = slotLocks \ {LockIndex(slotOf[r])}
      /\ GoTo(w, "hand")
      /\ UNCHANGED <<numRows, slotOf, numRefs, evictHand, insertHand, emptySlots, stale, rowIds,
                     rowLocks, accessor, boundVars>>

\* ... and one without is chosen, with its lock held.
ChooseCandidate(w) ==
  LET r == Candidate(w)
  IN  /\ Alive /\ At(w, "candidate")
      /\ RowIsFree(r) /\ numRefs[r] = 0
      /\ rowLocks' = rowLocks \cup {LockIndex(r)}
      /\ GoTo(w, "erase")
      /\ UNCHANGED <<numRows, slotOf, numRefs, lruVars, accessor, boundVars>>

\* Mutant of Erase: the slot keeps the row's id.
EraseFromMap(w) ==
  LET r == Candidate(w)
      s == slotOf[r]
  IN  /\ Alive /\ At(w, "erase")
      /\ slotOf' = [slotOf EXCEPT ![r] = NoSlot]
      /\ emptySlots' = Append(emptySlots, s)
      /\ slotLocks' = slotLocks \ {LockIndex(s)}
      /\ rowLocks' = rowLocks \ {LockIndex(r)}
      /\ GoTo(w, "lock")
      /\ UNCHANGED <<numRows, numRefs, evictHand, insertHand, stale, rowIds, accessor, boundVars>>

\* EvictOneRow: erase the row and free its slot (ClockLRU::Evict).
Erase(w) ==
  LET r == Candidate(w)
      s == slotOf[r]
  IN  /\ Alive /\ At(w, "erase")
      /\ slotOf' = [slotOf EXCEPT ![r] = NoSlot]
      /\ rowIds' = [rowIds EXCEPT ![s] = NoRow]
      /\ emptySlots' = Append(emptySlots, s)
      /\ slotLocks' = slotLocks \ {LockIndex(s)}
      /\ rowLocks' = rowLocks \ {LockIndex(r)}
      /\ GoTo(w, "lock")
      /\ UNCHANGED <<numRows, numRefs, evictHand, insertHand, stale, accessor, boundVars>>

-----------------------------------------------------------------------------
(* Insert: the row.                                                        *)

\* The row is locked, unless it has come to be there: then Insert returns false.
LockRow(w) ==
  LET r == worker[w].row
  IN  /\ Alive /\ At(w, "lock")
      /\ RowIsFree(r)
      /\ rowLocks' = IF Stored(r) THEN rowLocks ELSE rowLocks \cup {LockIndex(r)}
      /\ worker' = [worker EXCEPT ![w] = IF Stored(r) THEN Idle ELSE [@ EXCEPT !.pc = "slot"]]
      /\ UNCHANGED <<numRows, slotOf, numRefs, lruVars, accessor, boundVars>>

\* FindEmptySlot: a slot that was freed, ...
PopEmptySlot(w) ==
  /\ Alive /\ At(w, "slot") /\ emptySlots # << >>
  /\ emptySlots' = Tail(emptySlots)
  /\ worker' = [worker EXCEPT ![w].pc = "place", ![w].slot = Head(emptySlots)]
  /\ UNCHANGED <<numRows, slotOf, numRefs, evictHand, insertHand, stale, rowIds, slotLocks,
                 rowLocks, accessor, boundVars>>

\* ... if there is none, ...
NoEmptySlot(w) ==
  /\ Alive /\ At(w, "slot") /\ emptySlots = << >>
  /\ GoTo(w, "space")
  /\ UNCHANGED <<numRows, slotOf, numRefs, lruVars, rowLocks, accessor, boundVars>>

\* ... one that has never been used.
NextUnusedSlot(w) ==
  /\ Alive /\ At(w, "space") /\ insertHand < Capacity
  /\ insertHand' = insertHand + 1
  /\ worker' = [worker EXCEPT ![w].pc = "place", ![w].slot = insertHand]
  /\ UNCHANGED <<numRows, slotOf, numRefs, evictHand, emptySlots, stale, rowIds, slotLocks,
                 rowLocks, accessor, boundVars>>

\* Mutant of PlaceRow: unlocks the row as well.
PlaceRowUnlocked(w) ==
  LET s == worker[w].slot
  IN  /\ Alive /\ At(w, "place")
      /\ SlotIsFree(s)
      /\ rowIds' = [rowIds EXCEPT ![s] = worker[w].row]
      /\ stale' = [stale EXCEPT ![s] = FALSE]
      /\ rowLocks' = rowLocks \ {LockIndex(worker[w].row)}
      /\ GoTo(w, "publish")
      /\ UNCHANGED <<numRows, slotOf, numRefs, evictHand, insertHand, emptySlots, slotLocks,
                     accessor, boundVars>>

\* ClockLRU::Insert, with the slot locked.
PlaceRow(w) ==
  LET s == worker[w].slot
  IN  /\ Alive /\ At(w, "place")
      /\ SlotIsFree(s)
      /\ rowIds' = [rowIds EXCEPT ![s] = worker[w].row]
      /\ stale' = [stale EXCEPT ![s] = FALSE]
      /\ GoTo(w, "publish")
      /\ UNCHANGED <<numRows, slotOf, numRefs, evictHand, insertHand, emptySlots, slotLocks,
                     rowLocks, accessor, boundVars>>

\* Insert: the new row is in the map, and unlocked.
PublishRow(w) ==
  LET r == worker[w].row
  IN  /\ Alive /\ At(w, "publish")
      /\ slotOf' = [slotOf EXCEPT ![r] = worker[w].slot]
      /\ numRefs' = [numRefs EXCEPT ![r] = 0]
      /\ rowLocks' = rowLocks \ {LockIndex(r)}
      /\ worker' = [worker EXCEPT ![w] = Idle]
      /\ UNCHANGED <<numRows, lruVars, accessor, boundVars>>

-----------------------------------------------------------------------------
Insert(w) ==
  \/ CountRow(w) \/ EvictOneRow(w)
  \/ MoveHand(w) \/ GiveUp(w) \/ TestRecency(w) \/ PassSlot(w) \/ LockSlot(w)
  \/ KeepCandidate(w) \/ ChooseCandidate(w) \/ Erase(w)
  \/ LockRow(w) \/ PopEmptySlot(w) \/ NoEmptySlot(w) \/ NextUnusedSlot(w)
  \/ PlaceRow(w) \/ PublishRow(w)

Next ==
  \/ \E w \in Workers : Insert(w) \/ \E r \in Rows : WorkerFind(w, r) \/ WorkerMiss(w, r)
  \/ \E t \in Threads, r \in Rows : ThreadFind(t, r)
  \/ \E u \in Users : Release(u)

Spec == Init /\ [][Next]_vars

-----------------------------------------------------------------------------
Stages == {"idle", "count", "evict", "hand", "recent", "try", "candidate", "erase",
           "lock", "slot", "space", "place", "publish", "aborted"}

\* The stages of EvictOneRow.
EvictStages == {"evict", "hand", "recent", "try", "candidate", "erase"}

\* Types; also after the hand has wrapped around, a worker looks at no slot that
\* is not on the clock (CHECK in FindOneToEvict).
TypeOK ==
  /\ numRows \in 0 .. Capacity + Cardinality(Workers)
  /\ slotOf \in [Rows -> Slots \cup {NoSlot}]
  /\ numRefs \in [Rows -> Nat]
  /\ evictHand \in -MaxHand - 1 .. MaxHand /\ insertHand \in 0 .. Capacity
  /\ emptySlots \in Seq(Slots)
  /\ stale \in [Slots -> BOOLEAN]
  /\ rowIds \in [Slots -> Rows \cup {NoRow}]
  /\ rowLocks \subseteq 0 .. GetLockPoolSize - 1 /\ slotLocks \subseteq 0 .. GetLockPoolSize - 1
  /\ worker \in [Workers -> [pc : Stages, row : Rows \cup {NoRow}, slot : Slots \cup {NoSlot},
                         tries : 0 .. MaxRounds * Capacity]]
  /\ \A w \in Workers : worker[w].pc \in {"recent", "try", "candidate", "erase"}
       => worker[w].slot \in Slots
  /\ accessor \in [Users -> Rows \cup {NoRow}]
  /\ replies \in [Workers -> 0 .. MaxReplies] /\ finds \in [Threads -> 0 .. MaxFinds]

\* A row stays alive as long as an accessor refers to it: it is not evicted
\* between a thread's Find and the end of its accessor, whoever inserts.  Its
\* count is not below the accessors that refer to it (it is above them when
\* accessors have been set to another row without releasing this one).
ReferencedRowsAreStored ==
  /\ \A u \in Users : accessor[u] # NoRow => Stored(accessor[u])
  /\ \A r \in Rows : numRefs[r] >= Cardinality({u \in Users : accessor[u] = r})

\* The map, the clock and the count agree: a stored row's slot holds its id, an
\* occupied slot belongs to a stored row or to one just being inserted, and
\* num_rows_, which is counted before a row comes or goes, is right whenever
\* nobody is inserting; so the cache never outgrows its capacity for good.
RowsSlotsAndCountAgree ==
  /\ \A r \in Rows : Stored(r) => rowIds[slotOf[r]] = r
  /\ \A s \in Slots : rowIds[s] # NoRow =>
       \/ slotOf[rowIds[s]] = s
       \/ \E w \in Workers : At(w, "publish") /\ worker[w].row = rowIds[s] /\ worker[w].slot = s
  /\ (\A w \in Workers : At(w, "idle")) => numRows = Cardinality({r \in Rows : Stored(r)})

\* No CHECK of Insert, EvictOneRow and FindEmptySlot fails: a candidate is in
\* the map, a slot to insert into is empty, and there is one that has never
\* been used if none has been freed.  And a row to insert is not there, so no
\* insertion returns false with the row counted.
NoCheckFails ==
  \A w \in Workers :
    /\ At(w, "candidate") /\ RowIsFree(Candidate(w)) => Stored(Candidate(w))
    /\ worker[w].pc \in {"lock", "publish"} => ~Stored(worker[w].row)
    /\ At(w, "place") /\ SlotIsFree(worker[w].slot) => rowIds[worker[w].slot] = NoRow
    /\ At(w, "space") => insertHand < Capacity

\* The locks of rows and slots, taken in both orders, form no cycle: while
\* some worker is inserting, some worker can go on.
NobodyIsStuck ==
  Alive /\ (\E w \in Workers : ~At(w, "idle")) => \E w \in Workers : ENABLED Insert(w)

\* What the header of the storage requires of its users is enough: if the
\* capacity less the referenced rows is not below the number of workers that
\* insert, then there is a row without references for each worker that is
\* evicting one, although num_rows_ is counted before rows come and go, and
\* other workers have evicted for places that they have not taken yet.
RowsToEvictSuffice ==
  LET referenced == {r \in Rows : Stored(r) /\ numRefs[r] > 0}
      evictable  == {r \in Rows : Stored(r) /\ numRefs[r] = 0}
      inserting  == {w \in Workers : ~At(w, "idle")}
      evicting   == {w \in Workers : worker[w].pc \in EvictStages}
  IN  Capacity - Cardinality(referenced) >= Cardinality(inserting)
        => Cardinality(evictable) >= Cardinality(evicting)

=============================================================================
