-------------------------- MODULE TableGroup_proofs --------------------------
(***************************************************************************)
(* The clocks of a process' threads, for any set of threads and any number *)
(* of clocks.                                                              *)
(***************************************************************************)
EXTENDS TableGroup, VectorClock_proofs, FiniteSetTheorems

Registered == {t \in Threads : phase[t] # "new"}
Clocking == {t \in Threads : phase[t] = "clock"}

\* The vector clock is exact for the registered threads.
ClockInv ==
  /\ DOMAIN vectorClock.vec = Registered
  /\ IF Registered = {} THEN vectorClock = NoClock
     ELSE vectorClock \in VectorClocks(Registered) /\ IsMinimum(vectorClock)

\* Until the last thread has registered, no thread is past the barrier.
BarrierInv ==
  (\E t \in Threads : phase[t] = "new") =>
     /\ told = 0
     /\ \A t \in Threads : phase[t] \in {"new", "registered"}

\* A registered thread has published one clock more than it has ticked while
\* it is between the two.
PublishedInv ==
  \A t \in Threads :
    /\ phase[t] \in {"new", "registered"} => published[t] = 0
    /\ t \in Registered =>
         published[t] = vectorClock.vec[t] + (IF phase[t] = "tick" THEN 1 ELSE 0)

IInv == TypeOK /\ ClockInv /\ BarrierInv /\ PublishedInv /\ ClocksOncePerMinimum

\* The invariant holds at the start.
LEMMA InitEstablishes == Init => IInv
<1> SUFFICES ASSUME Init PROVE IInv
  OBVIOUS
<1> USE DEF Init
<1>1. Clocking = {}
  BY DEF Clocking
<1>2. Cardinality(Clocking) = 0
  BY <1>1, FS_EmptySet
<1>3. CASE InitThread \in Threads
  <2>1. Registered = {InitThread}
    BY <1>3 DEF Registered
  <2>2. vectorClock \in VectorClocks({InitThread}) /\ IsMinimum(vectorClock)
    BY <1>3, FirstClockIsMinimum
  <2>3. vectorClock.min = 0 /\ vectorClock.vec[InitThread] = 0
    BY <1>3 DEF AddClock, NoClock
  <2>4. ClockInv
    BY <2>1, <2>2 DEF ClockInv, VectorClocks
  <2>5. PublishedInv
    BY <2>1, <2>3 DEF PublishedInv
  <2>6. TypeOK
    BY <1>3, <2>2 DEF TypeOK, VectorClocks
  <2>7. BarrierInv /\ ClocksOncePerMinimum
    BY <1>2, <2>3 DEF BarrierInv, ClocksOncePerMinimum, Clocking
  <2> QED  BY <2>4, <2>5, <2>6, <2>7 DEF IInv
<1>4. CASE InitThread \notin Threads
  <2>1. Registered = {} /\ vectorClock = NoClock
    BY <1>4 DEF Registered
  <2>2. NoClock.min = -1 /\ DOMAIN NoClock.vec = {} /\ NoClock.vec \in [{} -> Nat]
    BY DEF NoClock
  <2>3. DOMAIN NoClock = {"vec", "min"}
    BY DEF NoClock
  <2>4. ClockInv /\ PublishedInv
    BY <2>1, <2>2 DEF ClockInv, PublishedInv
  <2>5. TypeOK
    BY <2>1, <2>2, <2>3 DEF TypeOK
  <2>6. BarrierInv /\ ClocksOncePerMinimum
    BY <1>2, <1>4, <2>1, <2>2 DEF BarrierInv, ClocksOncePerMinimum, Clocking
  <2> QED  BY <2>4, <2>5, <2>6 DEF IInv
<1> QED  BY <1>3, <1>4

\* The threads that have called Clock are finitely many.
LEMMA ClockingIsFinite == IsFiniteSet(Clocking) /\ Cardinality(Clocking) \in Nat
<1>1. Clocking \subseteq Threads
  BY DEF Clocking
<1> QED  BY <1>1, ThreadsAssumption, FS_Subset, FS_CardinalityType

\* The types of the vector clock follow from the rest.
LEMMA TypeOfClock ==
  ASSUME ClockInv
  PROVE  /\ DOMAIN vectorClock = {"vec", "min"}
         /\ DOMAIN vectorClock.vec \subseteq Threads
         /\ vectorClock.vec \in [DOMAIN vectorClock.vec -> Nat]
         /\ vectorClock.min \in Int
<1>1. Registered \subseteq Threads
  BY DEF Registered
<1>2. CASE Registered = {}
  <2>1. /\ NoClock.min = -1 /\ DOMAIN NoClock.vec = {} /\ NoClock.vec \in [{} -> Nat]
        /\ DOMAIN NoClock = {"vec", "min"}
    BY DEF NoClock
  <2> QED  BY <1>2, <2>1 DEF ClockInv
<1>3. CASE Registered # {}
  BY <1>1, <1>3 DEF ClockInv, VectorClocks
<1> QED  BY <1>2, <1>3

\* Registering a thread keeps the invariant.
LEMMA RegisterKeeps ==
  ASSUME IInv, NEW t \in Threads, RegisterThread(t)
  PROVE  IInv'
<1> USE DEF IInv, TypeOK, RegisterThread
<1>1. told = 0 /\ \A u \in Threads : phase[u] \in {"new", "registered"}
  BY DEF BarrierInv
<1>2. Clocking = {} /\ Clocking' = {}
  BY <1>1 DEF Clocking
<1>3. Cardinality(Clocking) = 0 /\ Cardinality(Clocking') = 0
  BY <1>2, FS_EmptySet
<1>4. Registered' = Registered \cup {t} /\ t \notin Registered
  BY DEF Registered
<1>5. vectorClock' \in VectorClocks(Registered') /\ IsMinimum(vectorClock')
  <2>1. CASE Registered = {}
    BY ZenonT(40), <1>4, <2>1, FirstClockIsMinimum DEF ClockInv
  <2>2. CASE Registered # {}
    BY <1>4, <2>2, AddClockKeepsMinimum DEF ClockInv
  <2> QED  BY <2>1, <2>2
<1>6. ClockInv'
  BY <1>4, <1>5 DEF ClockInv, VectorClocks
<1>7. vectorClock'.min = 0
  <2>1. CASE Registered = {}
    BY <2>1 DEF ClockInv, NoClock, AddClock
  <2>2. CASE Registered # {}
    <3>1. vectorClock.min \in Nat
      BY <2>2 DEF ClockInv, VectorClocks
    <3>2. vectorClock.min = 0
      BY <1>1, <1>3, <3>1 DEF ClocksOncePerMinimum, Clocking
    <3> QED  BY <3>2 DEF AddClock
  <2> QED  BY <2>1, <2>2
<1>8. /\ vectorClock'.vec[t] = 0
      /\ \A u \in Registered : vectorClock'.vec[u] = vectorClock.vec[u]
  BY <1>4 DEF AddClock, ClockInv
<1>9. PublishedInv'
  BY <1>1, <1>4, <1>8 DEF PublishedInv
<1>10. BarrierInv' /\ ClocksOncePerMinimum'
  BY <1>1, <1>3, <1>7 DEF BarrierInv, ClocksOncePerMinimum, Clocking
<1>11. TypeOK'
  <2>1. /\ phase' \in [Threads -> {"new", "registered", "run", "tick", "clock", "flush", "gone"}]
        /\ published' \in [Threads -> Nat] /\ told' \in Nat
    OBVIOUS
  <2>2. Registered' \subseteq Threads
    BY DEF Registered
  <2> QED  BY <1>5, <2>1, <2>2 DEF VectorClocks
<1> QED  BY <1>6, <1>9, <1>10, <1>11

\* Waiting at the barrier keeps it.
LEMMA BarrierKeeps ==
  ASSUME IInv, PassBarrier
  PROVE  IInv'
<1> USE DEF IInv, TypeOK, PassBarrier
<1>1. Clocking' = {} /\ Clocking = {}
  BY DEF Clocking
<1>2. Registered' = Registered
  BY DEF Registered
<1>3. ClockInv'
  BY <1>2 DEF ClockInv
<1>4. PublishedInv' /\ BarrierInv'
  BY <1>2 DEF PublishedInv, BarrierInv
<1>5. ClocksOncePerMinimum'
  BY <1>1 DEF ClocksOncePerMinimum, Clocking
<1> QED  BY <1>3, <1>4, <1>5

\* The first part of Clock keeps it.
LEMMA PublishKeeps ==
  ASSUME IInv, NEW t \in Threads, PublishUpdates(t)
  PROVE  IInv'
<1> USE DEF IInv, TypeOK, PublishUpdates
<1>1. Clocking' = Clocking
  BY DEF Clocking
<1>2. Registered' = Registered
  BY DEF Registered
<1>3. ClockInv'
  BY <1>2 DEF ClockInv
<1>4. PublishedInv' /\ BarrierInv'
  <2>1. \A u \in Registered : vectorClock.vec[u] \in Nat /\ published[u] \in Nat
    BY DEF ClockInv, Registered
  <2>2. PublishedInv'
    BY <1>2, <2>1 DEF PublishedInv, Registered
  <2> QED  BY <2>2 DEF BarrierInv
<1>5. ClocksOncePerMinimum'
  BY <1>1 DEF ClocksOncePerMinimum, Clocking
<1> QED  BY <1>3, <1>4, <1>5

\* The tick of the process clock keeps it.
LEMMA TickKeeps ==
  ASSUME IInv, NEW t \in Threads, TickClock(t)
  PROVE  IInv' /\ vectorClock'.min >= vectorClock.min
<1> USE DEF IInv, TickClock
<1>1. Registered' = Registered /\ t \in Registered
  BY DEF Registered, TypeOK
<1>2. /\ vectorClock' \in VectorClocks(Registered) /\ IsMinimum(vectorClock')
      /\ vectorClock'.min \in {vectorClock.min, vectorClock.min + 1}
      /\ TickResult(vectorClock, t) =
           IF vectorClock'.min # vectorClock.min THEN vectorClock'.min ELSE 0
  BY <1>1, TickKeepsMinimum DEF ClockInv
<1>3. vectorClock.min \in Nat /\ vectorClock'.min \in Nat
  BY <1>1, <1>2 DEF ClockInv, VectorClocks
<1>4. ClockInv'
  BY <1>1, <1>2 DEF ClockInv, VectorClocks
<1>5. \A u \in Registered :
        vectorClock'.vec[u] = IF u = t THEN vectorClock.vec[u] + 1 ELSE vectorClock.vec[u]
  BY <1>1 DEF Tick, ClockInv
<1>6. PublishedInv'
  <2>1. vectorClock.vec[t] \in Nat
    BY <1>1 DEF ClockInv, VectorClocks
  <2> QED  BY <1>1, <1>5, <2>1 DEF PublishedInv, TypeOK
<1>7. BarrierInv'
  BY DEF BarrierInv, TypeOK
<1>8. TypeOK'
  <2>1. /\ phase' \in [Threads -> {"new", "registered", "run", "tick", "clock", "flush", "gone"}]
        /\ published' \in [Threads -> Nat] /\ told' \in Nat
    BY DEF TypeOK
  <2> QED  BY <1>4, <2>1, TypeOfClock DEF TypeOK, ClockInv, Registered, VectorClocks, IsMinimum, NoClock
<1>9. t \notin Clocking
  BY DEF Clocking, TypeOK
<1>10. ClocksOncePerMinimum'
  <2>1. CASE vectorClock'.min # vectorClock.min
    <3>1. vectorClock'.min = vectorClock.min + 1
      BY <1>2, <2>1
    <3>2. TickResult(vectorClock, t) # 0
      BY <1>2, <1>3, <3>1
    <3>3. Clocking' = Clocking \cup {t}
      BY <3>2 DEF Clocking, TypeOK
    <3>4. Cardinality(Clocking') = Cardinality(Clocking) + 1
      BY <1>9, <3>3, ClockingIsFinite, FS_AddElement
    <3> QED  BY <1>3, <3>1, <3>4, ClockingIsFinite DEF ClocksOncePerMinimum, Clocking, TypeOK
  <2>2. CASE vectorClock'.min = vectorClock.min
    <3>1. TickResult(vectorClock, t) = 0
      BY <1>2, <2>2
    <3>2. Clocking' = Clocking
      BY <1>9, <3>1 DEF Clocking, TypeOK
    <3> QED  BY <1>3, <2>2, <3>2 DEF ClocksOncePerMinimum, Clocking
  <2> QED  BY <2>1, <2>2
<1>11. vectorClock'.min >= vectorClock.min
  BY <1>2, <1>3
<1> QED  BY <1>4, <1>6, <1>7, <1>8, <1>10, <1>11

\* Telling the workers keeps it.
LEMMA TellKeeps ==
  ASSUME IInv, NEW t \in Threads, ClockAllTables(t)
  PROVE  IInv'
<1> USE DEF IInv, TypeOK, ClockAllTables
<1>1. Clocking' = Clocking \ {t} /\ t \in Clocking
  BY DEF Clocking
<1>2. Cardinality(Clocking') = Cardinality(Clocking) - 1
  BY <1>1, ClockingIsFinite, FS_RemoveElement
<1>3. Registered' = Registered
  BY DEF Registered
<1>4. ClockInv'
  BY <1>3 DEF ClockInv
<1>5. PublishedInv' /\ BarrierInv'
  BY <1>3 DEF PublishedInv, BarrierInv
<1>6. ClocksOncePerMinimum'
  BY <1>2, ClockingIsFinite DEF ClocksOncePerMinimum, Clocking
<1> QED  BY <1>4, <1>5, <1>6

\* So do the steps that touch no clock.
LEMMA OthersKeep ==
  ASSUME IInv, NEW t \in Threads, SendOpLogsAllTables(t) \/ DeregisterThread(t)
  PROVE  IInv'
<1> USE DEF IInv, TypeOK, SendOpLogsAllTables, DeregisterThread
<1>1. Clocking' = Clocking
  BY DEF Clocking
<1>2. Registered' = Registered
  BY DEF Registered
<1>3. ClockInv'
  BY <1>2 DEF ClockInv
<1>4. PublishedInv' /\ BarrierInv'
  BY <1>2 DEF PublishedInv, BarrierInv
<1>5. ClocksOncePerMinimum'
  BY <1>1 DEF ClocksOncePerMinimum, Clocking
<1> QED  BY <1>3, <1>4, <1>5

\* Every step keeps the invariant.
LEMMA StepKeeps == IInv /\ [Next]_vars => IInv'
<1> SUFFICES ASSUME IInv, [Next]_vars PROVE IInv'
  OBVIOUS
<1>1. CASE UNCHANGED vars
  BY <1>1 DEF vars, IInv, TypeOK, ClockInv, BarrierInv, PublishedInv, ClocksOncePerMinimum, Registered
<1>2. CASE Next
  BY <1>2, RegisterKeeps, BarrierKeeps, PublishKeeps, TickKeeps, TellKeeps, OthersKeep
     DEF Next, ThreadNext
<1> QED  BY <1>1, <1>2

\* The invariant always holds.
LEMMA IInvHolds == Spec => []IInv
BY InitEstablishes, StepKeeps, PTL DEF Spec

\* The clocks, the barrier and the threads' phases keep their types.
THEOREM TypesStayRight == Spec => []TypeOK
BY IInvHolds, PTL DEF IInv

\* The background workers are told to clock exactly once for each clock that
\* every thread of the process has ended, however the threads' ticks and calls
\* interleave, for any number of threads.
THEOREM ClocksToldOnce == Spec => []ClocksOncePerMinimum
BY IInvHolds, PTL DEF IInv

\* No clock message leaves before every thread has published the updates of
\* that clock.
THEOREM ClocksCoverUpdates == Spec => []ClockCoversUpdates
<1>1. IInv => ClockCoversUpdates
  <2> SUFFICES ASSUME IInv, NEW t \in Threads PROVE told <= published[t]
    BY DEF ClockCoversUpdates
  <2> USE DEF IInv, TypeOK
  <2>1. CASE phase[t] = "new"
    BY <2>1 DEF BarrierInv, PublishedInv
  <2>2. CASE phase[t] # "new"
    <3>1. t \in Registered
      BY <2>2 DEF Registered
    <3>2. /\ vectorClock.min \in Nat /\ vectorClock.vec[t] \in Nat
          /\ vectorClock.min <= vectorClock.vec[t]
      BY <3>1 DEF ClockInv, VectorClocks, IsMinimum
    <3>3. told <= vectorClock.min
      BY <3>2, ClockingIsFinite DEF ClocksOncePerMinimum, Clocking
    <3>4. vectorClock.vec[t] <= published[t]
      BY <3>1, <3>2 DEF PublishedInv
    <3> QED  BY <3>2, <3>3, <3>4
  <2> QED  BY <2>1, <2>2
<1> QED  BY <1>1, IInvHolds, PTL

\* The process' clock never goes back: the barrier lets nobody tick before the
\* last thread's clock is in.
THEOREM MinimumAlwaysRises == Spec => MinimumNeverFalls
<1>1. IInv /\ Next => vectorClock'.min >= vectorClock.min
  <2> SUFFICES ASSUME IInv, Next PROVE vectorClock'.min >= vectorClock.min
    OBVIOUS
  <2>1. vectorClock.min \in Int
    BY DEF IInv, TypeOK
  <2>2. ASSUME NEW t \in Threads, RegisterThread(t)
        PROVE  vectorClock'.min >= vectorClock.min
    <3>1. IInv'
      BY <2>2, RegisterKeeps
    <3>2. told = 0 /\ Clocking = {}
      BY <2>2 DEF IInv, BarrierInv, Clocking, RegisterThread
    <3>3. vectorClock.min \in {0, -1}
      BY <2>1, <3>2, FS_EmptySet DEF IInv, ClocksOncePerMinimum, Clocking
    <3>4. vectorClock'.min \in {0, vectorClock.min}
      BY <2>2 DEF RegisterThread, AddClock
    <3> QED  BY <3>3, <3>4
  <2>3. ASSUME NEW t \in Threads, TickClock(t)
        PROVE  vectorClock'.min >= vectorClock.min
    BY <2>3, TickKeeps
  <2>4. CASE UNCHANGED vectorClock
    BY <2>1, <2>4
  <2> QED
    BY <2>2, <2>3, <2>4 DEF Next, ThreadNext, PassBarrier, PublishUpdates, ClockAllTables,
                            SendOpLogsAllTables, DeregisterThread
<1>2. IInv /\ [Next]_vars => [vectorClock'.min >= vectorClock.min]_vars
  BY <1>1
<1> QED  BY <1>2, IInvHolds, PTL DEF Spec, MinimumNeverFalls
=============================================================================
