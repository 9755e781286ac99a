------------------------------ MODULE TableGroup ------------------------------
(***************************************************************************)
(* petuum_ps/client/table_group.cpp: the life of the application threads   *)
(* of one client process.  They register, wait for each other at a         *)
(* barrier, clock any number of times in any interleaving and deregister;  *)
(* the background workers are told to clock each time the process' slowest *)
(* thread has ended a clock.                                               *)
(*                                                                         *)
(* Clock is not atomic: a thread publishes its updates (the tables' Clock),*)
(* then ticks the vector clock under its lock (VectorClockMT), then sends. *)
(* Other threads run between these steps.                                  *)
(*                                                                         *)
(* Operators commented "Mutant of X: ..." are what a slip in X would make  *)
(* of it.  The specification does not use them; substituted for X, each    *)
(* must break a property.                                                  *)
(***************************************************************************)
EXTENDS Integers, FiniteSets, VectorClock

CONSTANTS
  Threads,        \* the threads that access tables
  InitThread,     \* the thread that built the table group
  Aggressive,     \* aggressive_clock
  MaxClock        \* bound: clocks per thread

ASSUME ThreadsAssumption == IsFiniteSet(Threads) /\ Threads # {}
ASSUME SettingsAssumption == Aggressive \in BOOLEAN /\ MaxClock \in Nat

VARIABLES
  phase,          \* what each thread does next
  published,      \* ghost: the clocks whose updates each thread has published
  vectorClock,    \* vector_clock_
  told            \* ghost: calls of BgWorkers::ClockAllTables

vars == <<phase, published, vectorClock, told>>

\* The constructor registers the init thread's clock if it accesses tables.
Init ==
  /\ phase = [t \in Threads |-> IF t = InitThread THEN "registered" ELSE "new"]
  /\ published = [t \in Threads |-> 0]
  /\ vectorClock = IF InitThread \in Threads THEN AddClock(NoClock, InitThread, 0) ELSE NoClock
  /\ told = 0

\* Mutant of RegisterThread: the new clock starts below the first one.
RegisterThreadEarlier(t) ==
  /\ phase[t] = "new"
  /\ phase' = [phase EXCEPT ![t] = "registered"]
  /\ vectorClock' = AddClock(vectorClock, t, -1)
  /\ UNCHANGED <<published, told>>

\* RegisterThread, up to the barrier.
RegisterThread(t) ==
  /\ phase[t] = "new"
  /\ phase' = [phase EXCEPT ![t] = "registered"]
  /\ vectorClock' = AddClock(vectorClock, t, 0)
  /\ UNCHANGED <<published, told>>

\* Mutant of PassBarrier: a thread does not wait for the others.
PassAlone ==
  \E t \in Threads :
    /\ phase[t] = "registered"
    /\ phase' = [phase EXCEPT ![t] = "run"]
    /\ UNCHANGED <<published, vectorClock, told>>

\* pthread_barrier_wait in RegisterThread and WaitThreadRegister: it lets
\* get_num_table_threads() threads through together.
PassBarrier ==
  /\ \A t \in Threads : phase[t] = "registered"
  /\ phase' = [t \in Threads |-> "run"]
  /\ UNCHANGED <<published, vectorClock, told>>

\* Clock, first part: every table's Clock.
PublishUpdates(t) ==
  /\ phase[t] = "run" /\ published[t] < MaxClock
  /\ published' = [published EXCEPT ![t] = @ + 1]
  /\ phase' = [phase EXCEPT ![t] = "tick"]
  /\ UNCHANGED <<vectorClock, told>>

\* Mutant of TickClock: tells the workers after every tick.
TickClockTell(t) ==
  /\ phase[t] = "tick"
  /\ vectorClock' = Tick(vectorClock, t)
  /\ phase' = [phase EXCEPT ![t] = "clock"]
  /\ UNCHANGED <<published, told>>

\* Mutant of TickClock: never tells them.
TickClockQuiet(t) ==
  /\ phase[t] = "tick"
  /\ vectorClock' = Tick(vectorClock, t)
  /\ phase' = [phase EXCEPT ![t] = "run"]
  /\ UNCHANGED <<published, told>>

\* Clock, second part: ClockAggressive and ClockConservative.
TickClock(t) ==
  /\ phase[t] = "tick"
  /\ vectorClock' = Tick(vectorClock, t)
  /\ phase' = [phase EXCEPT ![t] = IF TickResult(vectorClock, t) # 0 THEN "clock"
                                   ELSE IF Aggressive THEN "flush" ELSE "run"]
  /\ UNCHANGED <<published, told>>

ClockAllTables(t) ==
  /\ phase[t] = "clock"
  /\ phase' = [phase EXCEPT ![t] = "run"]
  /\ told' = told + 1
  /\ UNCHANGED <<published, vectorClock>>

SendOpLogsAllTables(t) ==
  /\ phase[t] = "flush"
  /\ phase' = [phase EXCEPT ![t] = "run"]
  /\ UNCHANGED <<published, vectorClock, told>>

\* DeregisterThread: the thread's clock stays in the vector clock.
DeregisterThread(t) ==
  /\ phase[t] = "run"
  /\ phase' = [phase EXCEPT ![t] = "gone"]
  /\ UNCHANGED <<published, vectorClock, told>>

ThreadNext(t) ==
  \/ RegisterThread(t)
  \/ PublishUpdates(t)
  \/ TickClock(t)
  \/ ClockAllTables(t)
  \/ SendOpLogsAllTables(t)
  \/ DeregisterThread(t)

Next == PassBarrier \/ \E t \in Threads : ThreadNext(t)

Spec == Init /\ [][Next]_vars

\* A thread that clocks goes on with it.
Fairness ==
  /\ WF_vars(PassBarrier)
  /\ \A t \in Threads :
       WF_vars(\/ RegisterThread(t) \/ PublishUpdates(t) \/ TickClock(t)
               \/ ClockAllTables(t) \/ SendOpLogsAllTables(t))

FairSpec == Spec /\ Fairness

-----------------------------------------------------------------------------
\* Every variable has the type its C++ counterpart has in the model.
TypeOK ==
  /\ phase \in [Threads -> {"new", "registered", "run", "tick", "clock", "flush", "gone"}]
  /\ published \in [Threads -> Nat]
  /\ DOMAIN vectorClock = {"vec", "min"}
  /\ DOMAIN vectorClock.vec \subseteq Threads
  /\ vectorClock.vec \in [DOMAIN vectorClock.vec -> Nat]
  /\ vectorClock.min \in Int
  /\ told \in Nat

\* The background workers clock once for each clock that every thread of the
\* process has ended: as many calls as the minimum, counting those on the way.
\* The result of one Tick is one call's whole knowledge of the other threads.
ClocksOncePerMinimum ==
  told + Cardinality({t \in Threads : phase[t] = "clock"})
    = (IF vectorClock.min = -1 THEN 0 ELSE vectorClock.min)

\* When the workers are told to clock for the k-th time, every thread has
\* published the updates of its first k clocks: a clock message can never
\* overtake the updates it stands for (publish before tick before send).
ClockCoversUpdates == \A t \in Threads : told <= published[t]

\* Nothing is told before all threads have registered, and the slowest
\* thread's clock never goes back: a clock that is added at 0 after another
\* thread has ticked would pull it down (the barrier in RegisterThread).
MinimumNeverFalls == [][vectorClock'.min >= vectorClock.min]_vars

\* As long as nobody deregisters, the workers are told of every clock that all
\* the threads end.
ClocksAreTold ==
  (\A t \in Threads : phase[t] # "gone") ~>
     (told = MaxClock \/ \E t \in Threads : phase[t] = "gone")
=============================================================================
