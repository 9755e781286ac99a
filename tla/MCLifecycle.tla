----------------------------- MODULE MCLifecycle -----------------------------
(* An instance of Lifecycle for TLC. *)
EXTENDS Lifecycle, TLC

CONSTANTS c1, c2, t1, t2, t3

\* Two processes; the first has a thread beside its init thread.
TwoAndOne == t1 :> c1 @@ t2 :> c1 @@ t3 :> c2
OneClock == [t \in Threads |-> IF t = t2 THEN 1 ELSE 0]
FirstThreads == c1 :> t1 @@ c2 :> t3
==============================================================================
