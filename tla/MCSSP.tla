-------------------------------- MODULE MCSSP --------------------------------
(* Instances of SSP for TLC. *)
EXTENDS SSP, TLC

CONSTANTS c1, c2, t1, t2, t3, r1, r2

\* One thread in each of two processes.
OnePerClient == t1 :> c1 @@ t2 :> c2

\* Two threads in the first process, one in the second.
TwoAndOne == t1 :> c1 @@ t2 :> c1 @@ t3 :> c2

\* Both threads in one process.
Together == t1 :> c1 @@ t2 :> c1

\* One thread increments each row once.
IncsThird == [t \in Threads |-> [r \in Rows |-> IF t = t3 THEN 1 ELSE 0]]
IncsFirst == [t \in Threads |-> [r \in Rows |-> IF t = t1 THEN 1 ELSE 0]]

\* One thread alone.
Alone == t1 :> c1

\* Threads that only read and clock.
IncsNone == [t \in Threads |-> [r \in Rows |-> 0]]

\* Where the rows live.
OneRow == r1 :> c1
BothOnFirst == r1 :> c1 @@ r2 :> c1
Spread == r1 :> c1 @@ r2 :> c2
=============================================================================
