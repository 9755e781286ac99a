--------------------------- MODULE MCProcessStorage ---------------------------
(* An instance of ProcessStorage for TLC. *)
EXTENDS ProcessStorage, TLC

CONSTANTS w1, w2, t1

\* Channels 0 and 2 of three; rows 0 and 2 share a lock when the capacity is 2.
TwoAndOne == w1 :> {0, 3} @@ w2 :> {2}
==============================================================================
