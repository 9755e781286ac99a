--------------------------- MODULE ServerVersionMgr ---------------------------
(***************************************************************************)
(* petuum_ps/thread/server_version_mgr.{hpp,cpp}: the oplog version that   *)
(* every server of a background worker has applied, and the lowest of      *)
(* them.                                                                   *)
(*                                                                         *)
(*   of      version_map_: server -> the version it acknowledged last      *)
(*   min     min_version_                                                  *)
(*   upper   version_upper_bound_: the last version sent                   *)
(*                                                                         *)
(* Versions are 32-bit words that wrap around, here words of Modulus       *)
(* values; -1 is the highest word.  A word above the upper bound is older  *)
(* than every word up to it.                                               *)
(***************************************************************************)
EXTENDS Integers, FiniteSetsExt

CONSTANT Modulus    \* 2^32

\* Mutant of Word: versions as signed integers of a larger width.
WideWord(v) == v

Word(v) == v % Modulus

\* ServerVersionMgr(server_ids).
StartVersions(Servers) ==
  [of |-> [s \in Servers |-> Word(-1)], min |-> Word(-1), upper |-> Word(-1)]

IncVersionUpperBound(m) == [m EXCEPT !.upper = Word(@ + 1)]

IsUniqueMin(m, s) ==
  /\ m.of[s] = m.min
  /\ \A z \in DOMAIN m.of \ {s} : m.of[z] # m.min

\* Mutant of Oldest: forgets that versions wrap around.
LowestWord(words, upper) == Min(words)

\* The oldest of the words when some may have wrapped around.
Oldest(words, upper) ==
  LET wrapped == {w \in words : w > upper}
  IN  Min(IF wrapped # {} THEN wrapped ELSE words)

\* SetServerVersion returns true: the minimum has to be found anew.
RaisesMin(m, s, version) == m.of[s] # version /\ IsUniqueMin(m, s)

\* SetServerVersion.
SetServerVersion(m, s, version) ==
  LET of    == [m.of EXCEPT ![s] = version]
      words == {of[z] : z \in DOMAIN of}
  IN  [m EXCEPT
        !.of = of,
        !.min = IF ~RaisesMin(m, s, version) THEN @
                ELSE IF m.min < m.upper THEN Min(words)
                ELSE Oldest(words, m.upper)]
=============================================================================
