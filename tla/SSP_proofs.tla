------------------------------ MODULE SSP_proofs ------------------------------
(***************************************************************************)
(* SSP, for any number of processes, threads, servers, rows, clocks and    *)
(* any staleness.                                                          *)
(*                                                                         *)
(* The first part is about what travels from the background workers to the *)
(* servers (IInv).  The second is about the types of all variables, and    *)
(* what they rest on: which thread waits for which row (WaitingOK), what a *)
(* thread had made at the end of each of its clocks (HistoryOK), and that  *)
(* the advances of a process' clock that are on their way to its worker    *)
(* are no more than its threads ended (ProcessOK).  With IInv they make    *)
(* Inv, which every step keeps.  Sums over threads and rows come before    *)
(* them.                                                                   *)
(***************************************************************************)
EXTENDS SSP, VectorClock_proofs, SequenceTheorems, FiniteSetTheorems

-----------------------------------------------------------------------------
(* Channels.  What else a message holds does not matter here, so a channel  *)
(* is any sequence.                                                        *)

IsSeq(q) == q \in Seq({q[i] : i \in DOMAIN q})

\* An empty channel is a sequence.
LEMMA EmptyIsSeq == IsSeq(<< >>)
BY DEF IsSeq

\* What Append makes of a channel.
LEMMA AppendToSeq ==
  ASSUME NEW q, IsSeq(q), NEW e
  PROVE  /\ IsSeq(Append(q, e))
         /\ Len(q) \in Nat /\ DOMAIN q = 1 .. Len(q)
         /\ DOMAIN Append(q, e) = 1 .. Len(q) + 1
         /\ \A i \in 1 .. Len(q) : Append(q, e)[i] = q[i]
         /\ Append(q, e)[Len(q) + 1] = e
<1> DEFINE S == {q[i] : i \in DOMAIN q} \cup {e}
           a == Append(q, e)
<1>1. q \in Seq(S) /\ e \in S
  BY SeqMonotonic DEF IsSeq
<1> HIDE DEF S
<1>2. /\ a \in Seq(S) /\ Len(a) = Len(q) + 1
      /\ \A i \in 1 .. Len(q) : a[i] = q[i]
      /\ a[Len(q) + 1] = e
  BY <1>1, AppendProperties
<1>3. Len(q) \in Nat /\ DOMAIN q = 1 .. Len(q)
  BY <1>1, LenProperties
<1>4. DOMAIN a = 1 .. Len(q) + 1
  BY <1>2, LenProperties
<1>5. IsSeq(a)
  <2> HIDE DEF a
  <2>1. a \in [1 .. Len(a) -> {a[i] : i \in DOMAIN a}] /\ Len(a) \in Nat
    BY <1>2, LenProperties
  <2> QED  BY <2>1, SeqDef DEF IsSeq
<1> QED  BY <1>2, <1>3, <1>4, <1>5

\* What Tail leaves of a channel.
LEMMA TailOfSeq ==
  ASSUME NEW q, IsSeq(q), q # << >>
  PROVE  /\ IsSeq(Tail(q))
         /\ Len(q) \in Nat \ {0} /\ DOMAIN q = 1 .. Len(q)
         /\ DOMAIN Tail(q) = 1 .. Len(q) - 1
         /\ \A i \in 1 .. Len(q) - 1 : Tail(q)[i] = q[i + 1]
         /\ Head(q) = q[1]
<1> DEFINE S == {q[i] : i \in DOMAIN q}
           t == Tail(q)
<1>1. q \in Seq(S)
  BY DEF IsSeq
<1> HIDE DEF S
<1>2. /\ t \in Seq(S) /\ Len(t) = Len(q) - 1
      /\ \A i \in 1 .. Len(t) : t[i] = q[i + 1]
  BY <1>1, HeadTailProperties
<1>3. Len(q) \in Nat \ {0} /\ DOMAIN q = 1 .. Len(q)
  BY <1>1, LenProperties, EmptySeq
<1>4. DOMAIN t = 1 .. Len(q) - 1
  BY <1>2, LenProperties
<1>5. IsSeq(t)
  <2> HIDE DEF t
  <2>1. t \in [1 .. Len(t) -> {t[i] : i \in DOMAIN t}] /\ Len(t) \in Nat
    BY <1>2, LenProperties
  <2> QED  BY <2>1, SeqDef DEF IsSeq
<1>6. Head(q) = q[1]
  BY <1>1
<1> QED  BY <1>2, <1>3, <1>4, <1>5, <1>6

-----------------------------------------------------------------------------
(* Runs of consecutive numbers.                                            *)

\* One more at the end.
LEMMA ExtendRun ==
  ASSUME NEW num, NEW new, NEW n \in Nat, NEW low \in Int, NEW high \in Int,
         Consecutive(num, low, high),
         DOMAIN new = DOMAIN num \cup {n}, new[n] = high + 1,
         \A i \in DOMAIN num : i \in Nat /\ i < n /\ new[i] = num[i]
  PROVE  Consecutive(new, low, high + 1)
<1>1. \A i \in DOMAIN num : num[i] \in low + 1 .. high
  BY DEF Consecutive
<1>2. \A v \in low + 1 .. high : \E i \in DOMAIN num : num[i] = v
  BY DEF Consecutive
<1>3. \A i, j \in DOMAIN new : i < j => new[i] < new[j]
  BY <1>1 DEF Consecutive
<1>4. \A i \in DOMAIN new : new[i] \in low + 1 .. high + 1
  BY <1>1 DEF Consecutive
<1>5. ASSUME NEW v \in low + 1 .. high + 1
      PROVE  \E i \in DOMAIN new : new[i] = v
  <2>1. CASE v = high + 1
    BY <2>1
  <2>2. CASE v # high + 1
    BY <1>2, <2>2
  <2> QED  BY <2>1, <2>2
<1>6. {new[i] : i \in DOMAIN new} = low + 1 .. high + 1
  BY <1>4, <1>5
<1> QED  BY <1>3, <1>6 DEF Consecutive

\* The positions move down by one, and the one at position 1 leaves.
LEMMA ShiftRun ==
  ASSUME NEW num, NEW new, NEW low \in Int, NEW high \in Int,
         Consecutive(num, low, high),
         \A i \in DOMAIN new : i \in Nat \ {0} /\ i + 1 \in DOMAIN num /\ new[i] = num[i + 1],
         \A i \in DOMAIN num : i \in Nat \ {0} /\ (i # 1 => i - 1 \in DOMAIN new)
  PROVE  IF 1 \in DOMAIN num THEN num[1] = low + 1 /\ Consecutive(new, low + 1, high)
         ELSE Consecutive(new, low, high)
<1>1. \A i \in DOMAIN num : num[i] \in low + 1 .. high
  BY DEF Consecutive
<1>2. \A v \in low + 1 .. high : \E i \in DOMAIN num : num[i] = v
  BY DEF Consecutive
<1>3. \A i, j \in DOMAIN num : i < j => num[i] < num[j]
  BY DEF Consecutive
<1>4. ASSUME NEW i \in DOMAIN new, NEW j \in DOMAIN new, i < j
      PROVE  new[i] < new[j]
  <2>1. i + 1 < j + 1
    BY <1>4
  <2> QED  BY <1>3, <2>1
<1>5. ASSUME NEW i \in DOMAIN num, i # 1
      PROVE  i - 1 \in DOMAIN new /\ new[i - 1] = num[i]
  <2>1. i - 1 \in DOMAIN new /\ (i - 1) + 1 = i
    BY <1>5
  <2> QED  BY <2>1
<1>6. CASE 1 \in DOMAIN num
  <2>1. \A i \in DOMAIN num : i # 1 => num[i] > num[1]
    BY <1>1, <1>3, <1>6
  <2>2. num[1] = low + 1 /\ low + 1 <= high
    <3>1. num[1] \in low + 1 .. high
      BY <1>1, <1>6
    <3>2. PICK i \in DOMAIN num : num[i] = low + 1
      BY <1>2, <3>1
    <3> QED  BY <2>1, <3>1, <3>2
  <2>3. ASSUME NEW i \in DOMAIN new
        PROVE  new[i] \in low + 2 .. high
    <3>1. i + 1 # 1
      OBVIOUS
    <3>2. num[i + 1] > low + 1 /\ num[i + 1] \in low + 1 .. high
      BY <1>1, <2>1, <2>2, <3>1
    <3> QED  BY <3>2
  <2>4. ASSUME NEW v \in low + 2 .. high
        PROVE  \E i \in DOMAIN new : new[i] = v
    <3>1. PICK i \in DOMAIN num : num[i] = v
      BY <1>2
    <3>2. i # 1
      BY <2>2, <3>1
    <3> QED  BY <1>5, <3>1, <3>2
  <2>5. {new[i] : i \in DOMAIN new} = low + 2 .. high
    BY <2>3, <2>4
  <2>6. Consecutive(new, low + 1, high)
    BY <1>4, <2>2, <2>5 DEF Consecutive
  <2> QED  BY <1>6, <2>2, <2>6
<1>7. CASE 1 \notin DOMAIN num
  <2>1. \A i \in DOMAIN new : new[i] \in low + 1 .. high
    BY <1>1
  <2>2. ASSUME NEW v \in low + 1 .. high
        PROVE  \E i \in DOMAIN new : new[i] = v
    <3>1. PICK i \in DOMAIN num : num[i] = v
      BY <1>2
    <3> QED  BY <1>5, <1>7, <3>1
  <2>3. {new[i] : i \in DOMAIN new} = low + 1 .. high
    BY <2>1, <2>2
  <2>4. Consecutive(new, low, high)
    BY <1>4, <2>3 DEF Consecutive
  <2> QED  BY <1>7, <2>4
<1> QED  BY <1>6, <1>7

-----------------------------------------------------------------------------
(* How a message that is sent or received changes what a channel carries.  *)

\* A message at the end adds at most its own version.
LEMMA VersionsAfterSend ==
  ASSUME NEW q, IsSeq(q), NEW m
  PROVE  /\ Len(q) + 1 \in Nat
         /\ \A i \in DOMAIN Versions(q) :
              i \in Nat /\ i < Len(q) + 1 /\ Versions(Append(q, m))[i] = Versions(q)[i]
         /\ DOMAIN Versions(Append(q, m)) =
              DOMAIN Versions(q) \cup (IF m.type = "OpLog" THEN {Len(q) + 1} ELSE {})
         /\ m.type = "OpLog" => Versions(Append(q, m))[Len(q) + 1] = m.version
BY AppendToSeq DEF Versions

\* A message at the end adds at most its own clock.
LEMMA ClocksAfterSend ==
  ASSUME NEW q, IsSeq(q), NEW m
  PROVE  /\ Len(q) + 1 \in Nat
         /\ \A i \in DOMAIN Clocks(q) :
              i \in Nat /\ i < Len(q) + 1 /\ Clocks(Append(q, m))[i] = Clocks(q)[i]
         /\ DOMAIN Clocks(Append(q, m)) =
              DOMAIN Clocks(q) \cup (IF m.type = "OpLog" /\ m.isClock THEN {Len(q) + 1} ELSE {})
         /\ m.type = "OpLog" /\ m.isClock => Clocks(Append(q, m))[Len(q) + 1] = m.bgClock
BY AppendToSeq DEF Versions, Clocks

\* A request, or whatever is not an oplog, changes nothing.
LEMMA SendRequest ==
  ASSUME NEW q, IsSeq(q), NEW m, m.type # "OpLog"
  PROVE  Versions(Append(q, m)) = Versions(q) /\ Clocks(Append(q, m)) = Clocks(q)
BY AppendToSeq DEF Versions, Clocks

\* An oplog of the next version.
LEMMA SendVersion ==
  ASSUME NEW q, IsSeq(q), NEW low \in Int, NEW high \in Int,
         NEW m, m.type = "OpLog", m.version = high + 1, Consecutive(Versions(q), low, high)
  PROVE  Consecutive(Versions(Append(q, m)), low, high + 1)
<1> DEFINE num == Versions(q)
           new == Versions(Append(q, m))
           n == Len(q) + 1
<1>1. /\ n \in Nat /\ DOMAIN new = DOMAIN num \cup {n} /\ new[n] = high + 1
      /\ \A i \in DOMAIN num : i \in Nat /\ i < n /\ new[i] = num[i]
  BY VersionsAfterSend
<1>2. Consecutive(num, low, high)
  OBVIOUS
<1> HIDE DEF num, new, n
<1>3. Consecutive(new, low, high + 1)
  BY <1>1, <1>2, ExtendRun
<1> QED  BY <1>3 DEF new

\* An oplog that carries the next clock.
LEMMA SendClock ==
  ASSUME NEW q, IsSeq(q), NEW low \in Int, NEW high \in Int,
         NEW m, m.type = "OpLog", m.isClock, m.bgClock = high + 1,
         Consecutive(Clocks(q), low, high)
  PROVE  Consecutive(Clocks(Append(q, m)), low, high + 1)
<1> DEFINE num == Clocks(q)
           new == Clocks(Append(q, m))
           n == Len(q) + 1
<1>1. /\ n \in Nat /\ DOMAIN new = DOMAIN num \cup {n} /\ new[n] = high + 1
      /\ \A i \in DOMAIN num : i \in Nat /\ i < n /\ new[i] = num[i]
  BY ClocksAfterSend
<1>2. Consecutive(num, low, high)
  OBVIOUS
<1> HIDE DEF num, new, n
<1>3. Consecutive(new, low, high + 1)
  BY <1>1, <1>2, ExtendRun
<1> QED  BY <1>3 DEF new

\* An oplog that carries no clock.
LEMMA SendPlain ==
  ASSUME NEW q, IsSeq(q), NEW m, ~m.isClock
  PROVE  Clocks(Append(q, m)) = Clocks(q)
BY AppendToSeq DEF Versions, Clocks

\* Receiving an oplog, which carries the next version, or something else.
LEMMA ReceiveVersion ==
  ASSUME NEW q, IsSeq(q), q # << >>, NEW low \in Int, NEW high \in Int,
         Consecutive(Versions(q), low, high)
  PROVE  IF Head(q).type = "OpLog"
         THEN Head(q).version = low + 1 /\ Consecutive(Versions(Tail(q)), low + 1, high)
         ELSE Consecutive(Versions(Tail(q)), low, high)
<1> DEFINE num == Versions(q)
           new == Versions(Tail(q))
<1>1. /\ \A i \in DOMAIN new : i \in Nat \ {0} /\ i + 1 \in DOMAIN num /\ new[i] = num[i + 1]
      /\ \A i \in DOMAIN num : i \in Nat \ {0} /\ (i # 1 => i - 1 \in DOMAIN new)
  BY TailOfSeq DEF Versions
<1>2. /\ 1 \in DOMAIN num <=> Head(q).type = "OpLog"
      /\ 1 \in DOMAIN num => num[1] = Head(q).version
  BY TailOfSeq DEF Versions
<1> HIDE DEF num, new
<1>3. IF 1 \in DOMAIN num THEN num[1] = low + 1 /\ Consecutive(new, low + 1, high)
      ELSE Consecutive(new, low, high)
  BY <1>1, ShiftRun DEF num
<1> QED  BY <1>2, <1>3 DEF new

\* Receiving a clock, which is the next one, or something else.
LEMMA ReceiveClock ==
  ASSUME NEW q, IsSeq(q), q # << >>, NEW low \in Int, NEW high \in Int,
         Consecutive(Clocks(q), low, high)
  PROVE  IF Head(q).type = "OpLog" /\ Head(q).isClock
         THEN Head(q).bgClock = low + 1 /\ Consecutive(Clocks(Tail(q)), low + 1, high)
         ELSE Consecutive(Clocks(Tail(q)), low, high)
<1> DEFINE num == Clocks(q)
           new == Clocks(Tail(q))
<1>1. /\ \A i \in DOMAIN new : i \in Nat \ {0} /\ i + 1 \in DOMAIN num /\ new[i] = num[i + 1]
      /\ \A i \in DOMAIN num : i \in Nat \ {0} /\ (i # 1 => i - 1 \in DOMAIN new)
  BY TailOfSeq DEF Versions, Clocks
<1>2. /\ 1 \in DOMAIN num <=> Head(q).type = "OpLog" /\ Head(q).isClock
      /\ 1 \in DOMAIN num => num[1] = Head(q).bgClock
  BY TailOfSeq DEF Versions, Clocks
<1> HIDE DEF num, new
<1>3. IF 1 \in DOMAIN num THEN num[1] = low + 1 /\ Consecutive(new, low + 1, high)
      ELSE Consecutive(new, low, high)
  BY <1>1, ShiftRun DEF num
<1> QED  BY <1>2, <1>3 DEF new

-----------------------------------------------------------------------------
(* The invariant.                                                          *)

Shapes ==
  /\ version \in [Clients -> Nat]
  /\ clientClock \in [Clients -> Nat]
  /\ bgVersion \in [Servers -> [Clients -> Int]]
  /\ bgClock \in [Servers -> VectorClocks(Clients)]
  /\ DOMAIN bgToServer = Clients
  /\ \A c \in Clients : DOMAIN bgToServer[c] = Servers
  /\ \A c \in Clients, s \in Servers : IsSeq(bgToServer[c][s])
  /\ DOMAIN rowRequests = Servers
  /\ \A s \in Servers : DOMAIN rowRequests[s] = 0 .. MaxClock
  /\ \A s \in Servers, k \in 0 .. MaxClock : DOMAIN rowRequests[s][k] = Clients

\* Each server's minimum over the workers' clocks is exact.
ServerClocksExact == \A s \in Servers : IsMinimum(bgClock[s])

IInv == Shapes /\ ServerClocksExact /\ MessagesInSequence /\ BufferedRequestsWaitForTheFuture

\* What the invariant is about.
protocolVars == <<version, clientClock, bgVersion, bgClock, bgToServer, rowRequests>>

\* The invariant holds at the start.
LEMMA InitEstablishes == Start => IInv
<1> SUFFICES ASSUME Start PROVE IInv
  OBVIOUS
<1> USE DEF Start
<1>1. StartClock(Clients) \in VectorClocks(Clients) /\ IsMinimum(StartClock(Clients))
  BY ThreadsAssumption DEF StartClock, VectorClocks, IsMinimum
<1>2. Shapes
  BY <1>1, EmptyIsSeq DEF Shapes, NoRequests
<1>3. ServerClocksExact
  BY <1>1 DEF ServerClocksExact
<1>4. \A s \in Servers, c \in Clients : bgClock[s].vec[c] = 0
  BY DEF StartClock
<1>5. DOMAIN Versions(<< >>) = {} /\ DOMAIN Clocks(<< >>) = {}
  BY DEF Versions, Clocks
<1>6. Consecutive(Versions(<< >>), -1, -1) /\ Consecutive(Clocks(<< >>), 0, 0)
  BY <1>5 DEF Consecutive
<1>7. MessagesInSequence
  BY <1>4, <1>6 DEF MessagesInSequence
<1>8. BufferedRequestsWaitForTheFuture
  BY DEF BufferedRequestsWaitForTheFuture, NoRequests
<1> QED  BY <1>2, <1>3, <1>7, <1>8 DEF IInv

\* A step that touches nothing the invariant is about keeps it.
LEMMA UnchangedKeeps ==
  ASSUME IInv, UNCHANGED protocolVars
  PROVE  IInv'
<1>1. Shapes' /\ BufferedRequestsWaitForTheFuture'
  BY DEF IInv, Shapes, BufferedRequestsWaitForTheFuture, protocolVars
<1>2. ServerClocksExact'
  BY Zenon DEF IInv, ServerClocksExact, protocolVars
<1>3. MessagesInSequence'
  BY Zenon DEF IInv, MessagesInSequence, protocolVars
<1> QED  BY <1>1, <1>2, <1>3 DEF IInv

\* A row request goes to a server, whatever row it names.
LEMMA RequestKeeps ==
  ASSUME IInv, NEW c \in Clients, NEW s, NEW m, m.type # "OpLog",
         bgToServer' = [bgToServer EXCEPT ![c][s] = Append(@, m)],
         UNCHANGED <<version, clientClock, bgVersion, bgClock, rowRequests>>
  PROVE  IInv'
<1> USE DEF IInv, Shapes
<1>1. \A d \in Clients, z \in Servers :
        bgToServer'[d][z] = IF d = c /\ z = s THEN Append(bgToServer[d][z], m)
                            ELSE bgToServer[d][z]
  OBVIOUS
<1>2. Shapes'
  BY <1>1, AppendToSeq
<1>3. MessagesInSequence'
  BY <1>1, SendRequest DEF MessagesInSequence
<1>4. ServerClocksExact' /\ BufferedRequestsWaitForTheFuture'
  BY DEF ServerClocksExact, BufferedRequestsWaitForTheFuture
<1> QED  BY <1>2, <1>3, <1>4

\* The oplogs go to every server, with the process' clock or without.
LEMMA SendOpLogsKeeps ==
  ASSUME IInv, NEW c \in Clients, NEW isClock \in BOOLEAN, SendOpLogMsgs(c, isClock),
         clientClock' = IF isClock THEN [clientClock EXCEPT ![c] = @ + 1] ELSE clientClock,
         UNCHANGED <<bgVersion, bgClock, rowRequests>>
  PROVE  IInv'
<1> USE DEF IInv, Shapes
<1> DEFINE m(s) == OpLogMsg(c, s, isClock)
<1>1. \A d \in Clients, s \in Servers :
        bgToServer'[d][s] = IF d = c THEN Append(bgToServer[c][s], m(s)) ELSE bgToServer[d][s]
  BY DEF SendOpLogMsgs
<1>2. DOMAIN bgToServer' = Clients /\ \A d \in Clients : DOMAIN bgToServer'[d] = Servers
  BY DEF SendOpLogMsgs
<1>3. /\ version' = [version EXCEPT ![c] = @ + 1]
      /\ \A s \in Servers : /\ m(s).type = "OpLog" /\ m(s).isClock = isClock
                            /\ m(s).version = version[c] /\ m(s).bgClock = clientClock[c] + 1
  BY DEF SendOpLogMsgs, OpLogMsg
<1> HIDE DEF m
<1>4. Shapes'
  <2>1. version' \in [Clients -> Nat] /\ clientClock' \in [Clients -> Nat]
    BY <1>3
  <2>2. ASSUME NEW s \in Servers PROVE IsSeq(bgToServer'[c][s])
    <3>1. IsSeq(bgToServer[c][s])
      OBVIOUS
    <3>2. IsSeq(Append(bgToServer[c][s], m(s)))
      BY <3>1, AppendToSeq
    <3> QED  BY <1>1, <3>2
  <2>3. \A d \in Clients \ {c}, s \in Servers : IsSeq(bgToServer'[d][s])
    BY <1>1
  <2> QED  BY <1>2, <2>1, <2>2, <2>3
<1>5. ASSUME NEW s \in Servers
      PROVE  /\ Consecutive(Versions(bgToServer'[c][s]), bgVersion'[s][c], version'[c] - 1)
             /\ Consecutive(Clocks(bgToServer'[c][s]), bgClock'[s].vec[c], clientClock'[c])
  <2> DEFINE q == bgToServer[c][s]
             lv == bgVersion[s][c]
             lc == bgClock[s].vec[c]
             hv == version[c] - 1
             hc == clientClock[c]
  <2>1. IsSeq(q) /\ lv \in Int /\ lc \in Int /\ hv \in Int /\ hc \in Int
    BY DEF VectorClocks
  <2>2. Consecutive(Versions(q), lv, hv) /\ Consecutive(Clocks(q), lc, hc)
    BY DEF MessagesInSequence
  <2>3. m(s).version = hv + 1 /\ m(s).bgClock = hc + 1 /\ version'[c] - 1 = hv + 1
    BY <1>3
  <2> HIDE DEF q, lv, lc, hv, hc
  <2>4. Consecutive(Versions(Append(q, m(s))), lv, hv + 1)
    BY <1>3, <2>1, <2>2, <2>3, SendVersion
  <2>5. Consecutive(Clocks(Append(q, m(s))), lc, IF isClock THEN hc + 1 ELSE hc)
    <3>1. CASE isClock
      BY <1>3, <2>1, <2>2, <2>3, <3>1, SendClock
    <3>2. CASE ~isClock
      BY <1>3, <2>1, <2>2, <3>2, SendPlain
    <3> QED  BY <3>1, <3>2
  <2>6. clientClock'[c] = IF isClock THEN hc + 1 ELSE hc
    BY DEF hc
  <2> QED  BY <1>1, <2>3, <2>4, <2>5, <2>6 DEF q, lv, lc
<1>6. ASSUME NEW d \in Clients, NEW s \in Servers, d # c
      PROVE  /\ Consecutive(Versions(bgToServer'[d][s]), bgVersion'[s][d], version'[d] - 1)
             /\ Consecutive(Clocks(bgToServer'[d][s]), bgClock'[s].vec[d], clientClock'[d])
  BY <1>1, <1>3, <1>6 DEF MessagesInSequence
<1>7. MessagesInSequence'
  BY <1>5, <1>6 DEF MessagesInSequence
<1>8. ServerClocksExact' /\ BufferedRequestsWaitForTheFuture'
  BY DEF ServerClocksExact, BufferedRequestsWaitForTheFuture
<1> QED  BY <1>4, <1>7, <1>8

\* A server takes a row request from the channel and buffers or answers it.
LEMMA HandleRequestKeeps ==
  ASSUME IInv, NEW c \in Clients, NEW s \in Servers,
         RowRequestBuffered(s, c) \/ RowRequestReplied(s, c)
  PROVE  IInv'
<1> USE DEF IInv, Shapes
<1> DEFINE q == bgToServer[c][s]
<1>1. /\ q # << >> /\ Head(q).type = "RowRequest"
      /\ bgToServer' = [bgToServer EXCEPT ![c][s] = Tail(@)]
      /\ UNCHANGED <<version, clientClock, bgVersion, bgClock>>
  BY DEF RowRequestBuffered, RowRequestReplied, NextFromBg, bgVars, serverVars
<1>2. \A d \in Clients, z \in Servers :
        bgToServer'[d][z] = IF d = c /\ z = s THEN Tail(q) ELSE bgToServer[d][z]
  BY <1>1
<1>3. /\ IsSeq(q) /\ bgVersion[s][c] \in Int /\ bgClock[s].vec[c] \in Int
      /\ version[c] - 1 \in Int /\ clientClock[c] \in Int
      /\ Consecutive(Versions(q), bgVersion[s][c], version[c] - 1)
      /\ Consecutive(Clocks(q), bgClock[s].vec[c], clientClock[c])
  BY DEF MessagesInSequence, VectorClocks
<1>4. /\ Consecutive(Versions(Tail(q)), bgVersion[s][c], version[c] - 1)
      /\ Consecutive(Clocks(Tail(q)), bgClock[s].vec[c], clientClock[c])
  <2> HIDE DEF q
  <2>1. Head(q).type # "OpLog"
    BY <1>1
  <2> QED  BY <1>1, <1>3, <2>1, ReceiveVersion, ReceiveClock
<1>5. MessagesInSequence'
  BY <1>1, <1>2, <1>4 DEF MessagesInSequence
<1>6. /\ DOMAIN bgToServer' = Clients /\ \A d \in Clients : DOMAIN bgToServer'[d] = Servers
      /\ \A d \in Clients, z \in Servers : IsSeq(bgToServer'[d][z])
  BY <1>1, <1>2, <1>3, TailOfSeq
<1>7. CASE UNCHANGED rowRequests
  <2>1. Shapes' /\ ServerClocksExact' /\ BufferedRequestsWaitForTheFuture'
    BY <1>1, <1>6, <1>7 DEF ServerClocksExact, BufferedRequestsWaitForTheFuture
  <2> QED  BY <1>5, <2>1
<1>8. CASE RowRequestBuffered(s, c)
  <2> DEFINE k == Head(q).clock
  <2>1. /\ rowRequests' = [rowRequests EXCEPT ![s][k][c] = Append(@, Head(q).row)]
        /\ bgClock[s].min < k
    BY <1>8 DEF RowRequestBuffered
  <2> HIDE DEF k
  <2>2. /\ DOMAIN rowRequests' = Servers
        /\ \A z \in Servers : DOMAIN rowRequests'[z] = 0 .. MaxClock
        /\ \A z \in Servers, j \in 0 .. MaxClock : DOMAIN rowRequests'[z][j] = Clients
    BY <2>1
  <2>3. \A z \in Servers, j \in 0 .. MaxClock, d \in Clients :
          ~(z = s /\ j = k /\ d = c) => rowRequests'[z][j][d] = rowRequests[z][j][d]
    BY <2>1
  <2>4. BufferedRequestsWaitForTheFuture'
    BY <1>1, <2>1, <2>3 DEF BufferedRequestsWaitForTheFuture
  <2>5. Shapes' /\ ServerClocksExact'
    BY <1>1, <1>6, <2>2 DEF ServerClocksExact
  <2> QED  BY <1>5, <2>4, <2>5
<1> QED  BY <1>7, <1>8 DEF RowRequestReplied, serverVars

\* The next clock of one of S moves the minimum by one at most.
LEMMA NextClock ==
  ASSUME NEW S, NEW vc \in VectorClocks(S), IsMinimum(vc), NEW c \in S
  PROVE  LET new == TickUntil(vc, c, vc.vec[c] + 1)
             got == TickUntilResult(vc, c, vc.vec[c] + 1)
         IN  /\ new \in VectorClocks(S) /\ IsMinimum(new)
             /\ \A d \in S : new.vec[d] = IF d = c THEN vc.vec[c] + 1 ELSE vc.vec[d]
             /\ got # 0 => new.min = vc.min + 1
             /\ got = 0 => new.min = vc.min
<1> DEFINE k == vc.vec[c] + 1
           new == TickUntil(vc, c, k)
<1>1. DOMAIN vc.vec = S /\ (\A d \in S : vc.vec[d] \in Nat) /\ vc.min \in Nat /\ k \in Nat
  BY DEF VectorClocks
<1>2. /\ new \in VectorClocks(S) /\ IsMinimum(new)
      /\ new.min >= vc.min
      /\ TickUntilResult(vc, c, k) = IF new.min # vc.min THEN new.min ELSE 0
  BY <1>1, TickUntilKeepsMinimum
<1>3. \A d \in S : new.vec[d] = IF d = c THEN k ELSE vc.vec[d]
  BY <1>1 DEF TickUntil, VectorClocks
<1>4. new.min \in Nat /\ \A d \in S : new.min <= new.vec[d]
  BY <1>2 DEF VectorClocks, IsMinimum
<1>5. new.min <= vc.min + 1
  <2>1. PICK d \in S : vc.vec[d] = vc.min
    BY <1>1 DEF IsMinimum
  <2>2. new.vec[d] <= vc.min + 1
    BY <1>1, <1>3, <2>1
  <2>3. new.vec[d] \in Nat
    BY <1>1, <1>3
  <2> QED  BY <1>1, <1>4, <2>2, <2>3
<1> HIDE DEF new
<1> QED  BY <1>1, <1>2, <1>3, <1>4, <1>5 DEF new

\* What SSP and SSPPush do alike when a server handles an oplog.
OpLogHandled(s, c) ==
  LET msg    == Head(bgToServer[c][s])
      clocks == ClockUntil(s, c, msg)
  IN  /\ NextFromBg(s, c, "OpLog")
      /\ ApplyOpLogUpdateVersion(s, c, msg)
      /\ bgClock' = [bgClock EXCEPT ![s] = clocks]
      /\ rowRequests' = IF ClockChanges(s, c, msg) THEN [rowRequests EXCEPT ![s][clocks.min] = NoRequests]
                        ELSE rowRequests
      /\ UNCHANGED <<version, clientClock>>

\* HandleOpLog of SSP does that.
LEMMA OpLogIsHandled == \A s, c : HandleOpLog(s, c) => OpLogHandled(s, c)
BY DEF HandleOpLog, OpLogHandled, bgVars

\* What a clock that a server receives makes of its clocks.
LEMMA ClocksOfOpLog ==
  ASSUME IInv, NEW c \in Clients, NEW s \in Servers, NextFromBg(s, c, "OpLog")
  PROVE  LET msg    == Head(bgToServer[c][s])
             clocks == ClockUntil(s, c, msg)
         IN  /\ clocks \in VectorClocks(Clients) /\ IsMinimum(clocks)
             /\ \A d \in Clients \ {c} : clocks.vec[d] = bgClock[s].vec[d]
             /\ clocks.vec[c] = IF msg.isClock THEN bgClock[s].vec[c] + 1 ELSE bgClock[s].vec[c]
             /\ clocks.min = IF ClockChanges(s, c, msg) THEN bgClock[s].min + 1 ELSE bgClock[s].min
<1> DEFINE q == bgToServer[c][s]
           msg == Head(q)
<1>1. /\ q # << >> /\ msg.type = "OpLog" /\ IsSeq(q) /\ bgClock[s].vec[c] \in Nat /\ clientClock[c] \in Int
      /\ Consecutive(Clocks(q), bgClock[s].vec[c], clientClock[c])
      /\ bgClock[s] \in VectorClocks(Clients) /\ IsMinimum(bgClock[s])
  BY DEF IInv, Shapes, MessagesInSequence, VectorClocks, ServerClocksExact, NextFromBg
<1>2. msg.isClock => msg.bgClock = bgClock[s].vec[c] + 1
  <2> HIDE DEF q
  <2>1. bgClock[s].vec[c] \in Int
    BY <1>1
  <2> QED  BY <1>1, <2>1, ReceiveClock
<1> HIDE DEF msg
<1>3. CASE msg.isClock
  BY <1>1, <1>2, <1>3, NextClock DEF ClockUntil, ClockChanges, msg
<1>4. CASE ~msg.isClock
  BY <1>1, <1>4 DEF ClockUntil, ClockChanges, msg
<1> QED  BY <1>3, <1>4

\* A server applies an oplog; if it carries a clock and the minimum moves, the
\* requests for exactly the new minimum leave the buffer.
LEMMA HandleOpLogKeeps ==
  ASSUME IInv, NEW c \in Clients, NEW s \in Servers, OpLogHandled(s, c)
  PROVE  IInv'
<1> USE DEF IInv, Shapes
<1> DEFINE q == bgToServer[c][s]
           msg == Head(q)
           clocks == ClockUntil(s, c, msg)
           changed == ClockChanges(s, c, msg)
<1>1. /\ q # << >> /\ msg.type = "OpLog"
      /\ bgToServer' = [bgToServer EXCEPT ![c][s] = Tail(@)]
      /\ bgVersion' = [bgVersion EXCEPT ![s][c] = msg.version]
      /\ bgClock' = [bgClock EXCEPT ![s] = clocks]
      /\ rowRequests' = IF changed THEN [rowRequests EXCEPT ![s][clocks.min] = NoRequests]
                        ELSE rowRequests
      /\ UNCHANGED <<version, clientClock>>
  BY DEF OpLogHandled, ApplyOpLogUpdateVersion, NextFromBg
<1>2. \A d \in Clients, z \in Servers :
        bgToServer'[d][z] = IF d = c /\ z = s THEN Tail(q) ELSE bgToServer[d][z]
  BY <1>1
<1>3. /\ IsSeq(q) /\ bgVersion[s][c] \in Int /\ bgClock[s].vec[c] \in Nat
      /\ version[c] - 1 \in Int /\ clientClock[c] \in Int
      /\ Consecutive(Versions(q), bgVersion[s][c], version[c] - 1)
      /\ Consecutive(Clocks(q), bgClock[s].vec[c], clientClock[c])
      /\ bgClock[s] \in VectorClocks(Clients) /\ IsMinimum(bgClock[s])
  BY DEF MessagesInSequence, VectorClocks, ServerClocksExact
<1>4. /\ msg.version = bgVersion[s][c] + 1
      /\ Consecutive(Versions(Tail(q)), bgVersion[s][c] + 1, version[c] - 1)
  <2> HIDE DEF q
  <2> QED  BY <1>1, <1>3, ReceiveVersion
<1>5. IF msg.isClock
      THEN /\ msg.bgClock = bgClock[s].vec[c] + 1
           /\ Consecutive(Clocks(Tail(q)), bgClock[s].vec[c] + 1, clientClock[c])
      ELSE Consecutive(Clocks(Tail(q)), bgClock[s].vec[c], clientClock[c])
  <2> HIDE DEF q
  <2>1. bgClock[s].vec[c] \in Int
    BY <1>3
  <2> QED  BY <1>1, <1>3, <2>1, ReceiveClock
<1>6. /\ clocks \in VectorClocks(Clients) /\ IsMinimum(clocks)
      /\ \A d \in Clients \ {c} : clocks.vec[d] = bgClock[s].vec[d]
      /\ clocks.vec[c] = IF msg.isClock THEN bgClock[s].vec[c] + 1 ELSE bgClock[s].vec[c]
      /\ clocks.min = IF changed THEN bgClock[s].min + 1 ELSE bgClock[s].min
  BY ClocksOfOpLog DEF OpLogHandled
<1> HIDE DEF clocks, changed
<1>7. \A z \in Servers : bgClock'[z] = IF z = s THEN clocks ELSE bgClock[z]
  BY <1>1
<1>8. \A z \in Servers, d \in Clients :
        bgVersion'[z][d] = IF z = s /\ d = c THEN bgVersion[s][c] + 1 ELSE bgVersion[z][d]
  BY <1>1, <1>4
<1>9. ServerClocksExact'
  BY <1>6, <1>7 DEF ServerClocksExact
<1>10. MessagesInSequence'
  <2> SUFFICES ASSUME NEW z \in Servers, NEW d \in Clients
               PROVE  /\ Consecutive(Versions(bgToServer'[d][z]), bgVersion'[z][d], version'[d] - 1)
                      /\ Consecutive(Clocks(bgToServer'[d][z]), bgClock'[z].vec[d], clientClock'[d])
    BY DEF MessagesInSequence
  <2> HIDE DEF msg
  <2>1. CASE z = s /\ d = c
    BY <1>1, <1>2, <1>4, <1>5, <1>6, <1>7, <1>8, <2>1
  <2>2. CASE ~(z = s /\ d = c)
    <3>1. bgClock'[z].vec[d] = bgClock[z].vec[d]
      BY <1>6, <1>7, <2>2
    <3> QED  BY <1>1, <1>2, <1>8, <2>2, <3>1 DEF MessagesInSequence
  <2> QED  BY <2>1, <2>2
<1>11. Shapes'
  <2>1. /\ bgVersion' \in [Servers -> [Clients -> Int]]
    BY <1>1, <1>3, <1>4
  <2>2. bgClock' \in [Servers -> VectorClocks(Clients)]
    BY <1>1, <1>6
  <2>3. /\ DOMAIN bgToServer' = Clients /\ \A d \in Clients : DOMAIN bgToServer'[d] = Servers
        /\ \A d \in Clients, z \in Servers : IsSeq(bgToServer'[d][z])
    BY <1>1, <1>2, <1>3, TailOfSeq
  <2>4. /\ DOMAIN rowRequests' = Servers
        /\ \A z \in Servers : DOMAIN rowRequests'[z] = 0 .. MaxClock
        /\ \A z \in Servers, j \in 0 .. MaxClock : DOMAIN rowRequests'[z][j] = Clients
    BY <1>1 DEF NoRequests
  <2> QED  BY <1>1, <2>1, <2>2, <2>3, <2>4
<1>12. BufferedRequestsWaitForTheFuture'
  <2> SUFFICES ASSUME NEW z \in Servers, NEW d \in Clients, NEW k \in 0 .. MaxClock,
                      rowRequests'[z][k][d] # << >>
               PROVE  k > bgClock'[z].min
    BY DEF BufferedRequestsWaitForTheFuture
  <2>1. rowRequests[z][k][d] # << >> => k > bgClock[z].min
    BY DEF BufferedRequestsWaitForTheFuture
  <2>2. bgClock[z].min \in Nat /\ k \in Int
    BY BoundsAssumption DEF VectorClocks
  <2>3. CASE z = s /\ changed
    <3>1. rowRequests'[s] = [rowRequests[s] EXCEPT ![clocks.min] = NoRequests]
      BY <1>1, <2>3
    <3>2. k # clocks.min
      <4> SUFFICES ASSUME k = clocks.min PROVE FALSE
        OBVIOUS
      <4>1. rowRequests'[s][k] = NoRequests
        BY <3>1
      <4>2. NoRequests[d] = << >>
        BY DEF NoRequests
      <4> QED  BY <2>3, <4>1, <4>2
    <3>3. rowRequests[z][k][d] # << >>
      BY <2>3, <3>1, <3>2
    <3> QED  BY <1>6, <1>7, <2>1, <2>2, <2>3, <3>2, <3>3
  <2>4. CASE ~(z = s /\ changed)
    <3>1. rowRequests'[z] = rowRequests[z]
      BY <1>1, <2>4
    <3>2. bgClock'[z].min = bgClock[z].min
      BY <1>6, <1>7, <2>4
    <3> QED  BY <2>1, <3>1, <3>2
  <2> QED  BY <2>3, <2>4
<1> QED  BY <1>9, <1>10, <1>11, <1>12

\* Every step keeps the invariant.
LEMMA StepKeeps == IInv /\ [Next]_vars => IInv'
<1> SUFFICES ASSUME IInv, [Next]_vars PROVE IInv'
  OBVIOUS
<1>1. CASE UNCHANGED vars
  BY <1>1, UnchangedKeeps DEF vars, protocolVars, bgVars, serverVars, channelVars
<1>2. ASSUME NEW t \in Threads, ThreadNext(t)
      PROVE  IInv'
  <2>1. UNCHANGED protocolVars
    <3>1. CASE \E r \in Rows : Inc(t, r) \/ GetCached(t, r) \/ GetRequest(t, r)
      BY <3>1 DEF Inc, GetCached, GetRequest, RequestAndWait, protocolVars, bgVars, serverVars,
                  channelVars
    <3>2. CASE \E r \in Rows : ThreadInc(t, r) \/ ThreadGetCached(t, r) \/ ThreadGetRequest(t, r)
      BY <3>2 DEF ThreadInc, ThreadGetCached, ThreadGetRequest, RequestAndWait, protocolVars,
                  bgVars, serverVars, channelVars
    <3>3. CASE GetReturn(t) \/ ThreadGetReturn(t) \/ GetAgain(t) \/ GetAbort(t)
      BY <3>3 DEF GetReturn, ThreadGetReturn, GetAgain, GetAbort, protocolVars, bgVars, serverVars,
                  channelVars
    <3>4. CASE (\E r \in Rows : FlushRow(t, r)) \/ FlushThreadCache(t)
      BY <3>4 DEF FlushRow, FlushThreadCache, protocolVars, bgVars, serverVars, channelVars
    <3>5. CASE Clock(t) \/ TickThread(t) \/ TellBg(t)
      BY <3>5 DEF Clock, TickThread, TellBg, protocolVars, bgVars, serverVars, channelVars
    <3> QED  BY <1>2, <3>1, <3>2, <3>3, <3>4, <3>5 DEF ThreadNext
  <2> QED  BY <2>1, UnchangedKeeps
<1>3. ASSUME NEW c \in Clients, NEW t \in Threads,
             \/ RowRequestAnswered(c, t) \/ RowRequestForwarded(c, t)
             \/ HandleBgClock(c, t) \/ HandleBgSendOpLog(c, t)
      PROVE  IInv'
  <2>1. CASE RowRequestAnswered(c, t)
    <3>1. UNCHANGED protocolVars
      BY <2>1 DEF RowRequestAnswered, protocolVars, bgVars, serverVars
    <3> QED  BY <3>1, UnchangedKeeps
  <2>2. CASE RowRequestForwarded(c, t)
    <3> DEFINE msg == Head(appToBg[t])
               s == ServerOf[msg.row]
    <3>1. /\ UNCHANGED <<version, clientClock, bgVersion, bgClock, rowRequests>>
          /\ msg.type = "RowRequest"
          /\ bgToServer' \in {bgToServer, [bgToServer EXCEPT ![c][s] = Append(@, msg)]}
      BY <2>2 DEF RowRequestForwarded, NextFromApp, serverVars
    <3> HIDE DEF msg, s
    <3>2. CASE bgToServer' = bgToServer
      BY <3>1, <3>2, UnchangedKeeps DEF protocolVars
    <3>3. CASE bgToServer' = [bgToServer EXCEPT ![c][s] = Append(@, msg)]
      BY <3>1, <3>3, RequestKeeps
    <3> QED  BY <3>1, <3>2, <3>3
  <2>3. CASE HandleBgClock(c, t)
    BY <2>3, SendOpLogsKeeps DEF HandleBgClock, SendOpLogs, serverVars
  <2>4. CASE HandleBgSendOpLog(c, t)
    BY <2>4, SendOpLogsKeeps DEF HandleBgSendOpLog, SendOpLogs, serverVars
  <2> QED  BY <1>3, <2>1, <2>2, <2>3, <2>4
<1>4. ASSUME NEW c \in Clients, NEW s \in Servers, HandleReply(c, s)
      PROVE  IInv'
  <2> DEFINE reply == Head(serverToBg[s][c])
             again == ClockToRequest(mgr[c], reply.row, reply.clock, version[c])
             msg == RowRequest(reply.row, again)
             z == ServerOf[reply.row]
  <2>1. /\ UNCHANGED <<version, clientClock, bgVersion, bgClock, rowRequests>>
        /\ bgToServer' \in {bgToServer, [bgToServer EXCEPT ![c][z] = Append(@, msg)]}
    BY <1>4 DEF HandleReply, serverVars
  <2>2. msg.type # "OpLog"
    BY DEF RowRequest
  <2> HIDE DEF msg, z
  <2>3. CASE bgToServer' = bgToServer
    BY <2>1, <2>3, UnchangedKeeps DEF protocolVars
  <2>4. CASE bgToServer' = [bgToServer EXCEPT ![c][z] = Append(@, msg)]
    BY <2>1, <2>2, <2>4, RequestKeeps
  <2> QED  BY <2>1, <2>3, <2>4
<1>5. ASSUME NEW c \in Clients, NEW s \in Servers, HandleReplyAbort(c, s)
      PROVE  IInv'
  <2>1. UNCHANGED protocolVars
    BY <1>5 DEF HandleReplyAbort, protocolVars, bgVars, serverVars, channelVars
  <2> QED  BY <2>1, UnchangedKeeps
<1>6. ASSUME NEW s \in Servers, ServerNext(s)
      PROVE  IInv'
  BY <1>6, HandleRequestKeeps, HandleOpLogKeeps, OpLogIsHandled DEF ServerNext
<1> QED  BY <1>1, <1>2, <1>3, <1>4, <1>5, <1>6 DEF Next, BgNext

\* The invariant always holds.
LEMMA IInvHolds == Spec => []IInv
BY InitEstablishes, StepKeeps, PTL DEF Spec, Init

\* Between every worker and every server each version and each clock arrives
\* once and in order, for any number of processes and any interleaving of
\* clocks, flushes and row requests.
THEOREM MessagesStayInSequence == Spec => []MessagesInSequence
BY IInvHolds, PTL DEF IInv

\* The CHECK_EQ on versions in ApplyOpLogUpdateVersion never fails.
THEOREM VersionsAlwaysInOrder == Spec => []VersionsArriveInOrder
<1>1. IInv => VersionsArriveInOrder
  <2> SUFFICES ASSUME IInv, NEW s \in Servers, NEW c \in Clients,
                      bgToServer[c][s] # << >>, Head(bgToServer[c][s]).type = "OpLog"
               PROVE  Head(bgToServer[c][s]).version = bgVersion[s][c] + 1
    BY DEF VersionsArriveInOrder
  <2> DEFINE q == bgToServer[c][s]
  <2>1. /\ IsSeq(q) /\ bgVersion[s][c] \in Int /\ version[c] - 1 \in Int
        /\ Consecutive(Versions(q), bgVersion[s][c], version[c] - 1)
    BY DEF IInv, Shapes, MessagesInSequence
  <2> HIDE DEF q
  <2> QED  BY <2>1, ReceiveVersion DEF q
<1> QED  BY <1>1, IInvHolds, PTL

\* Looking up the requests for exactly the new minimum is enough: no request
\* is ever left behind in the buffer of a server whose minimum has passed it.
\* The minimum moves by one at a time because each worker's clocks arrive one
\* by one (MessagesInSequence) and the minimum is exact (ServerClocksExact).
THEOREM NoRequestIsPassedOver == Spec => []BufferedRequestsWaitForTheFuture
BY IInvHolds, PTL DEF IInv

-----------------------------------------------------------------------------
(* Sums over finite sets: what SumFunctionOnSet of the community modules,  *)
(* which takes the elements of the set away in an order nobody knows,      *)
(* returns.  The induction over finite sets is stated over a set of        *)
(* subsets, as no prover can instantiate an operator.                      *)

\* Induction over the subsets of a finite set.
LEMMA SubsetInduction ==
  ASSUME NEW S, IsFiniteSet(S), NEW Good,
         \A T \in SUBSET S : (\A U \in SUBSET T : U # T => U \in Good) => T \in Good
  PROVE  \A T \in SUBSET S : T \in Good
<1> SUFFICES ASSUME NEW T0 \in SUBSET S, T0 \notin Good PROVE FALSE
  OBVIOUS
<1> DEFINE Bad == {T \in SUBSET S : T \notin Good}
           Sizes == {Cardinality(T) : T \in Bad}
<1>1. \A T \in SUBSET S : IsFiniteSet(T) /\ Cardinality(T) \in Nat
  BY FS_Subset, FS_CardinalityType
<1>2. Sizes \in SUBSET Nat /\ Sizes # {}
  BY <1>1
<1>3. PICK k \in Sizes : \A j \in Sizes : k <= j
  <2> HIDE DEF Sizes
  <2> QED  BY <1>2, NatHasLeast
<1>4. PICK T \in Bad : Cardinality(T) = k
  BY <1>3
<1>5. ASSUME NEW U \in SUBSET T, U # T
      PROVE  U \in Good
  <2>1. U \in SUBSET S /\ Cardinality(U) <= Cardinality(T) /\ Cardinality(U) # Cardinality(T)
    BY <1>1, <1>5, FS_Subset
  <2>2. Cardinality(U) < k
    BY <1>1, <1>4, <2>1
  <2>3. ASSUME U \in Bad PROVE FALSE
    <3>1. Cardinality(U) \in Sizes
      BY <2>3
    <3>2. k <= Cardinality(U) /\ k \in Nat /\ Cardinality(U) \in Nat
      BY <1>2, <1>3, <3>1
    <3> QED  BY <2>2, <3>2
  <2> QED  BY <2>1, <2>3
<1> QED  BY <1>4, <1>5

-----------------------------------------------------------------------------
(* The recursion that SumFunctionOnSet stands for has a solution.          *)

Pick(s) == CHOOSE x \in s : TRUE

\* h adds up F over each subset of S.
AddsUp(h, F, S) ==
  h = [s \in SUBSET S |-> IF s = {} THEN 0 ELSE F[Pick(s)] + h[s \ {Pick(s)}]]

\* CHOOSE finds an element of a set that has one.
LEMMA PickIsElement ==
  ASSUME NEW s, s # {}
  PROVE  Pick(s) \in s
BY DEF Pick

\* It has only one.
LEMMA AddsUpOnce ==
  ASSUME NEW F, NEW S, IsFiniteSet(S), NEW T, IsFiniteSet(T),
         NEW g, AddsUp(g, F, S), NEW h, AddsUp(h, F, T)
  PROVE  \A U \in SUBSET (S \cap T) : g[U] = h[U]
<1> DEFINE Good == {U \in SUBSET (S \cap T) : g[U] = h[U]}
<1>1. IsFiniteSet(S \cap T)
  BY FS_Subset
<1>2. ASSUME NEW U \in SUBSET (S \cap T), \A V \in SUBSET U : V # U => V \in Good
      PROVE  U \in Good
  <2>1. /\ g[U] = IF U = {} THEN 0 ELSE F[Pick(U)] + g[U \ {Pick(U)}]
        /\ h[U] = IF U = {} THEN 0 ELSE F[Pick(U)] + h[U \ {Pick(U)}]
    BY DEF AddsUp
  <2>2. CASE U = {}
    BY <2>1, <2>2
  <2>3. CASE U # {}
    <3>1. U \ {Pick(U)} \in Good
      BY <1>2, <2>3, PickIsElement
    <3> QED  BY <2>1, <2>3, <3>1
  <2> QED  BY <2>2, <2>3
<1> HIDE DEF Good
<1>3. \A U \in SUBSET (S \cap T) : U \in Good
  BY <1>1, <1>2, SubsetInduction
<1> QED  BY <1>3 DEF Good

\* Every finite set has such a function.
LEMMA SomethingAddsUp ==
  ASSUME NEW F, NEW S, IsFiniteSet(S)
  PROVE  \E h : AddsUp(h, F, S)
<1> DEFINE Good == {T \in SUBSET S : \E h : AddsUp(h, F, T)}
           solution(T) == CHOOSE h : AddsUp(h, F, T)
<1>1. ASSUME NEW T \in SUBSET S, \A U \in SUBSET T : U # T => U \in Good
      PROVE  T \in Good
  <2> DEFINE rest(s) == s \ {Pick(s)}
             h == [s \in SUBSET T |-> IF s = {} THEN 0 ELSE F[Pick(s)] + solution(rest(s))[rest(s)]]
  <2>1. ASSUME NEW U \in SUBSET T, U # T
        PROVE  AddsUp(solution(U), F, U) /\ IsFiniteSet(U)
    <3>1. \E g : AddsUp(g, F, U)
      BY <1>1, <2>1
    <3>2. AddsUp(solution(U), F, U)
      BY <3>1
    <3> QED  BY <3>2, FS_Subset
  <2>2. ASSUME NEW s \in SUBSET T, s # {}
        PROVE  h[rest(s)] = solution(rest(s))[rest(s)]
    <3> DEFINE u == rest(s)
    <3>1. u \in SUBSET T /\ u # T
      BY <2>2, PickIsElement
    <3>2. AddsUp(solution(u), F, u) /\ IsFiniteSet(u)
      BY <2>1, <3>1
    <3>3. solution(u)[u] = IF u = {} THEN 0 ELSE F[Pick(u)] + solution(u)[rest(u)]
      <4> HIDE DEF u, solution
      <4> QED  BY <3>2 DEF AddsUp
    <3>4. h[u] = IF u = {} THEN 0 ELSE F[Pick(u)] + solution(rest(u))[rest(u)]
      BY <3>1
    <3>5. u # {} => solution(u)[rest(u)] = solution(rest(u))[rest(u)]
      <4> SUFFICES ASSUME u # {} PROVE solution(u)[rest(u)] = solution(rest(u))[rest(u)]
        OBVIOUS
      <4>1. rest(u) \in SUBSET T /\ rest(u) # T /\ rest(u) \subseteq u
        BY <3>1
      <4>2. AddsUp(solution(rest(u)), F, rest(u)) /\ IsFiniteSet(rest(u))
        BY <2>1, <4>1
      <4> HIDE DEF u, rest, solution
      <4> QED  BY <3>2, <4>1, <4>2, AddsUpOnce
    <3> QED  BY <3>3, <3>4, <3>5
  <2>3. h = [s \in SUBSET T |-> IF s = {} THEN 0 ELSE F[Pick(s)] + h[rest(s)]]
    <3> HIDE DEF solution
    <3> QED  BY <2>2
  <2>4. AddsUp(h, F, T)
    <3> HIDE DEF h
    <3> QED  BY <2>3 DEF AddsUp
  <2> QED  BY <2>4
<1> HIDE DEF Good
<1>2. \A T \in SUBSET S : T \in Good
  BY <1>1, SubsetInduction
<1>3. S \in Good
  BY <1>2
<1> QED  BY <1>3 DEF Good

\* What SumFunctionOnSet computes.
LEMMA SumIsSolution ==
  ASSUME NEW F, NEW S, IsFiniteSet(S), NEW h, AddsUp(h, F, S)
  PROVE  SumFunctionOnSet(F, S) = h[S]
<1> DEFINE g == CHOOSE h1 : h1 = [s \in SUBSET S |-> IF s = {} THEN 0
                              ELSE F[CHOOSE x \in s : TRUE] + h1[s \ {CHOOSE x \in s : TRUE}]]
<1>1. SumFunctionOnSet(F, S) = g[S]
  BY DEF SumFunctionOnSet, FoldFunctionOnSet, MapThenFoldSet
<1>2. h = [s \in SUBSET S |-> IF s = {} THEN 0
             ELSE F[CHOOSE x \in s : TRUE] + h[s \ {CHOOSE x \in s : TRUE}]]
  BY DEF AddsUp, Pick
<1>3. g = [s \in SUBSET S |-> IF s = {} THEN 0
             ELSE F[CHOOSE x \in s : TRUE] + g[s \ {CHOOSE x \in s : TRUE}]]
  BY <1>2
<1>4. AddsUp(g, F, S)
  <2> HIDE DEF g
  <2> QED  BY <1>3 DEF AddsUp, Pick
<1> HIDE DEF g
<1>5. g[S] = h[S]
  BY <1>4, AddsUpOnce
<1> QED  BY <1>1, <1>5

\* The empty sum.
LEMMA SumOfNone ==
  ASSUME NEW F
  PROVE  SumFunctionOnSet(F, {}) = 0
<1>1. IsFiniteSet({})
  BY FS_EmptySet
<1>2. PICK h : AddsUp(h, F, {})
  BY <1>1, SomethingAddsUp
<1>3. h[{}] = 0
  BY <1>2 DEF AddsUp
<1> QED  BY <1>1, <1>2, <1>3, SumIsSolution

\* A sum is one of its elements and the sum of the others.
LEMMA SumTakesOne ==
  ASSUME NEW F, NEW S, IsFiniteSet(S), S # {}
  PROVE  SumFunctionOnSet(F, S) = F[Pick(S)] + SumFunctionOnSet(F, S \ {Pick(S)})
<1> DEFINE rest == S \ {Pick(S)}
<1>1. PICK h : AddsUp(h, F, S)
  BY SomethingAddsUp
<1>2. IsFiniteSet(rest) /\ rest \subseteq S
  BY FS_Subset
<1>3. PICK g : AddsUp(g, F, rest)
  BY <1>2, SomethingAddsUp
<1>4. h[S] = F[Pick(S)] + h[rest]
  BY <1>1 DEF AddsUp
<1>5. h[rest] = g[rest]
  <2>1. rest \in SUBSET (S \cap rest)
    BY <1>2
  <2> HIDE DEF rest
  <2> QED  BY <1>1, <1>2, <1>3, <2>1, AddsUpOnce
<1>6. SumFunctionOnSet(F, S) = h[S] /\ SumFunctionOnSet(F, rest) = g[rest]
  <2> HIDE DEF rest
  <2> QED  BY <1>1, <1>2, <1>3, SumIsSolution
<1> QED  BY <1>4, <1>5, <1>6

-----------------------------------------------------------------------------
(* Sums of integers.                                                       *)

\* A sum depends only on the summands.
LEMMA SumOfSame ==
  ASSUME NEW F, NEW G, NEW S, IsFiniteSet(S), \A x \in S : F[x] = G[x]
  PROVE  SumFunctionOnSet(F, S) = SumFunctionOnSet(G, S)
<1> DEFINE Good == {T \in SUBSET S : SumFunctionOnSet(F, T) = SumFunctionOnSet(G, T)}
<1>1. ASSUME NEW T \in SUBSET S, \A U \in SUBSET T : U # T => U \in Good
      PROVE  T \in Good
  <2>1. CASE T = {}
    BY <2>1, SumOfNone
  <2>2. CASE T # {}
    <3>1. IsFiniteSet(T) /\ Pick(T) \in T
      BY <2>2, FS_Subset, PickIsElement
    <3>2. T \ {Pick(T)} \in Good
      BY <1>1, <3>1
    <3>3. /\ SumFunctionOnSet(F, T) = F[Pick(T)] + SumFunctionOnSet(F, T \ {Pick(T)})
          /\ SumFunctionOnSet(G, T) = G[Pick(T)] + SumFunctionOnSet(G, T \ {Pick(T)})
      BY <2>2, <3>1, SumTakesOne
    <3> QED  BY <3>1, <3>2, <3>3
  <2> QED  BY <2>1, <2>2
<1> HIDE DEF Good
<1>2. S \in Good
  BY <1>1, SubsetInduction
<1> QED  BY <1>2 DEF Good

\* A sum of integers is an integer.
LEMMA SumIsInt ==
  ASSUME NEW F, NEW S, IsFiniteSet(S), \A x \in S : F[x] \in Int
  PROVE  SumFunctionOnSet(F, S) \in Int
<1> DEFINE Good == {T \in SUBSET S : SumFunctionOnSet(F, T) \in Int}
<1>1. ASSUME NEW T \in SUBSET S, \A U \in SUBSET T : U # T => U \in Good
      PROVE  T \in Good
  <2>1. CASE T = {}
    BY <2>1, SumOfNone
  <2>2. CASE T # {}
    <3>1. IsFiniteSet(T) /\ Pick(T) \in T
      BY <2>2, FS_Subset, PickIsElement
    <3>2. T \ {Pick(T)} \in Good
      BY <1>1, <3>1
    <3>3. SumFunctionOnSet(F, T) = F[Pick(T)] + SumFunctionOnSet(F, T \ {Pick(T)})
      BY <2>2, <3>1, SumTakesOne
    <3> QED  BY <3>1, <3>2, <3>3
  <2> QED  BY <2>1, <2>2
<1> HIDE DEF Good
<1>2. S \in Good
  BY <1>1, SubsetInduction
<1> QED  BY <1>2 DEF Good

\* A sum of natural numbers is one.
LEMMA SumIsNat ==
  ASSUME NEW F, NEW S, IsFiniteSet(S), \A x \in S : F[x] \in Nat
  PROVE  SumFunctionOnSet(F, S) \in Nat
<1> DEFINE Good == {T \in SUBSET S : SumFunctionOnSet(F, T) \in Nat}
<1>1. ASSUME NEW T \in SUBSET S, \A U \in SUBSET T : U # T => U \in Good
      PROVE  T \in Good
  <2>1. CASE T = {}
    BY <2>1, SumOfNone
  <2>2. CASE T # {}
    <3>1. IsFiniteSet(T) /\ Pick(T) \in T
      BY <2>2, FS_Subset, PickIsElement
    <3>2. T \ {Pick(T)} \in Good
      BY <1>1, <3>1
    <3>3. SumFunctionOnSet(F, T) = F[Pick(T)] + SumFunctionOnSet(F, T \ {Pick(T)})
      BY <2>2, <3>1, SumTakesOne
    <3> QED  BY <3>1, <3>2, <3>3
  <2> QED  BY <2>1, <2>2
<1> HIDE DEF Good
<1>2. S \in Good
  BY <1>1, SubsetInduction
<1> QED  BY <1>2 DEF Good

\* A sum of zeros is zero.
LEMMA SumOfZeros ==
  ASSUME NEW F, NEW S, IsFiniteSet(S), \A x \in S : F[x] = 0
  PROVE  SumFunctionOnSet(F, S) = 0
<1> DEFINE Good == {T \in SUBSET S : SumFunctionOnSet(F, T) = 0}
<1>1. ASSUME NEW T \in SUBSET S, \A U \in SUBSET T : U # T => U \in Good
      PROVE  T \in Good
  <2>1. CASE T = {}
    BY <2>1, SumOfNone
  <2>2. CASE T # {}
    <3>1. IsFiniteSet(T) /\ Pick(T) \in T
      BY <2>2, FS_Subset, PickIsElement
    <3>2. T \ {Pick(T)} \in Good
      BY <1>1, <3>1
    <3>3. SumFunctionOnSet(F, T) = F[Pick(T)] + SumFunctionOnSet(F, T \ {Pick(T)})
      BY <2>2, <3>1, SumTakesOne
    <3> QED  BY <3>1, <3>2, <3>3
  <2> QED  BY <2>1, <2>2
<1> HIDE DEF Good
<1>2. S \in Good
  BY <1>1, SubsetInduction
<1> QED  BY <1>2 DEF Good

\* Any element can be taken from the sum, not only the one that is picked.
LEMMA SumTakesAny ==
  ASSUME NEW F, NEW S, IsFiniteSet(S), \A x \in S : F[x] \in Int, NEW y \in S
  PROVE  SumFunctionOnSet(F, S) = F[y] + SumFunctionOnSet(F, S \ {y})
<1> DEFINE Sum(T) == SumFunctionOnSet(F, T)
           Good == {T \in SUBSET S : \A z \in T : Sum(T) = F[z] + Sum(T \ {z})}
<1>1. ASSUME NEW T \in SUBSET S, \A U \in SUBSET T : U # T => U \in Good
      PROVE  T \in Good
  <2> SUFFICES ASSUME NEW z \in T PROVE Sum(T) = F[z] + Sum(T \ {z})
    OBVIOUS
  <2> DEFINE p == Pick(T)
  <2>1. p \in T /\ IsFiniteSet(T) /\ IsFiniteSet(T \ {z})
    BY FS_Subset, PickIsElement
  <2>2. Sum(T) = F[p] + Sum(T \ {p})
    BY <2>1, SumTakesOne
  <2>3. CASE p = z
    BY <2>2, <2>3
  <2>4. CASE p # z
    <3>1. T \ {p} \in Good /\ T \ {z} \in Good
      BY <1>1, <2>1
    <3>2. /\ Sum(T \ {p}) = F[z] + Sum((T \ {p}) \ {z})
          /\ Sum(T \ {z}) = F[p] + Sum((T \ {z}) \ {p})
      BY <2>1, <2>4, <3>1
    <3> DEFINE rest == (T \ {z}) \ {p}
    <3>3. (T \ {p}) \ {z} = rest
      OBVIOUS
    <3>4. Sum(T \ {p}) = F[z] + Sum(rest) /\ Sum(T \ {z}) = F[p] + Sum(rest)
      BY <3>2, <3>3
    <3>5. Sum(rest) \in Int
      <4>1. IsFiniteSet((T \ {z}) \ {p})
        BY <2>1, FS_Subset
      <4> QED  BY <4>1, SumIsInt
    <3>6. F[p] \in Int /\ F[z] \in Int
      BY <2>1
    <3> HIDE DEF p, Sum, rest
    <3> QED  BY <2>2, <3>4, <3>5, <3>6
  <2> QED  BY <2>3, <2>4
<1> HIDE DEF Good
<1>2. S \in Good
  BY <1>1, SubsetInduction
<1> QED  BY <1>2 DEF Good

\* The last summand of an interval.
LEMMA SumTakesLast ==
  ASSUME NEW F, NEW low \in Int, NEW i \in Int, low <= i, \A x \in low .. i : F[x] \in Int
  PROVE  SumFunctionOnSet(F, low .. i) = F[i] + SumFunctionOnSet(F, low .. i - 1)
<1>1. IsFiniteSet(low .. i)
  BY FS_Interval
<1>2. i \in low .. i
  OBVIOUS
<1>3. (low .. i) \ {i} = low .. i - 1
  OBVIOUS
<1>4. SumFunctionOnSet(F, low .. i) = F[i] + SumFunctionOnSet(F, (low .. i) \ {i})
  BY <1>1, <1>2, SumTakesAny
<1> QED  BY <1>3, <1>4

\* A sum of differences, each with the number before, telescopes.
LEMMA SumOfDifferences ==
  ASSUME NEW F, NEW G, NEW low \in Int, NEW high \in Int, low <= high,
         \A i \in low .. high : G[i] \in Int,
         \A i \in low + 1 .. high : F[i] = G[i] - G[i - 1]
  PROVE  SumFunctionOnSet(F, low + 1 .. high) = G[high] - G[low]
<1> DEFINE Sum(i) == SumFunctionOnSet(F, low + 1 .. i)
           fails(n) == low + n <= high /\ Sum(low + n) # G[low + n] - G[low]
           S == {n \in Nat : fails(n)}
<1>1. ASSUME NEW n \in Nat, n = 0 PROVE ~fails(n)
  <2>1. low + 1 .. low + n = {} /\ low + n = low
    BY <1>1
  <2>2. Sum(low + n) = 0
    BY <2>1, SumOfNone
  <2>3. G[low] \in Int
    OBVIOUS
  <2> QED  BY <2>1, <2>2, <2>3
<1>2. ASSUME NEW i \in low + 1 .. high, Sum(i - 1) = G[i - 1] - G[low]
      PROVE  Sum(i) = G[i] - G[low]
  <2>1. ASSUME NEW x \in low + 1 .. i PROVE F[x] \in Int
    <3>1. x \in low + 1 .. high /\ x \in low .. high /\ x - 1 \in low .. high
      OBVIOUS
    <3>2. F[x] = G[x] - G[x - 1] /\ G[x] \in Int /\ G[x - 1] \in Int
      BY <3>1
    <3> QED  BY <3>2
  <2>2. SumFunctionOnSet(F, low + 1 .. i) = F[i] + SumFunctionOnSet(F, low + 1 .. i - 1)
    BY <2>1, SumTakesLast
  <2>3. Sum(i) = F[i] + Sum(i - 1)
    BY <2>2
  <2>4. i \in low .. high /\ i - 1 \in low .. high /\ low \in low .. high
    OBVIOUS
  <2>5. F[i] = G[i] - G[i - 1] /\ G[i] \in Int /\ G[i - 1] \in Int /\ G[low] \in Int
    BY <2>4
  <2> HIDE DEF Sum
  <2> QED  BY <1>2, <2>3, <2>5
<1>3. S = {}
  <2> HIDE DEF Sum
  <2> SUFFICES ASSUME S # {} PROVE FALSE
    OBVIOUS
  <2>1. PICK n \in S : \A j \in S : n <= j
    <3>1. S \in SUBSET Nat
      OBVIOUS
    <3> HIDE DEF S
    <3> QED  BY <3>1, NatHasLeast
  <2>2. n \in Nat /\ n # 0 /\ fails(n)
    BY <1>1, <2>1
  <2>3. n - 1 \in Nat /\ n - 1 \notin S
    BY <2>1, <2>2
  <2>4. low + (n - 1) <= high
    BY <2>2
  <2>5. Sum(low + (n - 1)) = G[low + (n - 1)] - G[low]
    BY <2>3, <2>4
  <2>6. low + (n - 1) = (low + n) - 1 /\ low + n \in low + 1 .. high
    BY <2>2
  <2>7. Sum((low + n) - 1) = G[(low + n) - 1] - G[low]
    BY <2>5, <2>6
  <2> QED  BY <1>2, <2>2, <2>6, <2>7
<1>4. high - low \in Nat /\ low + (high - low) = high
  OBVIOUS
<1>5. ~fails(high - low)
  BY <1>3, <1>4
<1>6. Sum(high) = G[high] - G[low]
  <2> HIDE DEF Sum
  <2> QED  BY <1>4, <1>5
<1> QED  BY <1>6

\* F's value at each number of a range is what G grows by there; and what it
\* then grows by in all.
Differences(F, G, low, high) ==
  /\ \A i \in Int : G[i] \in Int
  /\ \A i \in low + 1 .. high : F[i] = G[i] - G[i - 1]

Grown(F, G, low, high) == SumFunctionOnSet(F, low + 1 .. high) = G[high] - G[low]

\* SumOfDifferences, with its quantifiers under names.
LEMMA DifferencesAddUp ==
  ASSUME NEW F, NEW G, NEW low \in Int, NEW high \in Int, low <= high, Differences(F, G, low, high)
  PROVE  Grown(F, G, low, high)
<1>1. \A i \in low .. high : G[i] \in Int
  BY DEF Differences
<1>2. \A i \in low + 1 .. high : F[i] = G[i] - G[i - 1]
  BY DEF Differences
<1> QED  BY ZenonT(40), <1>1, <1>2, SumOfDifferences DEF Grown

-----------------------------------------------------------------------------
(* The manager of row requests and oplogs.                                 *)

\* A bounded nonempty set of numbers has a maximum.
LEMMA MaxOfBounded ==
  ASSUME NEW n \in Nat, NEW S \in SUBSET (0 .. n), S # {}
  PROVE  Max(S) \in S /\ \A y \in S : Max(S) >= y
<1> DEFINE D == {n - x : x \in S}
<1>1. D \in SUBSET Nat /\ D # {}
  <2>1. \A x \in S : x \in 0 .. n
    OBVIOUS
  <2>2. \A x \in S : n - x \in Nat
    BY <2>1
  <2> QED  BY <2>2
<1>2. PICK k \in D : \A j \in D : k <= j
  <2> HIDE DEF D
  <2> QED  BY <1>1, NatHasLeast
<1>3. PICK x \in S : k = n - x
  BY <1>2
<1>4. \A y \in S : x >= y
  <2> TAKE y \in S
  <2>1. n - y \in D
    OBVIOUS
  <2>2. x \in 0 .. n /\ y \in 0 .. n
    OBVIOUS
  <2>3. n - x <= n - y
    BY <1>2, <1>3, <2>1
  <2> QED  BY <2>2, <2>3
<1>5. \E z \in S : \A y \in S : z >= y
  BY <1>4
<1> HIDE DEF D
<1> QED  BY <1>5 DEF Max

\* The list of a row's requests.
LEMMA PendingIsList ==
  ASSUME NEW m, IsMgr(m), NEW r \in Rows
  PROVE  LET q == m.pending[r]
         IN  /\ q \in Seq(Request) /\ Len(q) \in Nat /\ DOMAIN q = 1 .. Len(q)
             /\ \A i \in 1 .. Len(q) : q[i] \in Request
<1>1. m.pending[r] \in Seq(Request)
  BY DEF IsMgr
<1> QED  BY <1>1, LenProperties, ElementOfSeq

\* Behind is a position in the list, or before it.
LEMMA BehindIsPlace ==
  ASSUME NEW m, NEW r, NEW k, Len(m.pending[r]) \in Nat,
         DOMAIN m.pending[r] = 1 .. Len(m.pending[r])
  PROVE  Behind(m, r, k) \in 0 .. Len(m.pending[r])
<1> DEFINE q == m.pending[r]
           S == {0} \cup {i \in DOMAIN q : q[i].clock <= k}
<1>1. S \in SUBSET (0 .. Len(q)) /\ S # {}
  OBVIOUS
<1>2. Max(S) \in S
  <2>1. Len(q) \in Nat
    OBVIOUS
  <2> HIDE DEF S, q
  <2> QED  BY <1>1, <2>1, MaxOfBounded
<1> QED  BY <1>1, <1>2 DEF Behind

\* The same in a manager of SSP.
LEMMA BehindIsPosition ==
  ASSUME NEW m, IsMgr(m), NEW r \in Rows, NEW k \in Nat
  PROVE  Behind(m, r, k) \in 0 .. Len(m.pending[r])
BY PendingIsList, BehindIsPlace

\* What InsertAt makes of a list.
LEMMA InsertAtPosition ==
  ASSUME NEW S, NEW q \in Seq(S), NEW k \in 1 .. Len(q) + 1, NEW e \in S
  PROVE  LET new == InsertAt(q, k, e)
         IN  /\ new \in Seq(S) /\ Len(new) = Len(q) + 1
             /\ \A i \in 1 .. Len(q) + 1 :
                  new[i] = IF i < k THEN q[i] ELSE IF i = k THEN e ELSE q[i - 1]
<1> DEFINE a == SubSeq(q, 1, k - 1)
           b == SubSeq(q, k, Len(q))
<1>1. Len(q) \in Nat /\ \A i \in 1 .. Len(q) : q[i] \in S
  BY LenProperties, ElementOfSeq
<1>2. a \in Seq(S) /\ Len(a) = k - 1 /\ \A i \in 1 .. k - 1 : a[i] = q[i]
  <2>1. \A i \in 1 .. k - 1 : q[i] \in S
    BY <1>1
  <2> QED  BY <1>1, <2>1, SubSeqProperties
<1>3. b \in Seq(S) /\ Len(b) = Len(q) - k + 1 /\ \A i \in 1 .. Len(q) - k + 1 : b[i] = q[k + i - 1]
  <2>1. \A i \in k .. Len(q) : q[i] \in S
    BY <1>1
  <2> QED  BY <1>1, <2>1, SubSeqProperties
<1>4. <<e>> \in Seq(S) /\ Len(<<e>>) = 1 /\ <<e>>[1] = e
  OBVIOUS
<1> DEFINE x == a \o <<e>>
<1> HIDE DEF a, b
<1>5. /\ x \in Seq(S) /\ Len(x) = k
      /\ \A i \in 1 .. k : x[i] = IF i <= k - 1 THEN q[i] ELSE e
  <2>1. /\ x \in Seq(S) /\ Len(x) = Len(a) + 1
        /\ \A i \in 1 .. Len(a) + 1 : x[i] = IF i <= Len(a) THEN a[i] ELSE <<e>>[i - Len(a)]
    BY <1>2, <1>4, ConcatProperties
  <2>2. \A i \in 1 .. k : i - (k - 1) = 1 \/ i <= k - 1
    OBVIOUS
  <2>3. Len(a) + 1 = k
    BY <1>2
  <2> QED  BY <1>2, <2>1, <2>2, <2>3
<1> HIDE DEF x
<1>6. /\ x \o b \in Seq(S) /\ Len(x \o b) = Len(q) + 1
      /\ \A i \in 1 .. Len(q) + 1 : (x \o b)[i] = IF i <= k THEN x[i] ELSE b[i - k]
  <2>1. Len(x) + Len(b) = Len(q) + 1
    BY <1>1, <1>3, <1>5
  <2> QED  BY <1>3, <1>5, <2>1, ConcatProperties
<1>7. \A i \in 1 .. Len(q) + 1 :
        (x \o b)[i] = IF i < k THEN q[i] ELSE IF i = k THEN e ELSE q[i - 1]
  <2> TAKE i \in 1 .. Len(q) + 1
  <2>1. CASE i <= k
    <3>1. i \in 1 .. k /\ (i <= k - 1 <=> i < k) /\ (~(i < k) => i = k)
      BY <1>1, <2>1
    <3>2. (x \o b)[i] = IF i <= k - 1 THEN q[i] ELSE e
      BY <1>5, <1>6, <2>1, <3>1
    <3> QED  BY <3>1, <3>2
  <2>2. CASE i > k
    <3>1. i - k \in 1 .. Len(q) - k + 1 /\ k + (i - k) - 1 = i - 1
      BY <1>1, <2>2
    <3> QED  BY <1>3, <1>6, <2>2, <3>1
  <2>3. i <= k \/ i > k
    BY <1>1
  <2> QED  BY <2>1, <2>2, <2>3
<1>8. InsertAt(q, k, e) = x \o b
  BY DEF InsertAt, a, b, x
<1> QED  BY <1>6, <1>7, <1>8

\* What a reply satisfies is the head of the list.
LEMMA SatisfiedIsHead ==
  ASSUME NEW M, \A e \in M : e.clock \in Nat, NEW m, NEW r, m.pending[r] \in Seq(M), NEW k \in Nat
  PROVE  LET done == Satisfied(m, r, k)
             q == m.pending[r]
         IN  /\ done \in Seq(M) /\ Len(done) \in 0 .. Len(q)
             /\ DOMAIN done = 1 .. Len(done)
             /\ \A i \in 1 .. Len(done) : done[i] = q[i] /\ q[i].clock <= k
             /\ Len(done) < Len(q) => q[Len(done) + 1].clock > k
<1> DEFINE q == m.pending[r]
           S == {n \in 0 .. Len(q) : \A i \in 1 .. n : q[i].clock <= k}
           top == Max(S)
<1>1. Len(q) \in Nat /\ \A i \in 1 .. Len(q) : q[i] \in M
  BY LenProperties, ElementOfSeq
<1>2. S \in SUBSET (0 .. Len(q)) /\ 0 \in S
  BY <1>1
<1>3. top \in S /\ \A y \in S : top >= y
  <2> HIDE DEF S, q
  <2> QED  BY <1>1, <1>2, MaxOfBounded
<1>4. top \in 0 .. Len(q) /\ \A i \in 1 .. top : q[i].clock <= k
  BY <1>3
<1>5. top < Len(q) => q[top + 1].clock > k
  <2> SUFFICES ASSUME top < Len(q), ~(q[top + 1].clock > k) PROVE FALSE
    OBVIOUS
  <2> HIDE DEF top, q
  <2>1. q[top + 1] \in M
    BY <1>1, <1>4
  <2>2. q[top + 1].clock <= k
    BY <2>1
  <2>3. top + 1 \in S
    BY <1>1, <1>4, <2>2
  <2> QED  BY <1>3, <1>4, <2>3
<1> DEFINE done == SubSeq(q, 1, top)
<1>6. done \in Seq(M) /\ Len(done) = top /\ \A i \in 1 .. top : done[i] = q[i]
  <2> HIDE DEF top, q
  <2>1. \A i \in 1 .. top : q[i] \in M
    BY <1>1, <1>4
  <2>2. /\ done \in Seq(M) /\ Len(done) = IF 1 <= top THEN top - 1 + 1 ELSE 0
        /\ \A i \in 1 .. top - 1 + 1 : done[i] = q[1 + i - 1]
    BY <1>4, <2>1, SubSeqProperties
  <2> QED  BY <1>4, <2>2
<1>7. Satisfied(m, r, k) = done
  BY DEF Satisfied
<1>8. DOMAIN done = 1 .. Len(done)
  <2> HIDE DEF done
  <2> QED  BY <1>6, LenProperties
<1> HIDE DEF done, top, q
<1> QED  BY <1>4, <1>5, <1>6, <1>7, <1>8 DEF q

\* The same in a manager of SSP.
LEMMA SatisfiedIsPrefix ==
  ASSUME NEW m, IsMgr(m), NEW r \in Rows, NEW k \in Nat
  PROVE  LET done == Satisfied(m, r, k)
             q == m.pending[r]
         IN  /\ done \in Seq(Request) /\ Len(done) \in 0 .. Len(q)
             /\ DOMAIN done = 1 .. Len(done)
             /\ \A i \in 1 .. Len(done) : done[i] = q[i] /\ q[i].clock <= k
             /\ Len(done) < Len(q) => q[Len(done) + 1].clock > k
<1>1. m.pending[r] \in Seq(Request) /\ \A e \in Request : e.clock \in Nat
  BY DEF IsMgr, Request
<1> QED  BY <1>1, SatisfiedIsHead

\* n remembers no oplog that m does not.
KeepsOpLogs(m, n) ==
  /\ DOMAIN n.oplogs \subseteq DOMAIN m.oplogs
  /\ \A v \in DOMAIN n.oplogs : n.oplogs[v] = m.oplogs[v]

\* DecCount leaves counts that are positive.
LEMMA FewerCounts ==
  ASSUME NEW m, IsMgr(m), NEW v
  PROVE  LET n == [m EXCEPT !.count = DecCount(@, v)]
         IN  IsMgr(n) /\ n.pending = m.pending /\ n.oplogs = m.oplogs
<1> DEFINE count == DecCount(m.count, v)
           n == [pending |-> m.pending, oplogs |-> m.oplogs, count |-> count]
<1>1. /\ DOMAIN m.count \subseteq Int /\ \A x \in DOMAIN m.count : m.count[x] \in Nat \ {0}
      /\ m = [pending |-> m.pending, oplogs |-> m.oplogs, count |-> m.count]
  BY DEF IsMgr
<1>2. DOMAIN count \subseteq Int /\ \A x \in DOMAIN count : count[x] \in Nat \ {0}
  BY <1>1 DEF DecCount, Without
<1> HIDE DEF count
<1>3. [m EXCEPT !.count = count] = n
  BY <1>1
<1>4. IsMgr(n)
  BY <1>2 DEF IsMgr
<1> QED  BY <1>3, <1>4 DEF count

\* IncCount leaves counts that are positive.
LEMMA MoreCounts ==
  ASSUME NEW m, IsMgr(m), NEW v \in Int
  PROVE  LET count == IncCount(m.count, v)
         IN  DOMAIN count \subseteq Int /\ \A x \in DOMAIN count : count[x] \in Nat \ {0}
BY DEF IsMgr, IncCount

\* CleanVersionOpLogs only drops oplogs.
LEMMA CleaningKeepsOpLogs ==
  ASSUME NEW m, IsMgr(m), NEW v, NEW current
  PROVE  LET n == CleanVersionOpLogs(m, v, current)
         IN  IsMgr(n) /\ n.pending = m.pending /\ KeepsOpLogs(m, n)
<1> DEFINE gone == {w \in DOMAIN m.oplogs : w > v /\ \A x \in v + 1 .. w - 1 : x \notin DOMAIN m.count}
           left == Without(m.oplogs, gone)
           n == [pending |-> m.pending, oplogs |-> left, count |-> m.count]
<1>1. m = [pending |-> m.pending, oplogs |-> m.oplogs, count |-> m.count]
  BY DEF IsMgr
<1>2. CleanVersionOpLogs(m, v, current) \in {m, n}
  BY <1>1 DEF CleanVersionOpLogs
<1>3. DOMAIN left \subseteq DOMAIN m.oplogs /\ \A w \in DOMAIN left : left[w] = m.oplogs[w]
  BY DEF Without
<1> HIDE DEF left
<1>4. IsMgr(n) /\ KeepsOpLogs(m, n)
  BY <1>3 DEF IsMgr, KeepsOpLogs
<1> QED  BY <1>2, <1>4 DEF KeepsOpLogs

\* Forget only drops oplogs.
LEMMA ForgetKeepsOpLogs ==
  ASSUME NEW m, IsMgr(m), NEW v, NEW current
  PROVE  LET n == Forget(m, v, current)
         IN  IsMgr(n) /\ n.pending = m.pending /\ KeepsOpLogs(m, n)
<1> DEFINE n == [m EXCEPT !.count = DecCount(@, v)]
<1>1. IsMgr(n) /\ n.pending = m.pending /\ n.oplogs = m.oplogs
  BY FewerCounts
<1>2. Forget(m, v, current) = IF v \in DOMAIN n.count THEN n ELSE CleanVersionOpLogs(n, v, current)
  BY DEF Forget
<1> HIDE DEF n
<1> QED  BY <1>1, <1>2, CleaningKeepsOpLogs DEF KeepsOpLogs

\* The while loop of InformReply: kept[i] is the manager after i rounds.
Loop(kept, m, done, current, n) ==
  kept = [i \in 0 .. n |-> IF i = 0 THEN m ELSE Forget(kept[i - 1], done[i].version, current)]

\* The while loop of InformReply comes to an end.
LEMMA LoopExists ==
  ASSUME NEW m, NEW done, NEW current, NEW n \in Nat
  PROVE  \E kept : Loop(kept, m, done, current, n)
<1> DEFINE Bad == {i \in Nat : ~ \E kept : Loop(kept, m, done, current, i)}
<1> SUFFICES ASSUME Bad # {} PROVE FALSE
  OBVIOUS
<1>1. PICK i \in Bad : \A j \in Bad : i <= j
  <2>1. Bad \in SUBSET Nat
    OBVIOUS
  <2> HIDE DEF Bad
  <2> QED  BY <2>1, NatHasLeast
<1>2. i # 0
  <2>1. Loop([j \in 0 .. 0 |-> m], m, done, current, 0)
    BY DEF Loop
  <2> QED  BY <1>1, <2>1
<1>3. i - 1 \in Nat /\ i - 1 \notin Bad
  BY <1>1, <1>2
<1>4. PICK kept : Loop(kept, m, done, current, i - 1)
  BY <1>3
<1> DEFINE next == [j \in 0 .. i |-> IF j = i THEN Forget(kept[i - 1], done[i].version, current)
                                     ELSE kept[j]]
<1>5. \A j \in 0 .. i - 1 :
        kept[j] = IF j = 0 THEN m ELSE Forget(kept[j - 1], done[j].version, current)
  BY <1>4 DEF Loop
<1>6. \A j \in 0 .. i :
        next[j] = IF j = 0 THEN m ELSE Forget(next[j - 1], done[j].version, current)
  BY <1>2, <1>3, <1>5
<1>7. next = [j \in 0 .. i |-> IF j = 0 THEN m ELSE Forget(next[j - 1], done[j].version, current)]
  BY <1>6
<1>8. Loop(next, m, done, current, i)
  <2> HIDE DEF next
  <2> QED  BY <1>7 DEF Loop
<1> QED  BY <1>1, <1>8

\* It only drops oplogs.
LEMMA LoopKeepsOpLogs ==
  ASSUME NEW m, IsMgr(m), NEW done, NEW current, NEW n \in Nat,
         NEW kept, Loop(kept, m, done, current, n)
  PROVE  IsMgr(kept[n]) /\ kept[n].pending = m.pending /\ KeepsOpLogs(m, kept[n])
<1> DEFINE good(i) == IsMgr(kept[i]) /\ kept[i].pending = m.pending /\ KeepsOpLogs(m, kept[i])
           Bad == {i \in 0 .. n : ~ good(i)}
<1> SUFFICES ASSUME ~ good(n) PROVE FALSE
  OBVIOUS
<1>1. PICK i \in Bad : \A j \in Bad : i <= j
  <2>1. Bad \in SUBSET Nat /\ Bad # {}
    OBVIOUS
  <2> HIDE DEF Bad
  <2> QED  BY <2>1, NatHasLeast
<1>2. \A j \in 0 .. n :
        kept[j] = IF j = 0 THEN m ELSE Forget(kept[j - 1], done[j].version, current)
  BY DEF Loop
<1>3. i # 0
  <2>1. kept[0] = m
    BY <1>2
  <2>2. good(0)
    BY <2>1 DEF KeepsOpLogs
  <2> QED  BY <1>1, <2>2
<1>4. i - 1 \in 0 .. n /\ good(i - 1)
  BY <1>1, <1>3
<1>5. kept[i] = Forget(kept[i - 1], done[i].version, current)
  BY <1>1, <1>2, <1>3
<1>6. good(i)
  <2>1. /\ IsMgr(kept[i]) /\ kept[i].pending = kept[i - 1].pending
        /\ KeepsOpLogs(kept[i - 1], kept[i])
    BY <1>4, <1>5, ForgetKeepsOpLogs
  <2> QED  BY <1>4, <2>1 DEF KeepsOpLogs
<1> QED  BY <1>1, <1>6

\* n is m without the first d requests of row r.
Shortened(m, n, r, d) ==
  /\ IsMgr(n) /\ KeepsOpLogs(m, n)
  /\ n.pending = [m.pending EXCEPT ![r] = SubSeq(@, d + 1, Len(@))]

\* What a reply leaves of a row's requests, before one of them is sent.
LEMMA RemoveSatisfiedFacts ==
  ASSUME NEW m, IsMgr(m), NEW r \in Rows, NEW k \in Nat, NEW current
  PROVE  Shortened(m, RemoveSatisfied(m, r, k, current), r, Len(Satisfied(m, r, k)))
<1> DEFINE done == Satisfied(m, r, k)
           q == m.pending[r]
           d == Len(done)
           rest == SubSeq(q, d + 1, Len(q))
           kept == CHOOSE kept : kept = [i \in 0 .. d |->
                     IF i = 0 THEN m ELSE Forget(kept[i - 1], done[i].version, current)]
           last == kept[d]
<1>1. d \in 0 .. Len(q) /\ Len(q) \in Nat /\ \A i \in 1 .. Len(q) : q[i] \in Request
  BY PendingIsList, SatisfiedIsPrefix
<1>2. RemoveSatisfied(m, r, k, current) = [last EXCEPT !.pending[r] = rest]
  BY DEF RemoveSatisfied
<1>3. Loop(kept, m, done, current, d)
  <2>0. d \in Nat
    BY <1>1
  <2> HIDE DEF d, done
  <2>1. \E f : Loop(f, m, done, current, d)
    BY <2>0, LoopExists
  <2>2. \E f : f = [i \in 0 .. d |->
                     IF i = 0 THEN m ELSE Forget(f[i - 1], done[i].version, current)]
    BY <2>1 DEF Loop
  <2>3. kept = [i \in 0 .. d |->
                     IF i = 0 THEN m ELSE Forget(kept[i - 1], done[i].version, current)]
    BY <2>2
  <2> HIDE DEF kept
  <2> QED  BY <2>3 DEF Loop
<1> HIDE DEF kept
<1>4. IsMgr(last) /\ last.pending = m.pending /\ KeepsOpLogs(m, last)
  <2> HIDE DEF d, done
  <2> QED  BY <1>1, <1>3, LoopKeepsOpLogs
<1>5. rest \in Seq(Request)
  <2> HIDE DEF d, q
  <2>1. \A i \in d + 1 .. Len(q) : q[i] \in Request
    BY <1>1
  <2> QED  BY <1>1, <2>1, SubSeqProperties
<1> DEFINE pending == [m.pending EXCEPT ![r] = rest]
           n == [pending |-> pending, oplogs |-> last.oplogs, count |-> last.count]
<1> HIDE DEF last, rest
<1>6. last = [pending |-> last.pending, oplogs |-> last.oplogs, count |-> last.count]
  BY <1>4 DEF IsMgr
<1>7. [last EXCEPT !.pending[r] = rest] = n
  BY <1>4, <1>6
<1>8. pending \in [Rows -> Seq(Request)]
  BY <1>5 DEF IsMgr
<1> HIDE DEF pending
<1>9. IsMgr(n) /\ KeepsOpLogs(m, n)
  BY <1>4, <1>8 DEF IsMgr, KeepsOpLogs
<1> HIDE DEF n
<1>10. n.pending = pending
  BY DEF n
<1>11. pending = [m.pending EXCEPT ![r] = SubSeq(@, d + 1, Len(@))]
  BY DEF pending, rest
<1> HIDE DEF d
<1> QED  BY <1>2, <1>7, <1>9, <1>10, <1>11 DEF d, Shortened

\* n is m with the first request of row r sent again.
FirstAsked(m, n, r, current) ==
  /\ IsMgr(n) /\ KeepsOpLogs(m, n)
  /\ Len(m.pending[r]) \in Nat \ {0}
  /\ n.pending = [m.pending EXCEPT ![r][1] =
       [thread |-> m.pending[r][1].thread, clock |-> m.pending[r][1].clock,
        version |-> current - 1, sent |-> TRUE]]

\* The first request that is left, and still to be sent.
LEMMA MarkRequestedFacts ==
  ASSUME NEW m, IsMgr(m), NEW r \in Rows, NEW current \in Nat, NeedsRequest(m, r)
  PROVE  FirstAsked(m, MarkRequested(m, r, current), r, current)
<1> DEFINE q == m.pending[r]
           old == q[1].version
           first == [thread |-> q[1].thread, clock |-> q[1].clock, version |-> current - 1,
                     sent |-> TRUE]
           pending == [m.pending EXCEPT ![r] = [q EXCEPT ![1] = first]]
           less == DecCount(m.count, old)
           count == IncCount(less, current - 1)
           n == [pending |-> pending, oplogs |-> m.oplogs, count |-> count]
<1>1. /\ q \in Seq(Request) /\ Len(q) \in Nat \ {0} /\ q[1] \in Request
  <2>1. q # << >> /\ q \in Seq(Request)
    BY PendingIsList DEF NeedsRequest
  <2> HIDE DEF q
  <2> QED  BY <2>1, EmptySeq, ElementOfSeq
<1>2. m = [pending |-> m.pending, oplogs |-> m.oplogs, count |-> m.count]
  BY DEF IsMgr
<1>3. first \in Request
  <2> HIDE DEF q
  <2> QED  BY <1>1 DEF Request
<1>5. pending \in [Rows -> Seq(Request)]
  <2>1. [q EXCEPT ![1] = first] \in Seq(Request)
    <3> HIDE DEF q, first
    <3> QED  BY <1>1, <1>3, ExceptSeq
  <2> QED  BY <2>1 DEF IsMgr
<1>6. DOMAIN count \subseteq Int /\ \A x \in DOMAIN count : count[x] \in Nat \ {0}
  <2> DEFINE fewer == [m EXCEPT !.count = DecCount(@, old)]
  <2>1. IsMgr(fewer) /\ fewer.count = less
    BY <1>2, FewerCounts
  <2> HIDE DEF fewer, less
  <2> QED  BY <2>1, MoreCounts
<1> HIDE DEF pending, count
<1>7. IsMgr(n) /\ n.pending = pending /\ n.oplogs = m.oplogs
  BY <1>5, <1>6 DEF IsMgr
<1>9. MarkRequested(m, r, current) \in {n, CleanVersionOpLogs(n, old, current)}
  BY DEF MarkRequested, pending, count
<1> HIDE DEF n, q
<1>10. LET l == MarkRequested(m, r, current)
       IN  IsMgr(l) /\ l.pending = pending /\ KeepsOpLogs(m, l)
  BY <1>7, <1>9, CleaningKeepsOpLogs DEF KeepsOpLogs
<1> QED  BY <1>1, <1>10 DEF pending, q, FirstAsked

\* n is m after a reply has answered the first d requests of row r; again is
\* the clock of the first one left, if that is sent now, or -1.
Answered(m, n, r, d, again) ==
  LET q == m.pending[r]
  IN  /\ IsMgr(n) /\ KeepsOpLogs(m, n)
      /\ d \in 0 .. Len(q) /\ Len(q) \in Nat /\ DOMAIN q = 1 .. Len(q)
      /\ \A x \in Rows \ {r} : n.pending[x] = m.pending[x]
      /\ DOMAIN n.pending[r] = 1 .. Len(q) - d
      /\ \A i \in 1 .. Len(q) - d : /\ n.pending[r][i].thread = q[i + d].thread
                                    /\ n.pending[r][i].clock = q[i + d].clock
      /\ again # -1 => d < Len(q) /\ again = q[d + 1].clock /\ again \in Nat

\* What InformReply does to the requests and to the kept oplogs.
LEMMA InformReplyFacts ==
  ASSUME NEW m, IsMgr(m), NEW r \in Rows, NEW k \in Nat, NEW current \in Nat
  PROVE  Answered(m, InformReply(m, r, k, current), r, Len(Satisfied(m, r, k)),
                  ClockToRequest(m, r, k, current))
<1> DEFINE q == m.pending[r]
           d == Len(Satisfied(m, r, k))
           left == RemoveSatisfied(m, r, k, current)
           rest == SubSeq(q, d + 1, Len(q))
           n == InformReply(m, r, k, current)
           again == ClockToRequest(m, r, k, current)
<1>1. /\ d \in 0 .. Len(q) /\ Len(q) \in Nat /\ DOMAIN q = 1 .. Len(q)
      /\ q \in Seq(Request) /\ \A i \in 1 .. Len(q) : q[i] \in Request
  <2>1. d \in 0 .. Len(q)
    BY SatisfiedIsPrefix
  <2> HIDE DEF d
  <2> QED  BY <2>1, PendingIsList
<1>2. IsMgr(left) /\ KeepsOpLogs(m, left) /\ left.pending = [m.pending EXCEPT ![r] = rest]
  <2>1. Shortened(m, left, r, d)
    BY RemoveSatisfiedFacts
  <2> HIDE DEF left, d
  <2> QED  BY <2>1 DEF Shortened
<1>3. /\ rest \in Seq(Request) /\ DOMAIN rest = 1 .. Len(q) - d
      /\ \A i \in 1 .. Len(q) - d : rest[i] = q[i + d]
  <2> HIDE DEF d, q
  <2>1. \A i \in d + 1 .. Len(q) : q[i] \in Request
    BY <1>1
  <2> DEFINE low == d + 1
             high == Len(q)
  <2>2. low \in Int /\ high \in Int /\ \A i \in low .. high : q[i] \in Request
    BY <1>1, <2>1
  <2>3. /\ rest \in Seq(Request)
        /\ Len(rest) = IF low <= high THEN high - low + 1 ELSE 0
        /\ \A i \in 1 .. high - low + 1 : rest[i] = q[low + i - 1]
    <3> HIDE DEF low, high
    <3>1. /\ SubSeq(q, low, high) \in Seq(Request)
          /\ Len(SubSeq(q, low, high)) = IF low <= high THEN high - low + 1 ELSE 0
          /\ \A i \in 1 .. high - low + 1 : SubSeq(q, low, high)[i] = q[low + i - 1]
      BY <2>2, SubSeqProperties
    <3> QED  BY <3>1 DEF low, high
  <2>4. Len(rest) = Len(q) - d
    <3>1. Len(rest) = IF d + 1 <= Len(q) THEN Len(q) - (d + 1) + 1 ELSE 0
      BY <2>3
    <3>2. d \in Nat /\ Len(q) \in Nat /\ d <= Len(q)
      BY <1>1
    <3> QED  BY <3>1, <3>2
  <2>5. ASSUME NEW i \in 1 .. Len(q) - d PROVE rest[i] = q[i + d]
    <3>1. i \in 1 .. Len(q) - (d + 1) + 1 /\ (d + 1) + i - 1 = i + d
      BY <1>1
    <3> QED  BY <2>3, <3>1
  <2>6. DOMAIN rest = 1 .. Len(rest)
    <3> HIDE DEF rest
    <3> QED  BY <2>3, LenProperties
  <2> QED  BY <2>3, <2>4, <2>5, <2>6
<1> HIDE DEF rest, d, left
<1>4. DOMAIN m.pending = Rows
  BY DEF IsMgr
<1>5. n = IF NeedsRequest(left, r) THEN MarkRequested(left, r, current) ELSE left
  BY DEF InformReply, left
<1>6. again = IF NeedsRequest(left, r) THEN left.pending[r][1].clock ELSE -1
  BY DEF ClockToRequest, left
<1>7. left.pending[r] = rest /\ \A x \in Rows \ {r} : left.pending[x] = m.pending[x]
  BY <1>2, <1>4
<1> HIDE DEF n, again, q
<1> SUFFICES Answered(m, n, r, d, again)
  BY DEF n, d, again
<1>8. CASE ~NeedsRequest(left, r)
  <2>1. n = left /\ again = -1 /\ n.pending[r] = rest
    BY <1>5, <1>6, <1>7, <1>8
  <2>2. /\ IsMgr(n) /\ KeepsOpLogs(m, n)
        /\ \A x \in Rows \ {r} : n.pending[x] = m.pending[x]
    BY <1>2, <1>7, <2>1
  <2>3. /\ DOMAIN n.pending[r] = 1 .. Len(q) - d
        /\ \A i \in 1 .. Len(q) - d : /\ n.pending[r][i].thread = q[i + d].thread
                                      /\ n.pending[r][i].clock = q[i + d].clock
    BY <1>3, <2>1
  <2> QED  BY <1>1, <2>1, <2>2, <2>3 DEF Answered, q
<1>9. CASE NeedsRequest(left, r)
  <2> DEFINE first == [thread |-> rest[1].thread, clock |-> rest[1].clock,
                       version |-> current - 1, sent |-> TRUE]
  <2>1. /\ IsMgr(n) /\ KeepsOpLogs(left, n) /\ Len(rest) \in Nat \ {0}
        /\ n.pending = [left.pending EXCEPT ![r] = [rest EXCEPT ![1] = first]]
    <3>1. FirstAsked(left, MarkRequested(left, r, current), r, current)
      BY <1>2, <1>9, MarkRequestedFacts
    <3>2. n = MarkRequested(left, r, current) /\ left.pending[r] = rest
      BY <1>5, <1>7, <1>9
    <3> QED  BY <3>1, <3>2 DEF FirstAsked
  <2>2. DOMAIN left.pending = Rows
    BY <1>2 DEF IsMgr
  <2>3. /\ n.pending[r] = [rest EXCEPT ![1] = first]
        /\ \A x \in Rows \ {r} : n.pending[x] = m.pending[x]
    BY <1>7, <2>1, <2>2
  <2>4. KeepsOpLogs(m, n)
    BY <1>2, <2>1 DEF KeepsOpLogs
  <2>5. /\ DOMAIN n.pending[r] = 1 .. Len(q) - d
        /\ \A i \in 1 .. Len(q) - d : /\ n.pending[r][i].thread = q[i + d].thread
                                      /\ n.pending[r][i].clock = q[i + d].clock
    BY <1>3, <2>3
  <2>6. Len(rest) = Len(q) - d
    BY <1>1, <1>3, <2>1, LenProperties
  <2>7. 1 \in 1 .. Len(q) - d /\ d < Len(q) /\ 1 + d = d + 1 /\ d + 1 \in 1 .. Len(q)
    BY <1>1, <2>1, <2>6
  <2>8. again = q[d + 1].clock
    BY <1>3, <1>6, <1>7, <1>9, <2>7
  <2>9. q[d + 1].clock \in Nat
    BY <1>1, <2>7 DEF Request
  <2> QED  BY <1>1, <2>1, <2>3, <2>4, <2>5, <2>7, <2>8, <2>9 DEF Answered, q
<1> QED  BY <1>8, <1>9

\* n is m with request e of row r at position at.
Requested(m, n, r, at, e) ==
  LET q == m.pending[r]
  IN  /\ IsMgr(n) /\ n.oplogs = m.oplogs
      /\ at \in 1 .. Len(q) + 1 /\ Len(q) \in Nat /\ DOMAIN q = 1 .. Len(q)
      /\ \A x \in Rows \ {r} : n.pending[x] = m.pending[x]
      /\ DOMAIN n.pending[r] = 1 .. Len(q) + 1
      /\ \A i \in 1 .. Len(q) + 1 :
           n.pending[r][i] = IF i < at THEN q[i] ELSE IF i = at THEN e ELSE q[i - 1]

\* AddRowRequest puts the request into its place.
LEMMA AddRowRequestFacts ==
  ASSUME NEW m, IsMgr(m), NEW r \in Rows, NEW t \in Threads, NEW k \in Nat,
         NEW v \in Int, NEW b \in BOOLEAN
  PROVE  Requested(m, AddRowRequest(m, r, t, k, v, b), r, Behind(m, r, k) + 1,
                   [thread |-> t, clock |-> k, version |-> v, sent |-> b])
<1> DEFINE n == AddRowRequest(m, r, t, k, v, b)
           q == m.pending[r]
           at == Behind(m, r, k) + 1
           e == [thread |-> t, clock |-> k, version |-> v, sent |-> b]
           new == InsertAt(q, at, e)
           count == IncCount(m.count, v)
           pending == [m.pending EXCEPT ![r] = new]
           l == [pending |-> pending, oplogs |-> m.oplogs, count |-> count]
<1>1. /\ q \in Seq(Request) /\ Len(q) \in Nat /\ DOMAIN q = 1 .. Len(q)
      /\ at \in 1 .. Len(q) + 1
  BY PendingIsList, BehindIsPosition
<1>2. e \in Request
  BY DEF Request
<1> HIDE DEF e, at
<1>3. /\ new \in Seq(Request) /\ Len(new) = Len(q) + 1
      /\ \A i \in 1 .. Len(q) + 1 :
           new[i] = IF i < at THEN q[i] ELSE IF i = at THEN e ELSE q[i - 1]
  <2> HIDE DEF q
  <2>1. q \in Seq(Request) /\ at \in 1 .. Len(q) + 1 /\ e \in Request
    BY <1>1, <1>2
  <2> QED  BY <2>1, InsertAtPosition
<1>4. DOMAIN new = 1 .. Len(q) + 1
  <2> HIDE DEF new, q
  <2> QED  BY <1>3, LenProperties
<1>5. m = [pending |-> m.pending, oplogs |-> m.oplogs, count |-> m.count]
  BY DEF IsMgr
<1>6. DOMAIN count \subseteq Int /\ \A x \in DOMAIN count : count[x] \in Nat \ {0}
  BY MoreCounts
<1>7. n = [m EXCEPT !.pending[r] = new, !.count = count]
  BY DEF AddRowRequest, e, at
<1> HIDE DEF new, count, n
<1>8. n = l
  BY <1>5, <1>7
<1>9. pending \in [Rows -> Seq(Request)]
  BY <1>3 DEF IsMgr
<1>10. IsMgr(l) /\ l.oplogs = m.oplogs
  <2> HIDE DEF pending
  <2> QED  BY <1>6, <1>9 DEF IsMgr
<1>11. DOMAIN m.pending = Rows
  BY DEF IsMgr
<1>12. l.pending[r] = new /\ \A x \in Rows \ {r} : l.pending[x] = m.pending[x]
  BY <1>11
<1> HIDE DEF l, q
<1>13. Requested(m, n, r, at, e)
  BY <1>1, <1>3, <1>4, <1>8, <1>10, <1>12 DEF Requested, q
<1> QED  BY <1>13 DEF n, e, at

\* n is m, and may also hold o as the oplog of version v.
MayKeep(m, n, v, o) ==
  /\ IsMgr(n) /\ n.pending = m.pending
  /\ \A w \in DOMAIN n.oplogs : (w \in DOMAIN m.oplogs /\ n.oplogs[w] = m.oplogs[w])
                               \/ (w = v /\ n.oplogs[w] = o)

\* AddOpLog keeps what it had, and may keep the new oplog.
LEMMA AddOpLogFacts ==
  ASSUME NEW m, IsMgr(m), NEW v \in Nat, NEW o \in Updates
  PROVE  MayKeep(m, AddOpLog(m, v, o), v, o)
<1> DEFINE n == AddOpLog(m, v, o)
           more == [w \in DOMAIN m.oplogs \cup {v} |-> IF w = v THEN o ELSE m.oplogs[w]]
           l == [pending |-> m.pending, oplogs |-> more, count |-> m.count]
<1>1. m = [pending |-> m.pending, oplogs |-> m.oplogs, count |-> m.count]
  BY DEF IsMgr
<1>2. n = IF DOMAIN m.count = {} THEN m ELSE [m EXCEPT !.oplogs = more]
  BY DEF AddOpLog
<1>3. DOMAIN more \subseteq Nat /\ \A w \in DOMAIN more : more[w] \in Updates
  BY DEF IsMgr
<1>4. \A w \in DOMAIN more : (w \in DOMAIN m.oplogs /\ more[w] = m.oplogs[w])
                            \/ (w = v /\ more[w] = o)
  OBVIOUS
<1> HIDE DEF more
<1>5. [m EXCEPT !.oplogs = more] = l
  BY <1>1
<1>6. IsMgr(l) /\ l.pending = m.pending /\ l.oplogs = more
  BY <1>3 DEF IsMgr
<1>7. MayKeep(m, l, v, o)
  BY <1>4, <1>6 DEF MayKeep
<1>8. MayKeep(m, m, v, o)
  BY DEF MayKeep
<1> HIDE DEF l
<1> QED  BY <1>2, <1>5, <1>7, <1>8

-----------------------------------------------------------------------------
(* Who waits for what.                                                     *)

\* A waiting thread knows what it wants, and keeps its clock.
WaitersKnow ==
  \A t \in Threads :
    pc[t] \in {"wait", "woken"} =>
      /\ want[t] \in [row : Rows, clock : Nat, byThread : BOOLEAN]
      /\ want[t].clock = StalestClock(t)

\* Its request is in the queue to its worker, once ...
RequestsAreWanted ==
  \A t \in Threads : \A i \in DOMAIN appToBg[t] :
    appToBg[t][i].type = "RowRequest" =>
      /\ pc[t] = "wait"
      /\ appToBg[t][i].row = want[t].row
      /\ appToBg[t][i].clock = want[t].clock
      /\ \A j \in DOMAIN appToBg[t] : j # i => appToBg[t][j].type # "RowRequest"

NoneIn(queue) == \A i \in DOMAIN queue : queue[i].type # "RowRequest"
NoneQueued(t) == NoneIn(appToBg[t])

\* ... or among the requests the worker remembers, once.
WaitsFor(e, c, r) ==
  /\ pc[e.thread] = "wait" /\ ClientOf[e.thread] = c
  /\ want[e.thread].row = r /\ want[e.thread].clock = e.clock
  /\ NoneQueued(e.thread)

Alone(q, i) == \A j \in DOMAIN q : j # i => q[j].thread # q[i].thread

PendingAreWaiting ==
  \A c \in Clients, r \in Rows : \A i \in DOMAIN mgr[c].pending[r] :
    WaitsFor(mgr[c].pending[r][i], c, r) /\ Alone(mgr[c].pending[r], i)

WaitingOK == WaitersKnow /\ RequestsAreWanted /\ PendingAreWaiting

\* The parts of the type invariant that the shared parts do not cover.
QueuesOK ==
  /\ pc \in [Threads -> {"run", "wait", "woken", "flush", "tick", "clock", "send"}]
  /\ appToBg \in [Threads -> Seq(FromApp)]
  /\ DOMAIN mgr = Clients /\ \A c \in Clients : IsMgr(mgr[c])
  /\ DOMAIN serverToBg = Servers
  /\ \A s \in Servers : /\ DOMAIN serverToBg[s] = Clients
                         /\ \A c \in Clients : serverToBg[s][c] \in Seq(RowReplies(s))

\* The parts of the type invariant.
LEMMA TypeParts == TypeOK <=> ThreadsOK /\ ClientsOK /\ ServersOK /\ QueuesOK
BY DEF TypeOK, QueuesOK

\* The types that the clocks of a process need, whatever the messages hold.
ClocksTyped ==
  /\ clock \in [Threads -> Nat] /\ clientClock \in [Clients -> Nat]
  /\ DOMAIN threadClocks = Clients
  /\ \A c \in Clients : threadClocks[c] \in VectorClocks(ThreadsOf(c))
  /\ pc = [t \in Threads |-> pc[t]]
  /\ DOMAIN appToBg = Threads /\ \A t \in Threads : IsSeq(appToBg[t])

\* TypeParts, after a step.
LEMMA TypePartsNext == TypeOK' <=> ThreadsOK' /\ ClientsOK' /\ ServersOK' /\ QueuesOK'
BY DEF TypeOK, QueuesOK

\* Steps that leave the threads alone.
LEMMA ThreadsStay ==
  ASSUME ThreadsOK, UNCHANGED <<clock, want, fetches, tableVars, ghostVars>>, read' = NoRead
  PROVE  ThreadsOK'
BY DEF ThreadsOK, tableVars, ghostVars, NoRead

\* Steps that leave the processes alone.
LEMMA ClientsStay ==
  ASSUME ClientsOK, UNCHANGED <<clientVars, version, clientClock>>
  PROVE  ClientsOK'
BY DEF ClientsOK, clientVars

\* Steps that leave the servers alone.
LEMMA ServersStay ==
  ASSUME ServersOK, UNCHANGED <<serverVars, bgToServer>>
  PROVE  ServersOK'
BY DEF ServersOK, serverVars

\* Steps that leave queues and waiting threads alone.
LEMMA QueuesStay ==
  ASSUME QueuesOK, UNCHANGED <<pc, appToBg, mgr, serverToBg>>
  PROVE  QueuesOK'
BY DEF QueuesOK

\* Steps that move a thread on.
LEMMA QueuesMove ==
  ASSUME QueuesOK, UNCHANGED <<appToBg, mgr, serverToBg>>,
         pc' \in [Threads -> {"run", "wait", "woken", "flush", "tick", "clock", "send"}]
  PROVE  QueuesOK'
BY DEF QueuesOK

\* A message in the queue of a thread.
LEMMA QueueOfThread ==
  ASSUME QueuesOK, NEW t \in Threads
  PROVE  /\ appToBg[t] \in Seq(FromApp) /\ IsSeq(appToBg[t])
         /\ Len(appToBg[t]) \in Nat /\ DOMAIN appToBg[t] = 1 .. Len(appToBg[t])
         /\ appToBg[t] # << >> => Head(appToBg[t]) \in FromApp /\ Tail(appToBg[t]) \in Seq(FromApp)
                                  /\ Head(appToBg[t]) = appToBg[t][1] /\ 1 \in DOMAIN appToBg[t]
<1>1. appToBg[t] \in Seq(FromApp)
  BY DEF QueuesOK
<1> DEFINE q == appToBg[t]
<1> HIDE DEF q
<1>2. q \in Seq(FromApp)
  BY <1>1 DEF q
<1>3. Len(q) \in Nat /\ DOMAIN q = 1 .. Len(q) /\ \A i \in 1 .. Len(q) : q[i] \in FromApp
  BY <1>2, LenProperties, ElementOfSeq
<1>4. IsSeq(q)
  BY <1>2, <1>3, LenProperties, SeqDef DEF IsSeq
<1>5. ASSUME q # << >>
      PROVE  Head(q) \in FromApp /\ Tail(q) \in Seq(FromApp) /\ Head(q) = q[1] /\ 1 \in DOMAIN q
  BY <1>2, <1>3, <1>5, HeadTailProperties, EmptySeq
<1> QED  BY <1>2, <1>3, <1>4, <1>5 DEF q

\* The types include those of the clocks.
LEMMA ClocksAreTyped == TypeOK => ClocksTyped
<1> SUFFICES ASSUME TypeOK PROVE ClocksTyped
  OBVIOUS
<1>1. DOMAIN appToBg = Threads /\ \A t \in Threads : IsSeq(appToBg[t])
  BY TypeParts, QueueOfThread DEF QueuesOK
<1> QED  BY <1>1 DEF TypeOK, ThreadsOK, ClientsOK, ClocksTyped

\* The stalest clock a thread accepts is one it has been at.
LEMMA Stalest ==
  ASSUME ThreadsOK, NEW t \in Threads
  PROVE  clock[t] \in Nat /\ StalestClock(t) \in Nat /\ StalestClock(t) <= clock[t]
BY SettingsAssumption DEF ThreadsOK, StalestClock

-----------------------------------------------------------------------------
(* Steps of application threads.                                           *)

\* n updates by a thread enter its process' oplog and the cached row.
LEMMA ShareUpdatesTypes ==
  ASSUME ClientsOK, NEW t \in Threads, NEW r \in Rows, NEW n \in Nat, ShareUpdates(t, r, n),
         UNCHANGED <<threadClocks, oplogIndex, pinned, aborted, version, clientClock>>
  PROVE  ClientsOK'
<1> DEFINE c == ClientOf[t]
<1>1. c \in Clients
  BY ThreadsAssumption
<1>2. oplog' \in [Clients -> Updates]
  BY <1>1 DEF ClientsOK, ShareUpdates, Updates, Vec
<1>3. cache' \in [Clients -> [Rows -> [clock : Nat \cup {-1}, data : Vec]]]
  <2>1. CASE cache' = cache
    BY <2>1 DEF ClientsOK
  <2>2. CASE cache' = [cache EXCEPT ![c][r].data[t] = @ + n]
    <3>1. cache[c] \in [Rows -> [clock : Nat \cup {-1}, data : Vec]]
          /\ cache[c][r] \in [clock : Nat \cup {-1}, data : Vec]
      BY <1>1 DEF ClientsOK
    <3>2. [cache[c][r].data EXCEPT ![t] = @ + n] \in Vec
      BY <3>1 DEF Vec
    <3>3. [cache[c][r] EXCEPT !.data[t] = @ + n] \in [clock : Nat \cup {-1}, data : Vec]
      BY <3>1, <3>2
    <3>4. [cache[c] EXCEPT ![r].data[t] = @ + n] \in [Rows -> [clock : Nat \cup {-1}, data : Vec]]
      BY <3>1, <3>3
    <3> QED  BY <2>2, <3>4 DEF ClientsOK
  <2> QED  BY <2>1, <2>2 DEF ShareUpdates
<1> QED  BY <1>2, <1>3 DEF ClientsOK

\* Inc keeps the types that SSP and SSPPush share.
LEMMA IncTypes ==
  ASSUME ThreadsOK, ClientsOK, ServersOK, NEW t \in Threads, NEW r \in Rows, Inc(t, r)
  PROVE  ThreadsOK' /\ ClientsOK' /\ ServersOK'
<1>1. ThreadsOK'
  BY DEF Inc, ShareUpdates, ThreadsOK, NoRead
<1>2. ClientsOK'
  BY ShareUpdatesTypes DEF Inc, bgVars
<1>3. ServersOK'
  BY ServersStay DEF Inc, channelVars
<1> QED  BY <1>1, <1>2, <1>3

\* What a Get returns.
LEMMA ReturnedType ==
  ASSUME ClientsOK, NEW t \in Threads, NEW r \in Rows
  PROVE  Returned(t, r) \subseteq [thread : Threads, row : Rows, data : Vec]
BY ThreadsAssumption DEF ClientsOK, Returned

\* A message joins the queue of a thread.
LEMMA SendToBgTypes ==
  ASSUME QueuesOK, NEW t \in Threads, NEW m \in FromApp, SendToBg(t, m),
         pc' \in [Threads -> {"run", "wait", "woken", "flush", "tick", "clock", "send"}],
         UNCHANGED <<mgr, serverToBg>>
  PROVE  QueuesOK'
<1>1. appToBg[t] \in Seq(FromApp)
  BY DEF QueuesOK
<1>2. Append(appToBg[t], m) \in Seq(FromApp)
  BY <1>1, AppendProperties
<1>3. appToBg' \in [Threads -> Seq(FromApp)]
  BY <1>2 DEF QueuesOK, SendToBg
<1> QED  BY <1>3 DEF QueuesOK

\* So does a Get that has to wait,
LEMMA RequestAndWaitTypes ==
  ASSUME TypeOK, NEW t \in Threads, NEW r \in Rows, NEW b \in BOOLEAN, RequestAndWait(t, r, b)
  PROVE  TypeOK'
<1> USE TypeParts, TypePartsNext
<1>1. clock[t] \in Nat /\ StalestClock(t) \in Nat
  BY Stalest
<1>2. ThreadsOK'
  <2>1. want' \in [Threads -> {<< >>} \cup [row : Rows, clock : Nat, byThread : BOOLEAN]]
    <3>1. [row |-> r, clock |-> StalestClock(t), byThread |-> b]
            \in [row : Rows, clock : Nat, byThread : BOOLEAN]
      BY <1>1
    <3> QED  BY <3>1 DEF RequestAndWait, ThreadsOK
  <2>2. fetches' \in [Threads -> 0 .. 4]
    BY DEF RequestAndWait, ThreadsOK
  <2>3. read' = {} /\ UNCHANGED <<clock, threadIndex, threadRows, threadOplog, made, closed>>
    BY DEF RequestAndWait, NoRead, tableVars, ghostVars
  <2> QED  BY <2>1, <2>2, <2>3 DEF ThreadsOK
<1>3. pc' \in [Threads -> {"run", "wait", "woken", "flush", "tick", "clock", "send"}]
  BY DEF RequestAndWait, QueuesOK
<1>4. RowRequest(r, StalestClock(t)) \in FromApp
  BY <1>1 DEF RowRequest, FromApp
<1>5. QueuesOK'
  BY <1>3, <1>4, SendToBgTypes DEF RequestAndWait, bgVars
<1>6. ServersOK'
  BY ServersStay DEF RequestAndWait
<1>7. ClientsOK'
  BY ThreadsAssumption DEF RequestAndWait, ClientsOK, bgVars
<1> QED  BY <1>2, <1>5, <1>6, <1>7

\* one that returns,
LEMMA GetTypes ==
  ASSUME TypeOK, NEW t \in Threads,
         (\E r \in Rows : GetCached(t, r)) \/ (WaitersKnow /\ GetReturn(t))
  PROVE  TypeOK'
<1> USE TypeParts, TypePartsNext
<1>1. ClientsOK' /\ ServersOK'
  BY ClientsStay, ServersStay DEF GetCached, GetReturn, bgVars, channelVars
<1>2. CASE \E r \in Rows : GetCached(t, r)
  <2>1. ThreadsOK'
    BY <1>2, ReturnedType DEF GetCached, ThreadsOK, threadVars, tableVars, ghostVars
  <2>2. QueuesOK'
    BY <1>2, QueuesStay DEF GetCached, threadVars, bgVars, channelVars
  <2> QED  BY <1>1, <2>1, <2>2
<1>3. CASE WaitersKnow /\ GetReturn(t)
  <2>1. want[t].row \in Rows
    BY <1>3 DEF GetReturn, Woken, WaitersKnow
  <2>2. ThreadsOK'
    BY <1>3, <2>1, ReturnedType DEF GetReturn, ThreadsOK, tableVars, ghostVars
  <2>3. pc' \in [Threads -> {"run", "wait", "woken", "flush", "tick", "clock", "send"}]
    BY <1>3 DEF GetReturn, QueuesOK
  <2>4. QueuesOK'
    BY <1>3, <2>3, QueuesMove DEF GetReturn, bgVars, channelVars
  <2> QED  BY <1>1, <2>2, <2>4
<1> QED  BY <1>2, <1>3

\* one that asks again,
LEMMA GetAgainTypes ==
  ASSUME TypeOK, WaitersKnow, NEW t \in Threads, GetAgain(t)
  PROVE  TypeOK'
<1> USE TypeParts, TypePartsNext
<1>1. want[t].row \in Rows /\ want[t].clock \in Nat
  BY DEF GetAgain, Woken, WaitersKnow
<1>2. ThreadsOK'
  <2>1. fetches' \in [Threads -> 0 .. 4]
    <3>1. fetches \in [Threads -> 0 .. 4] /\ fetches[t] \in 0 .. 4
      BY DEF ThreadsOK
    <3>2. fetches[t] <= 3 /\ fetches' = [fetches EXCEPT ![t] = @ + 1]
      BY DEF GetAgain
    <3>3. fetches[t] + 1 \in 0 .. 4
      BY <3>1, <3>2
    <3> QED  BY <3>1, <3>2, <3>3
  <2>2. UNCHANGED <<clock, want, tableVars, ghostVars>> /\ read' = NoRead
    BY DEF GetAgain
  <2> QED  BY <2>1, <2>2 DEF ThreadsOK, NoRead, tableVars, ghostVars
<1>3. pc' \in [Threads -> {"run", "wait", "woken", "flush", "tick", "clock", "send"}]
  BY DEF GetAgain, QueuesOK
<1>4. RowRequest(want[t].row, want[t].clock) \in FromApp
  BY <1>1 DEF RowRequest, FromApp
<1>5. QueuesOK'
  BY <1>3, <1>4, SendToBgTypes DEF GetAgain, bgVars
<1>6. ServersOK' /\ ClientsOK'
  BY ServersStay, ClientsStay DEF GetAgain, bgVars
<1> QED  BY <1>2, <1>5, <1>6

\* one that gives up,
LEMMA GetAbortTypes ==
  ASSUME TypeOK, NEW t \in Threads, GetAbort(t)
  PROVE  TypeOK'
<1> USE TypeParts, TypePartsNext
<1>1. ThreadsOK' /\ QueuesOK' /\ ServersOK'
  BY ThreadsStay, QueuesStay, ServersStay DEF GetAbort, threadVars, bgVars, channelVars
<1>2. ClientsOK'
  BY DEF GetAbort, ClientsOK, bgVars
<1> QED  BY <1>1, <1>2

\* The process' row, with the thread's own updates.
LEMMA InsertThreadRowTypes ==
  ASSUME ThreadsOK, ClientsOK, NEW t \in Threads, NEW r \in Rows, InsertThreadRow(t, r)
  PROVE  /\ DOMAIN threadRows' = Threads
         /\ \A u \in Threads : /\ DOMAIN threadRows'[u] \subseteq Rows
                               /\ \A x \in DOMAIN threadRows'[u] : threadRows'[u][x] \in Vec
<1> DEFINE data == cache[ClientOf[t]][r].data
           row == [data EXCEPT ![t] = @ + threadOplog[t][r]]
<1>1. data \in Vec /\ threadOplog[t][r] \in Nat
  BY ThreadsAssumption DEF ClientsOK, ThreadsOK
<1>2. row \in Vec
  <2> HIDE DEF data
  <2> QED  BY <1>1 DEF Vec
<1>3. threadRows' = [threadRows EXCEPT ![t] =
                       [x \in DOMAIN threadRows[t] \cup {r} |-> IF x = r THEN row ELSE threadRows[t][x]]]
  BY DEF InsertThreadRow
<1> HIDE DEF row
<1> QED  BY <1>2, <1>3 DEF ThreadsOK

\* a ThreadGet,
LEMMA ThreadGetTypes ==
  ASSUME TypeOK, NEW t \in Threads,
         (\E r \in Rows : ThreadGetCached(t, r)) \/ (WaitersKnow /\ ThreadGetReturn(t))
  PROVE  TypeOK'
<1> USE TypeParts, TypePartsNext
<1>1. ClientsOK' /\ ServersOK'
  BY ClientsStay, ServersStay DEF ThreadGetCached, ThreadGetReturn, bgVars, channelVars
<1>2. CASE \E r \in Rows : ThreadGetCached(t, r)
  <2>1. ThreadsOK'
    BY <1>2, InsertThreadRowTypes DEF ThreadGetCached, ThreadsOK, NoRead, ghostVars
  <2>2. QueuesOK'
    BY <1>2, QueuesStay DEF ThreadGetCached, bgVars, channelVars
  <2> QED  BY <1>1, <2>1, <2>2
<1>3. CASE WaitersKnow /\ ThreadGetReturn(t)
  <2>1. want[t].row \in Rows
    BY <1>3 DEF ThreadGetReturn, Woken, WaitersKnow
  <2>2. ThreadsOK'
    <3>1. InsertThreadRow(t, want[t].row)
      BY <1>3 DEF ThreadGetReturn
    <3>2. /\ DOMAIN threadRows' = Threads
          /\ \A u \in Threads : /\ DOMAIN threadRows'[u] \subseteq Rows
                                /\ \A x \in DOMAIN threadRows'[u] : threadRows'[u][x] \in Vec
      BY <2>1, <3>1, InsertThreadRowTypes
    <3>3. /\ want' = [want EXCEPT ![t] = << >>] /\ fetches' = [fetches EXCEPT ![t] = 0]
          /\ UNCHANGED <<clock, threadIndex, threadOplog, ghostVars>> /\ read' = NoRead
      BY <1>3 DEF ThreadGetReturn
    <3> QED  BY <3>2, <3>3 DEF ThreadsOK, NoRead, ghostVars
  <2>3. pc' \in [Threads -> {"run", "wait", "woken", "flush", "tick", "clock", "send"}]
    BY <1>3 DEF ThreadGetReturn, QueuesOK
  <2>4. QueuesOK'
    BY <1>3, <2>3, QueuesMove DEF ThreadGetReturn, bgVars, channelVars
  <2> QED  BY <1>1, <2>2, <2>4
<1> QED  BY <1>2, <1>3

\* So does a ThreadInc,
LEMMA ThreadIncTypes ==
  ASSUME ThreadsOK, ClientsOK, ServersOK, NEW t \in Threads, NEW r \in Rows, ThreadInc(t, r)
  PROVE  ThreadsOK' /\ ClientsOK' /\ ServersOK'
<1>1. ClientsOK' /\ ServersOK'
  BY ClientsStay, ServersStay DEF ThreadInc, bgVars, channelVars
<1>2. made' \in [Threads -> [Rows -> Nat]] /\ threadOplog' \in [Threads -> [Rows -> Nat]]
  <2>1. /\ made \in [Threads -> [Rows -> Nat]] /\ threadOplog \in [Threads -> [Rows -> Nat]]
        /\ made' = [made EXCEPT ![t][r] = @ + 1]
        /\ threadOplog' = [threadOplog EXCEPT ![t][r] = @ + 1]
    BY DEF ThreadInc, ThreadsOK
  <2> QED  BY <2>1
<1>3. /\ DOMAIN threadRows' = Threads
      /\ \A u \in Threads : /\ DOMAIN threadRows'[u] \subseteq Rows
                            /\ \A x \in DOMAIN threadRows'[u] : threadRows'[u][x] \in Vec
  <2>1. CASE threadRows' = threadRows
    BY <2>1 DEF ThreadsOK
  <2>2. CASE r \in DOMAIN threadRows[t] /\ threadRows' = [threadRows EXCEPT ![t][r][t] = @ + 1]
    <3>1. threadRows[t][r] \in Vec
      BY <2>2 DEF ThreadsOK
    <3>2. [threadRows[t][r] EXCEPT ![t] = @ + 1] \in Vec
      BY <3>1 DEF Vec
    <3> QED  BY <2>2, <3>2 DEF ThreadsOK
  <2> QED  BY <2>1, <2>2 DEF ThreadInc
<1>4. UNCHANGED <<clock, want, fetches, threadIndex, closed>> /\ read' = NoRead
  BY DEF ThreadInc
<1>5. ThreadsOK'
  BY <1>2, <1>3, <1>4 DEF ThreadsOK, NoRead
<1> QED  BY <1>1, <1>5

\* a flush,
LEMMA FlushTypes ==
  ASSUME ThreadsOK, ClientsOK, ServersOK, NEW t \in Threads,
         (\E r \in Rows : FlushRow(t, r)) \/ FlushThreadCache(t)
  PROVE  ThreadsOK' /\ ClientsOK' /\ ServersOK'
<1>1. ServersOK'
  BY ServersStay DEF FlushRow, FlushThreadCache, channelVars
<1>2. ASSUME NEW r \in Rows, FlushRow(t, r) PROVE ThreadsOK' /\ ClientsOK'
  <2>1. threadOplog[t][r] \in Nat
    BY DEF ThreadsOK
  <2>2. ClientsOK'
    BY <1>2, <2>1, ShareUpdatesTypes DEF FlushRow, bgVars
  <2>3. ThreadsOK'
    BY <1>2 DEF FlushRow, ShareUpdates, ThreadsOK, NoRead, ghostVars
  <2> QED  BY <2>2, <2>3
<1>3. CASE FlushThreadCache(t)
  <2>1. ClientsOK'
    BY <1>3, ClientsStay DEF FlushThreadCache, bgVars
  <2>2. ThreadsOK'
    BY <1>3 DEF FlushThreadCache, DropThreadRows, ThreadsOK, NoRead, ghostVars
  <2> QED  BY <1>1, <2>1, <2>2
<1> QED  BY <1>1, <1>2, <1>3

\* the first part of Clock,
LEMMA ClockTypes ==
  ASSUME ThreadsOK, ClientsOK, ServersOK, NEW t \in Threads, Clock(t)
  PROVE  ThreadsOK' /\ ClientsOK' /\ ServersOK'
<1>1. ServersOK'
  BY ServersStay DEF Clock, channelVars
<1>2. closed' \in [Threads -> Seq([Rows -> Nat])]
  <2>1. closed[t] \in Seq([Rows -> Nat]) /\ made[t] \in [Rows -> Nat]
    BY DEF ThreadsOK
  <2>2. Append(closed[t], made[t]) \in Seq([Rows -> Nat])
    BY <2>1, AppendProperties
  <2> QED  BY <2>2 DEF Clock, ThreadsOK
<1>3. ThreadsOK'
  BY <1>2 DEF Clock, DropThreadRows, ThreadsOK, NoRead
<1>4. ClientsOK'
  BY ThreadsAssumption DEF Clock, AddIndex, ClientsOK, ThreadsOK, bgVars
<1> QED  BY <1>1, <1>3, <1>4

\* and its other parts.
LEMMA TickTypes ==
  ASSUME ThreadsOK, ClientsOK, ServersOK, NEW t \in Threads, TickThread(t) \/ TellBg(t)
  PROVE  ThreadsOK' /\ ClientsOK' /\ ServersOK'
<1>1. ServersOK' /\ ThreadsOK'
  BY ServersStay, ThreadsStay DEF TickThread, TellBg, channelVars
<1>2. CASE TickThread(t)
  <2> DEFINE c == ClientOf[t]
  <2>1. c \in Clients /\ t \in ThreadsOf(c)
    BY ThreadsAssumption DEF ThreadsOf
  <2>2. Tick(threadClocks[c], t) \in VectorClocks(ThreadsOf(c))
    <3>1. threadClocks[c] \in VectorClocks(ThreadsOf(c))
      BY <2>1 DEF ClientsOK
    <3> HIDE DEF c
    <3> QED  BY <2>1, <3>1 DEF Tick, VectorClocks
  <2>3. threadClocks' = [threadClocks EXCEPT ![c] = Tick(threadClocks[c], t)]
    BY <1>2 DEF TickThread
  <2>4. ClientsOK'
    BY <1>2, <2>1, <2>2, <2>3 DEF TickThread, ClientsOK, bgVars
  <2> QED  BY <1>1, <2>4
<1>3. CASE TellBg(t)
  BY <1>1, <1>3, ClientsStay DEF TellBg, bgVars
<1> QED  BY <1>2, <1>3

\* The steps of a thread that neither reads nor waits.
LocalStep(t) ==
  \/ \E r \in Rows : Inc(t, r) \/ ThreadInc(t, r) \/ FlushRow(t, r)
  \/ FlushThreadCache(t)
  \/ Clock(t) \/ TickThread(t) \/ TellBg(t)

\* All of them keep those types,
LEMMA LocalTypes ==
  ASSUME ThreadsOK, ClientsOK, ServersOK, NEW t \in Threads, LocalStep(t)
  PROVE  ThreadsOK' /\ ClientsOK' /\ ServersOK'
BY IncTypes, ThreadIncTypes, FlushTypes, ClockTypes, TickTypes DEF LocalStep

\* and the types of the queues.
LEMMA LocalQueues ==
  ASSUME QueuesOK, NEW t \in Threads, LocalStep(t)
  PROVE  QueuesOK'
<1>1. CASE \E r \in Rows : Inc(t, r) \/ ThreadInc(t, r)
  BY <1>1, QueuesStay DEF Inc, ThreadInc, bgVars, channelVars
<1>2. CASE (\E r \in Rows : FlushRow(t, r)) \/ FlushThreadCache(t) \/ Clock(t) \/ TickThread(t)
  <2>1. pc' \in [Threads -> {"run", "wait", "woken", "flush", "tick", "clock", "send"}]
    BY <1>2 DEF FlushRow, FlushThreadCache, Clock, TickThread, QueuesOK
  <2>2. UNCHANGED <<appToBg, mgr, serverToBg>>
    BY <1>2 DEF FlushRow, FlushThreadCache, Clock, TickThread, bgVars, channelVars
  <2> QED  BY <2>1, <2>2, QueuesMove
<1>3. CASE TellBg(t)
  <2>1. [type |-> IF pc[t] = "clock" THEN "BgClock" ELSE "BgSendOpLog"] \in FromApp
    BY DEF FromApp
  <2>2. pc' \in [Threads -> {"run", "wait", "woken", "flush", "tick", "clock", "send"}]
    BY <1>3 DEF TellBg, QueuesOK
  <2> QED  BY <1>3, <2>1, <2>2, SendToBgTypes DEF TellBg, bgVars
<1> QED  BY <1>1, <1>2, <1>3 DEF LocalStep

-----------------------------------------------------------------------------
(* Steps of background workers.                                            *)

\* A sequence over a set, and its parts.
LEMMA SeqParts ==
  ASSUME NEW S, NEW q \in Seq(S)
  PROVE  /\ IsSeq(q) /\ Len(q) \in Nat /\ DOMAIN q = 1 .. Len(q)
         /\ \A i \in 1 .. Len(q) : q[i] \in S
         /\ \A e \in S : Append(q, e) \in Seq(S)
         /\ q # << >> => Head(q) \in S /\ Tail(q) \in Seq(S)
<1>1. Len(q) \in Nat /\ DOMAIN q = 1 .. Len(q) /\ \A i \in 1 .. Len(q) : q[i] \in S
  BY LenProperties, ElementOfSeq
<1>2. IsSeq(q)
  BY <1>1, LenProperties, SeqDef DEF IsSeq
<1>3. \A e \in S : Append(q, e) \in Seq(S)
  BY AppendProperties
<1>4. q # << >> => Head(q) \in S /\ Tail(q) \in Seq(S)
  BY HeadTailProperties, EmptySeq
<1> QED  BY <1>1, <1>2, <1>3, <1>4

\* A worker takes a message from the queue of a thread.
LEMMA NextFromAppTypes ==
  ASSUME QueuesOK, NEW c \in Clients, NEW t \in Threads, NEW type, NextFromApp(c, t, type)
  PROVE  /\ appToBg' \in [Threads -> Seq(FromApp)]
         /\ Head(appToBg[t]) \in FromApp /\ Head(appToBg[t]).type = type
<1>1. Tail(appToBg[t]) \in Seq(FromApp) /\ Head(appToBg[t]) \in FromApp
  BY QueueOfThread DEF NextFromApp
<1>2. appToBg' = [appToBg EXCEPT ![t] = Tail(@)] /\ Head(appToBg[t]).type = type
  BY DEF NextFromApp
<1> QED  BY <1>1, <1>2 DEF QueuesOK

\* A row request from a thread.
LEMMA RowRequestFromApp ==
  ASSUME NEW m \in FromApp, m.type = "RowRequest"
  PROVE  m.row \in Rows /\ m.clock \in Nat /\ m = RowRequest(m.row, m.clock)
BY DEF FromApp, RowRequest

\* A message joins the channel to a server.
LEMMA ToServerTypes ==
  ASSUME ServersOK, NEW c \in Clients, NEW s \in Servers, NEW m \in ToServer(s),
         bgToServer' = [bgToServer EXCEPT ![c][s] = Append(@, m)], UNCHANGED serverVars
  PROVE  ServersOK'
<1>1. bgToServer[c][s] \in Seq(ToServer(s))
  BY DEF ServersOK
<1>2. Append(bgToServer[c][s], m) \in Seq(ToServer(s))
  BY <1>1, AppendProperties
<1>3. /\ DOMAIN bgToServer' = Clients
      /\ \A d \in Clients : /\ DOMAIN bgToServer'[d] = Servers
                            /\ \A z \in Servers : bgToServer'[d][z] \in Seq(ToServer(z))
  BY <1>2 DEF ServersOK
<1> QED  BY <1>3 DEF ServersOK, serverVars

\* A row request to a server.
LEMMA RowRequestToServer ==
  ASSUME NEW r \in Rows, NEW k \in Nat
  PROVE  ServerOf[r] \in Servers /\ RowRequest(r, k) \in ToServer(ServerOf[r])
BY ServersAssumption DEF RowRequest, ToServer, RowsOf

\* Answering a row request keeps the types.
LEMMA RowRequestAnsweredTypes ==
  ASSUME TypeOK, NEW c \in Clients, NEW t \in Threads, RowRequestAnswered(c, t)
  PROVE  TypeOK'
<1> USE TypeParts, TypePartsNext
<1>1. ThreadsOK' /\ ClientsOK' /\ ServersOK'
  BY ThreadsStay, ClientsStay, ServersStay DEF RowRequestAnswered, bgVars
<1>2. appToBg' \in [Threads -> Seq(FromApp)]
  BY NextFromAppTypes DEF RowRequestAnswered
<1>3. pc' = [pc EXCEPT ![t] = "woken"] /\ UNCHANGED <<mgr, serverToBg>>
  BY DEF RowRequestAnswered, bgVars
<1>4. QueuesOK'
  BY <1>2, <1>3 DEF QueuesOK
<1> QED  BY <1>1, <1>4

\* So does forwarding one.
LEMMA RowRequestForwardedTypes ==
  ASSUME TypeOK, NEW c \in Clients, NEW t \in Threads, RowRequestForwarded(c, t)
  PROVE  TypeOK'
<1> USE TypeParts, TypePartsNext
<1> DEFINE msg == Head(appToBg[t])
           s == ServerOf[msg.row]
<1>1. ThreadsOK' /\ ClientsOK'
  BY ThreadsStay, ClientsStay DEF RowRequestForwarded, threadVars
<1>2. appToBg' \in [Threads -> Seq(FromApp)] /\ msg \in FromApp /\ msg.type = "RowRequest"
  BY NextFromAppTypes DEF RowRequestForwarded
<1>3. PICK b \in StoredSent :
        mgr' = [mgr EXCEPT ![c] = AddRowRequest(@, msg.row, t, msg.clock, version[c] - 1, b)]
  BY DEF RowRequestForwarded
<1>4. UNCHANGED <<pc, serverVars, serverToBg>>
  BY DEF RowRequestForwarded, threadVars
<1>5. bgToServer' \in {bgToServer, [bgToServer EXCEPT ![c][s] = Append(@, msg)]}
  BY DEF RowRequestForwarded
<1>6. /\ msg.row \in Rows /\ msg.clock \in Nat /\ s \in Servers /\ msg \in ToServer(s)
      /\ b \in BOOLEAN /\ version[c] - 1 \in Int
  BY <1>2, RowRequestFromApp, RowRequestToServer, SettingsAssumption DEF ClientsOK
<1> HIDE DEF msg, s
<1>7. ServersOK'
  <2>1. CASE bgToServer' = bgToServer
    BY <1>4, <2>1, ServersStay
  <2>2. CASE bgToServer' = [bgToServer EXCEPT ![c][s] = Append(@, msg)]
    BY <1>4, <1>6, <2>2, ToServerTypes
  <2> QED  BY <1>5, <2>1, <2>2
<1>8. IsMgr(mgr'[c])
  <2>1. IsMgr(mgr[c]) /\ DOMAIN mgr = Clients
    BY DEF QueuesOK
  <2> DEFINE new == AddRowRequest(mgr[c], msg.row, t, msg.clock, version[c] - 1, b)
  <2>2. IsMgr(new)
    BY <1>6, <2>1, AddRowRequestFacts DEF Requested
  <2> HIDE DEF new
  <2>3. mgr' = [mgr EXCEPT ![c] = new]
    BY <1>3 DEF new
  <2> QED  BY <2>1, <2>2, <2>3
<1>9. DOMAIN mgr' = Clients /\ \A d \in Clients : IsMgr(mgr'[d])
  <2>1. DOMAIN mgr' = Clients /\ \A d \in Clients \ {c} : mgr'[d] = mgr[d]
    BY <1>3 DEF QueuesOK
  <2> QED  BY <1>8, <2>1 DEF QueuesOK
<1>10. QueuesOK'
  BY <1>2, <1>4, <1>9 DEF QueuesOK
<1> QED  BY <1>1, <1>7, <1>10

\* What HandleClockMsg takes and leaves are updates.
LEMMA TakenTypes ==
  ASSUME ClientsOK, NEW c \in Clients
  PROVE  TakenOpLog(c) \in Updates /\ LeftOpLog(c) \in Updates
BY DEF ClientsOK, TakenOpLog, LeftOpLog, Updates, Vec, Zero

\* An oplog goes to every server.
LEMMA SendOpLogMsgsTypes ==
  ASSUME ClientsOK, ServersOK, NEW c \in Clients, NEW isClock \in BOOLEAN, SendOpLogMsgs(c, isClock),
         clientClock' = IF isClock THEN [clientClock EXCEPT ![c] = @ + 1] ELSE clientClock,
         UNCHANGED <<threadClocks, cache, pinned, aborted, serverVars>>
  PROVE  ClientsOK' /\ ServersOK'
<1>1. /\ oplog' = [oplog EXCEPT ![c] = LeftOpLog(c)]
      /\ oplogIndex' = [oplogIndex EXCEPT ![c] = {}]
      /\ version' = [version EXCEPT ![c] = @ + 1]
      /\ bgToServer' = [bgToServer EXCEPT ![c] =
                          [s \in Servers |-> Append(@[s], OpLogMsg(c, s, isClock))]]
  BY DEF SendOpLogMsgs, ResetIndex
<1>2. TakenOpLog(c) \in Updates /\ LeftOpLog(c) \in Updates
  BY TakenTypes
<1>3. ClientsOK'
  BY <1>1, <1>2 DEF ClientsOK
<1>4. ASSUME NEW s \in Servers
      PROVE  Append(bgToServer[c][s], OpLogMsg(c, s, isClock)) \in Seq(ToServer(s))
  <2>1. OpLogMsg(c, s, isClock) \in ToServer(s)
    <3>1. [r \in RowsOf(s) |-> TakenOpLog(c)[r]] \in [RowsOf(s) -> Vec]
      BY <1>2 DEF Updates, RowsOf
    <3>2. version[c] \in Nat /\ clientClock[c] + 1 \in Nat
      BY DEF ClientsOK
    <3> QED  BY <3>1, <3>2 DEF OpLogMsg, ToServer
  <2>2. bgToServer[c][s] \in Seq(ToServer(s))
    BY DEF ServersOK
  <2> QED  BY <2>1, <2>2, AppendProperties
<1>5. /\ DOMAIN bgToServer' = Clients
      /\ \A d \in Clients : /\ DOMAIN bgToServer'[d] = Servers
                            /\ \A z \in Servers : bgToServer'[d][z] \in Seq(ToServer(z))
  BY <1>1, <1>4 DEF ServersOK
<1>6. ServersOK'
  BY <1>5 DEF ServersOK, serverVars
<1> QED  BY <1>3, <1>6

\* The worker of SSP remembers it for the rows that are being waited for.
LEMMA SendOpLogsTypes ==
  ASSUME TypeOK, NEW c \in Clients, NEW isClock \in BOOLEAN, SendOpLogs(c, isClock),
         clientClock' = IF isClock THEN [clientClock EXCEPT ![c] = @ + 1] ELSE clientClock,
         UNCHANGED <<pc, threadClocks, cache, pinned, aborted, serverVars, serverToBg>>,
         appToBg' \in [Threads -> Seq(FromApp)]
  PROVE  ClientsOK' /\ ServersOK' /\ QueuesOK'
<1> USE TypeParts
<1>1. SendOpLogMsgs(c, isClock) /\ mgr' = [mgr EXCEPT ![c] = AddOpLog(@, version[c], TakenOpLog(c))]
  BY DEF SendOpLogs
<1>2. ClientsOK' /\ ServersOK'
  BY <1>1, SendOpLogMsgsTypes
<1>3. DOMAIN mgr' = Clients /\ \A d \in Clients : IsMgr(mgr'[d])
  <2> DEFINE new == AddOpLog(mgr[c], version[c], TakenOpLog(c))
  <2>1. IsMgr(mgr[c]) /\ version[c] \in Nat
    BY DEF QueuesOK, ClientsOK
  <2>2. IsMgr(new)
    BY <2>1, TakenTypes, AddOpLogFacts DEF MayKeep
  <2>3. mgr' = [mgr EXCEPT ![c] = new]
    BY <1>1
  <2> HIDE DEF new
  <2> QED  BY <2>2, <2>3 DEF QueuesOK
<1>4. QueuesOK'
  BY <1>3 DEF QueuesOK
<1> QED  BY <1>2, <1>4

\* HandleClockMsg keeps the types.
LEMMA HandleBgTypes ==
  ASSUME TypeOK, NEW c \in Clients, NEW t \in Threads,
         HandleBgClock(c, t) \/ HandleBgSendOpLog(c, t)
  PROVE  TypeOK'
<1> USE TypeParts, TypePartsNext
<1>1. ThreadsOK'
  BY ThreadsStay DEF HandleBgClock, HandleBgSendOpLog, threadVars
<1>2. appToBg' \in [Threads -> Seq(FromApp)]
  BY NextFromAppTypes DEF HandleBgClock, HandleBgSendOpLog
<1>3. CASE HandleBgClock(c, t)
  <2>1. ClientsOK' /\ ServersOK' /\ QueuesOK'
    BY <1>2, <1>3, SendOpLogsTypes DEF HandleBgClock, threadVars
  <2> QED  BY <1>1, <2>1
<1>4. CASE HandleBgSendOpLog(c, t)
  <2>1. ClientsOK' /\ ServersOK' /\ QueuesOK'
    BY <1>2, <1>4, SendOpLogsTypes DEF HandleBgSendOpLog, threadVars
  <2> QED  BY <1>1, <2>1
<1> QED  BY <1>3, <1>4

\* The first message in the channel from a server.
LEMMA ReplyTypes ==
  ASSUME QueuesOK, NEW c \in Clients, NEW s \in Servers, serverToBg[s][c] # << >>
  PROVE  LET reply == Head(serverToBg[s][c])
         IN  /\ reply \in RowReplies(s) /\ reply.row \in Rows /\ ServerOf[reply.row] = s
             /\ reply.clock \in Nat /\ reply.version \in Int /\ reply.data \in Vec
             /\ Tail(serverToBg[s][c]) \in Seq(RowReplies(s))
<1>1. serverToBg[s][c] \in Seq(RowReplies(s))
  BY DEF QueuesOK
<1>2. Head(serverToBg[s][c]) \in RowReplies(s) /\ Tail(serverToBg[s][c]) \in Seq(RowReplies(s))
  BY <1>1, SeqParts
<1> QED  BY <1>2 DEF RowReplies, RowsOf

\* The row that a reply and the updates since its version make.
LEMMA RowFromReplyTypes ==
  ASSUME ClientsOK, QueuesOK, NEW c \in Clients, NEW reply, reply.row \in Rows,
         reply.clock \in Nat, reply.version \in Int, reply.data \in Vec, OldOpLogsKept(c, reply)
  PROVE  RowFromReply(c, reply) \in [clock : Nat \cup {-1}, data : Vec]
<1> DEFINE r == reply.row
           F(u) == [v \in OldVersions(c, reply) |-> mgr[c].oplogs[v][r][u]]
           data == [u \in Threads |-> reply.data[u] + SumFunction(F(u)) + oplog[c][r][u]]
<1>1. IsFiniteSet(OldVersions(c, reply))
  <2>1. version[c] - 1 \in Int /\ reply.version + 1 \in Int
    BY DEF ClientsOK
  <2> QED  BY <2>1, FS_Interval DEF OldVersions
<1>2. ASSUME NEW u \in Threads PROVE SumFunction(F(u)) \in Nat
  <2>1. \A v \in OldVersions(c, reply) : mgr[c].oplogs[v] \in Updates
    BY DEF OldOpLogsKept, QueuesOK, IsMgr
  <2>2. \A v \in OldVersions(c, reply) : mgr[c].oplogs[v][r][u] \in Nat
    BY <2>1 DEF Updates, Vec
  <2> DEFINE f == F(u)
  <2>3. DOMAIN f = OldVersions(c, reply) /\ \A v \in OldVersions(c, reply) : f[v] \in Nat
    BY <2>2
  <2> HIDE DEF f
  <2>4. SumFunctionOnSet(f, OldVersions(c, reply)) \in Nat
    BY <1>1, <2>3, SumIsNat
  <2> QED  BY <2>3, <2>4 DEF SumFunction, f
<1>3. ASSUME NEW u \in Threads PROVE reply.data[u] \in Nat /\ oplog[c][r][u] \in Nat
  BY DEF ClientsOK, Updates, Vec
<1> HIDE DEF F
<1>4. data \in Vec
  BY <1>2, <1>3 DEF Vec
<1>5. RowFromReply(c, reply) = [clock |-> reply.clock, data |-> data]
  BY DEF RowFromReply, F
<1> HIDE DEF data
<1> QED  BY <1>4, <1>5

\* What an insertion leaves in the cache.
LEMMA CachesAfterTypes ==
  ASSUME ClientsOK, NEW c \in Clients, NEW r \in Rows,
         NEW row \in [clock : Nat \cup {-1}, data : Vec], NEW after \in CachesAfter(c, r, row)
  PROVE  /\ after \in [Rows -> [clock : Nat \cup {-1}, data : Vec]]
         /\ \/ after = [cache[c] EXCEPT ![r] = row]
            \/ \E v \in CachedRows(c) : /\ r \notin CachedRows(c) /\ v # r
                                        /\ after = [[cache[c] EXCEPT ![r] = row] EXCEPT ![v] = NotCached]
<1> DEFINE stored == [cache[c] EXCEPT ![r] = row]
<1>1. stored \in [Rows -> [clock : Nat \cup {-1}, data : Vec]]
  BY DEF ClientsOK
<1>2. NotCached \in [clock : Nat \cup {-1}, data : Vec]
  BY DEF NotCached, Zero, Vec
<1>3. CASE r \in CachedRows(c) \/ Cardinality(CachedRows(c)) < Capacity
  BY <1>1, <1>3 DEF CachesAfter
<1>4. CASE r \notin CachedRows(c)
  <2>1. after = stored \/ \E v \in CachedRows(c) : after = [stored EXCEPT ![v] = NotCached]
    BY DEF CachesAfter
  <2> HIDE DEF stored
  <2>2. after \in [Rows -> [clock : Nat \cup {-1}, data : Vec]]
    BY <1>1, <1>2, <2>1
  <2> QED  BY <1>4, <2>1, <2>2 DEF stored
<1> QED  BY <1>3, <1>4

\* HandleServerRowRequestReply keeps the types,
LEMMA HandleReplyTypes ==
  ASSUME TypeOK, NEW c \in Clients, NEW s \in Servers, HandleReply(c, s)
  PROVE  TypeOK'
<1> USE TypeParts, TypePartsNext
<1> DEFINE reply == Head(serverToBg[s][c])
           again == ClockToRequest(mgr[c], reply.row, reply.clock, version[c])
           new == InformReply(mgr[c], reply.row, reply.clock, version[c])
<1>1. serverToBg[s][c] # << >> /\ OldOpLogsKept(c, reply)
  BY DEF HandleReply
<1>2. /\ reply.row \in Rows /\ reply.clock \in Nat /\ reply.version \in Int /\ reply.data \in Vec
      /\ Tail(serverToBg[s][c]) \in Seq(RowReplies(s)) /\ ServerOf[reply.row] = s
  BY <1>1, ReplyTypes
<1>3. PICK after \in CachesAfter(c, reply.row, RowFromReply(c, reply)) :
        cache' = [cache EXCEPT ![c] = after]
  BY DEF HandleReply
<1>4. /\ mgr' = [mgr EXCEPT ![c] = new]
      /\ pc' = [t \in Threads |-> IF t \in AnsweredThreads(c, reply) THEN "woken" ELSE pc[t]]
      /\ bgToServer' = IF again >= 0
                       THEN [bgToServer EXCEPT ![c][s] = Append(@, RowRequest(reply.row, again))]
                       ELSE bgToServer
      /\ serverToBg' = [serverToBg EXCEPT ![s][c] = Tail(@)]
      /\ UNCHANGED <<clock, want, fetches, tableVars, threadClocks, oplog, oplogIndex, pinned,
                     aborted, version, clientClock, serverVars, appToBg, ghostVars>>
      /\ read' = NoRead
  BY <1>2 DEF HandleReply
<1> HIDE DEF reply
<1>5. ThreadsOK'
  BY <1>4, ThreadsStay
<1>6. ClientsOK'
  <2>1. after \in [Rows -> [clock : Nat \cup {-1}, data : Vec]]
    BY <1>1, <1>2, <1>3, RowFromReplyTypes, CachesAfterTypes
  <2> QED  BY <1>3, <1>4, <2>1 DEF ClientsOK
<1>7. IsMgr(new) /\ (again # -1 => again \in Nat)
  <2>1. IsMgr(mgr[c]) /\ version[c] \in Nat
    BY DEF QueuesOK, ClientsOK
  <2>2. Answered(mgr[c], new, reply.row, Len(Satisfied(mgr[c], reply.row, reply.clock)), again)
    BY <1>2, <2>1, InformReplyFacts
  <2> QED  BY <2>2 DEF Answered
<1> HIDE DEF new, again
<1>8. ServersOK'
  <2>1. CASE again >= 0
    <3>1. again \in Nat
      BY <1>7, <2>1
    <3> DEFINE m == RowRequest(reply.row, again)
    <3>2. m \in ToServer(s)
      BY <1>2, <3>1, RowRequestToServer
    <3>3. bgToServer' = [bgToServer EXCEPT ![c][s] = Append(@, m)]
      BY <1>4, <2>1
    <3> HIDE DEF m
    <3> QED  BY <1>4, <3>2, <3>3, ToServerTypes
  <2>2. CASE ~(again >= 0)
    BY <1>4, <2>2, ServersStay
  <2> QED  BY <2>1, <2>2
<1>9. QueuesOK'
  <2>1. DOMAIN mgr' = Clients /\ \A d \in Clients : IsMgr(mgr'[d])
    BY <1>4, <1>7 DEF QueuesOK
  <2>2. /\ DOMAIN serverToBg' = Servers
        /\ \A z \in Servers : /\ DOMAIN serverToBg'[z] = Clients
                              /\ \A d \in Clients : serverToBg'[z][d] \in Seq(RowReplies(z))
    BY <1>2, <1>4 DEF QueuesOK
  <2>3. /\ pc' \in [Threads -> {"run", "wait", "woken", "flush", "tick", "clock", "send"}]
        /\ appToBg' \in [Threads -> Seq(FromApp)]
    BY <1>4 DEF QueuesOK
  <2> QED  BY <2>1, <2>2, <2>3 DEF QueuesOK
<1> QED  BY <1>5, <1>6, <1>8, <1>9

\* also when its CHECK fails.
LEMMA HandleReplyAbortTypes ==
  ASSUME TypeOK, NEW c \in Clients, NEW s \in Servers, HandleReplyAbort(c, s)
  PROVE  TypeOK'
<1> USE TypeParts, TypePartsNext
<1>1. ThreadsOK' /\ ServersOK' /\ QueuesOK'
  BY ThreadsStay, ServersStay, QueuesStay DEF HandleReplyAbort, threadVars, bgVars, channelVars
<1>2. ClientsOK'
  BY DEF HandleReplyAbort, ClientsOK, bgVars
<1> QED  BY <1>1, <1>2

-----------------------------------------------------------------------------
(* Steps of servers.                                                       *)

\* A server takes a message from the channel of a worker.
LEMMA NextFromBgTypes ==
  ASSUME ServersOK, NEW c \in Clients, NEW s \in Servers, NEW type, NextFromBg(s, c, type)
  PROVE  /\ Head(bgToServer[c][s]) \in ToServer(s) /\ Head(bgToServer[c][s]).type = type
         /\ DOMAIN bgToServer' = Clients
         /\ \A d \in Clients : /\ DOMAIN bgToServer'[d] = Servers
                               /\ \A z \in Servers : bgToServer'[d][z] \in Seq(ToServer(z))
<1>1. bgToServer[c][s] \in Seq(ToServer(s))
  BY DEF ServersOK
<1>2. Head(bgToServer[c][s]) \in ToServer(s) /\ Tail(bgToServer[c][s]) \in Seq(ToServer(s))
  BY <1>1, SeqParts DEF NextFromBg
<1>3. /\ bgToServer' = [bgToServer EXCEPT ![c][s] = Tail(@)]
      /\ Head(bgToServer[c][s]).type = type
  BY DEF NextFromBg
<1> QED  BY <1>2, <1>3 DEF ServersOK

\* Buffering a row request keeps the types.
LEMMA RowRequestBufferedTypes ==
  ASSUME ThreadsOK, ClientsOK, ServersOK, NEW c \in Clients, NEW s \in Servers, RowRequestBuffered(s, c)
  PROVE  ThreadsOK' /\ ClientsOK' /\ ServersOK'
<1> DEFINE msg == Head(bgToServer[c][s])
<1>1. ThreadsOK' /\ ClientsOK'
  BY ThreadsStay, ClientsStay DEF RowRequestBuffered, threadVars, bgVars
<1>2. NextFromBg(s, c, "RowRequest")
  BY DEF RowRequestBuffered
<1>3. msg \in ToServer(s) /\ msg.type = "RowRequest"
  BY <1>2, NextFromBgTypes
<1>4. msg.row \in RowsOf(s)
  BY <1>3 DEF ToServer
<1>5. rowRequests' = [rowRequests EXCEPT ![s][msg.clock][c] = Append(@, msg.row)]
      /\ UNCHANGED <<bgClock, bgVersion, table>>
  BY DEF RowRequestBuffered
<1> HIDE DEF msg
<1>6. DOMAIN rowRequests' = Servers /\
      \A z \in Servers : rowRequests'[z] \in [0 .. MaxClock -> [Clients -> Seq(RowsOf(z))]]
  <2>1. CASE msg.clock \in 0 .. MaxClock
    <3>1. rowRequests[s] \in [0 .. MaxClock -> [Clients -> Seq(RowsOf(s))]]
      BY DEF ServersOK
    <3>2. rowRequests[s][msg.clock] \in [Clients -> Seq(RowsOf(s))]
      BY <2>1, <3>1
    <3>3. Append(rowRequests[s][msg.clock][c], msg.row) \in Seq(RowsOf(s))
      BY <1>4, <3>2, AppendProperties
    <3>4. [rowRequests[s][msg.clock] EXCEPT ![c] = Append(@, msg.row)] \in [Clients -> Seq(RowsOf(s))]
      BY <3>2, <3>3
    <3>5. [rowRequests[s] EXCEPT ![msg.clock][c] = Append(@, msg.row)]
            \in [0 .. MaxClock -> [Clients -> Seq(RowsOf(s))]]
      BY <3>1, <3>4
    <3> QED  BY <1>5, <3>5 DEF ServersOK
  <2>2. CASE msg.clock \notin 0 .. MaxClock
    <3>1. [rowRequests[s] EXCEPT ![msg.clock][c] = Append(@, msg.row)] = rowRequests[s]
      BY <2>2 DEF ServersOK
    <3> QED  BY <1>5, <3>1 DEF ServersOK
  <2> QED  BY <2>1, <2>2
<1>7. ServersOK'
  BY <1>2, <1>5, <1>6, NextFromBgTypes DEF ServersOK
<1> QED  BY <1>1, <1>7

\* Answers join the channels to the workers.
LEMMA TableRowTypes ==
  ASSUME ServersOK, NEW s \in Servers, NEW d \in Clients, NEW r \in RowsOf(s)
  PROVE  table[s][r] \in Vec /\ bgVersion[s][d] \in Int /\ bgClock[s].min \in Nat
BY DEF ServersOK, VectorClocks

\* So does replying to one.
LEMMA RowRequestRepliedTypes ==
  ASSUME ThreadsOK, ClientsOK, ServersOK, NEW c \in Clients, NEW s \in Servers, RowRequestReplied(s, c)
  PROVE  /\ ThreadsOK' /\ ClientsOK' /\ ServersOK'
         /\ \E m \in RowReplies(s) : serverToBg' = [serverToBg EXCEPT ![s][c] = Append(@, m)]
         /\ Head(bgToServer[c][s]).row \in RowsOf(s)
<1> DEFINE msg == Head(bgToServer[c][s])
           m == Reply(msg.row, bgClock[s].min, bgVersion[s][c], table[s][msg.row])
<1>1. ThreadsOK' /\ ClientsOK'
  BY ThreadsStay, ClientsStay DEF RowRequestReplied, threadVars, bgVars
<1>2. NextFromBg(s, c, "RowRequest")
  BY DEF RowRequestReplied
<1>3. msg \in ToServer(s) /\ msg.type = "RowRequest"
  BY <1>2, NextFromBgTypes
<1>4. msg.row \in RowsOf(s)
  BY <1>3 DEF ToServer
<1>5. serverToBg' = [serverToBg EXCEPT ![s][c] = Append(@, m)] /\ UNCHANGED serverVars
  BY DEF RowRequestReplied
<1> HIDE DEF msg
<1>6. m \in RowReplies(s)
  BY <1>4, TableRowTypes DEF Reply, RowReplies
<1> HIDE DEF m
<1>7. ServersOK'
  BY <1>2, <1>5, NextFromBgTypes DEF ServersOK, serverVars
<1> QED  BY <1>1, <1>4, <1>5, <1>6, <1>7 DEF msg

\* Under SSP the channels hold nothing but replies.
LEMMA RepliedQueues ==
  ASSUME TypeOK, NEW c \in Clients, NEW s \in Servers, RowRequestReplied(s, c)
  PROVE  QueuesOK'
<1>1. ThreadsOK /\ ClientsOK /\ ServersOK /\ QueuesOK
  BY TypeParts
<1>2. PICK m \in RowReplies(s) : serverToBg' = [serverToBg EXCEPT ![s][c] = Append(@, m)]
  BY <1>1, RowRequestRepliedTypes
<1>3. serverToBg[s][c] \in Seq(RowReplies(s))
  BY <1>1 DEF QueuesOK
<1>4. Append(serverToBg[s][c], m) \in Seq(RowReplies(s))
  BY <1>3, AppendProperties
<1>5. UNCHANGED <<pc, appToBg, mgr>>
  BY DEF RowRequestReplied, threadVars, bgVars
<1> QED  BY <1>1, <1>2, <1>4, <1>5 DEF QueuesOK

\* The answers to a list of rows.
LEMMA FulfilledTypes ==
  ASSUME ServersOK', NEW s \in Servers, NEW d \in Clients, NEW k \in Nat,
         FulfilledRowRequests(s, k, d) \in Seq(RowsOf(s))
  PROVE  FulfilledReplies(s, k, d) \in Seq(RowReplies(s))
<1> DEFINE rows == FulfilledRowRequests(s, k, d)
           replies == FulfilledReplies(s, k, d)
<1>1. Len(rows) \in Nat /\ DOMAIN rows = 1 .. Len(rows) /\ \A i \in 1 .. Len(rows) : rows[i] \in RowsOf(s)
  <2> HIDE DEF rows
  <2> QED  BY SeqParts DEF rows
<1>2. replies = [i \in DOMAIN rows |-> Reply(rows[i], k, bgVersion'[s][d], table'[s][rows[i]])]
  BY DEF FulfilledReplies
<1> HIDE DEF rows, replies
<1>3. \A r \in RowsOf(s) : table'[s][r] \in Vec /\ bgVersion'[s][d] \in Int
  BY DEF ServersOK
<1>4. \A i \in 1 .. Len(rows) : Reply(rows[i], k, bgVersion'[s][d], table'[s][rows[i]]) \in RowReplies(s)
  BY <1>1, <1>3 DEF Reply, RowReplies
<1>5. replies \in [1 .. Len(rows) -> RowReplies(s)]
  BY <1>1, <1>2, <1>4
<1> QED  BY <1>1, <1>5, SeqDef DEF replies

\* No worker has ended more clocks than the model allows.
ClocksBounded == \A c \in Clients : clientClock[c] <= MaxClock

\* HandleOpLogMsg keeps the types of what a server has, and its answers are
\* replies.
LEMMA OpLogTypes ==
  ASSUME ClientsOK, ServersOK, IInv, ClocksBounded, NEW c \in Clients, NEW s \in Servers,
         OpLogHandled(s, c)
  PROVE  LET k == ClockUntil(s, c, Head(bgToServer[c][s])).min
         IN  /\ ServersOK' /\ k \in 0 .. MaxClock
             /\ \A d \in Clients : /\ FulfilledRowRequests(s, k, d) \in Seq(RowsOf(s))
                                   /\ FulfilledReplies(s, k, d) \in Seq(RowReplies(s))
<1> DEFINE msg == Head(bgToServer[c][s])
           clocks == ClockUntil(s, c, msg)
           k == clocks.min
<1>1. NextFromBg(s, c, "OpLog")
  BY DEF OpLogHandled
<1>2. msg \in ToServer(s) /\ msg.type = "OpLog"
  BY <1>1, NextFromBgTypes
<1>3. msg.version \in Nat /\ msg.updates \in [RowsOf(s) -> Vec]
  BY <1>2 DEF ToServer
<1>4. /\ bgVersion' = [bgVersion EXCEPT ![s][c] = msg.version]
      /\ table' = [table EXCEPT ![s] = [r \in RowsOf(s) |-> ApplyRowOpLog(@[r], msg.updates[r])]]
      /\ bgClock' = [bgClock EXCEPT ![s] = clocks]
      /\ rowRequests' \in {rowRequests, [rowRequests EXCEPT ![s][k] = NoRequests]}
      /\ clientClock' = clientClock
  BY DEF OpLogHandled, ApplyOpLogUpdateVersion
<1> HIDE DEF msg, clocks
<1>5. IInv'
  BY HandleOpLogKeeps
<1>6. bgClock' \in [Servers -> VectorClocks(Clients)] /\ k \in 0 .. MaxClock
  <2>1. bgClock' \in [Servers -> VectorClocks(Clients)]
    BY <1>5 DEF IInv, Shapes
  <2>2. bgClock'[s] = clocks /\ clocks \in VectorClocks(Clients)
    BY <1>4, <2>1 DEF ServersOK
  <2>3. clocks.min <= clocks.vec[c]
    BY <1>5, <2>2 DEF IInv, ServerClocksExact, IsMinimum, VectorClocks
  <2>4. clocks.vec[c] <= clientClock[c]
    BY <1>4, <1>5, <2>2 DEF IInv, MessagesInSequence, Consecutive
  <2>5. clientClock[c] <= MaxClock /\ clientClock[c] \in Nat /\ MaxClock \in Nat
    BY BoundsAssumption DEF ClocksBounded, ClientsOK
  <2>6. clocks.min \in Nat /\ clocks.vec[c] \in Nat
    BY <2>2 DEF VectorClocks
  <2> QED  BY <2>1, <2>3, <2>4, <2>5, <2>6
<1>7. \A z \in Servers : table'[z] \in [RowsOf(z) -> Vec]
  <2>1. ASSUME NEW r \in RowsOf(s) PROVE ApplyRowOpLog(table[s][r], msg.updates[r]) \in Vec
    <3>1. table[s][r] \in Vec /\ msg.updates[r] \in Vec
      BY <1>3, TableRowTypes
    <3> QED  BY <3>1 DEF ApplyRowOpLog, Vec
  <2>2. \A z \in Servers \ {s} : table'[z] = table[z]
    BY <1>4 DEF ServersOK
  <2>3. table'[s] = [r \in RowsOf(s) |-> ApplyRowOpLog(table[s][r], msg.updates[r])]
    BY <1>4 DEF ServersOK
  <2>4. table'[s] \in [RowsOf(s) -> Vec]
    BY <2>1, <2>3
  <2> QED  BY <2>2, <2>4 DEF ServersOK
<1>8. /\ DOMAIN rowRequests' = Servers
      /\ \A z \in Servers : rowRequests'[z] \in [0 .. MaxClock -> [Clients -> Seq(RowsOf(z))]]
  <2>1. NoRequests \in [Clients -> Seq(RowsOf(s))]
    BY DEF NoRequests
  <2>2. CASE rowRequests' = rowRequests
    BY <2>2 DEF ServersOK
  <2>3. CASE rowRequests' = [rowRequests EXCEPT ![s][k] = NoRequests]
    BY <2>1, <2>3 DEF ServersOK
  <2> QED  BY <1>4, <2>2, <2>3
<1>9. ServersOK'
  <2>1. bgVersion' \in [Servers -> [Clients -> Nat \cup {-1}]]
    BY <1>3, <1>4 DEF ServersOK
  <2>2. DOMAIN table' = Servers
    BY <1>4 DEF ServersOK
  <2>3. /\ DOMAIN bgToServer' = Clients
        /\ \A d \in Clients : /\ DOMAIN bgToServer'[d] = Servers
                              /\ \A z \in Servers : bgToServer'[d][z] \in Seq(ToServer(z))
    BY <1>1, NextFromBgTypes
  <2> QED  BY <1>6, <1>7, <1>8, <2>1, <2>2, <2>3 DEF ServersOK
<1>10. ASSUME NEW d \in Clients
       PROVE  /\ FulfilledRowRequests(s, k, d) \in Seq(RowsOf(s))
              /\ FulfilledReplies(s, k, d) \in Seq(RowReplies(s))
  <2>1. FulfilledRowRequests(s, k, d) \in Seq(RowsOf(s))
    <3>1. rowRequests[s] \in [0 .. MaxClock -> [Clients -> Seq(RowsOf(s))]]
      BY DEF ServersOK
    <3>2. rowRequests[s][k] \in [Clients -> Seq(RowsOf(s))]
      BY <1>6, <3>1
    <3> QED  BY <3>2 DEF FulfilledRowRequests
  <2>2. k \in Nat
    BY <1>6
  <2> HIDE DEF k
  <2> QED  BY <1>9, <2>1, <2>2, FulfilledTypes
<1> QED  BY <1>6, <1>9, <1>10 DEF clocks, msg

\* So HandleOpLogMsg of SSP keeps the types.
LEMMA HandleOpLogTypes ==
  ASSUME TypeOK, IInv, ClocksBounded, NEW c \in Clients, NEW s \in Servers, HandleOpLog(s, c)
  PROVE  TypeOK'
<1> DEFINE k == ClockUntil(s, c, Head(bgToServer[c][s])).min
<1>1. ThreadsOK /\ ClientsOK /\ ServersOK /\ QueuesOK
  BY TypeParts
<1>2. ThreadsOK' /\ ClientsOK'
  BY <1>1, ThreadsStay, ClientsStay DEF HandleOpLog, threadVars, bgVars
<1>3. ServersOK' /\ \A d \in Clients : FulfilledReplies(s, k, d) \in Seq(RowReplies(s))
  BY <1>1, OpLogIsHandled, OpLogTypes
<1>4. /\ serverToBg' \in {serverToBg, [serverToBg EXCEPT ![s] = [d \in Clients |-> @[d] \o FulfilledReplies(s, k, d)]]}
      /\ UNCHANGED <<pc, appToBg, mgr>>
  BY DEF HandleOpLog, threadVars, bgVars
<1> HIDE DEF k
<1>5. \A d \in Clients : serverToBg[s][d] \o FulfilledReplies(s, k, d) \in Seq(RowReplies(s))
  BY <1>1, <1>3, ConcatProperties DEF QueuesOK
<1>6. QueuesOK'
  <2>1. CASE serverToBg' = serverToBg
    BY <1>1, <1>4, <2>1 DEF QueuesOK
  <2>2. CASE serverToBg' = [serverToBg EXCEPT ![s] = [d \in Clients |-> @[d] \o FulfilledReplies(s, k, d)]]
    <3>1. /\ DOMAIN serverToBg' = Servers
          /\ \A z \in Servers : /\ DOMAIN serverToBg'[z] = Clients
                                /\ \A d \in Clients : serverToBg'[z][d] \in Seq(RowReplies(z))
      BY <1>1, <1>5, <2>2 DEF QueuesOK
    <3> QED  BY <1>1, <1>4, <3>1 DEF QueuesOK
  <2> QED  BY <1>4, <2>1, <2>2
<1> QED  BY <1>2, <1>3, <1>6, TypePartsNext

\* The types hold at the start.
LEMMA StartTypes == Start => ThreadsOK /\ ClientsOK /\ ServersOK
<1> SUFFICES ASSUME Start PROVE ThreadsOK /\ ClientsOK /\ ServersOK
  OBVIOUS
<1> USE DEF Start
<1>1. Zero \in Vec /\ NoUpdates \in Updates
  BY DEF Zero, NoUpdates, Vec, Updates
<1>2. ThreadsOK
  BY DEF ThreadsOK, NoRead
<1>3. \A S : StartClock(S) \in VectorClocks(S)
  BY DEF StartClock, VectorClocks
<1>4. ClientsOK
  BY <1>1, <1>3 DEF ClientsOK, NotCached
<1>5. ServersOK
  <2>1. NoRequests = [c \in Clients |-> << >>]
    BY DEF NoRequests
  <2> QED  BY <1>1, <1>3, <2>1 DEF ServersOK
<1> QED  BY <1>2, <1>4, <1>5

\* So SSP starts with values of the right types.
LEMMA InitTypes == Init => TypeOK
<1> SUFFICES ASSUME Init PROVE TypeOK
  OBVIOUS
<1>1. ThreadsOK /\ ClientsOK /\ ServersOK
  BY StartTypes DEF Init
<1>2. IsMgr(EmptyMgr(Rows))
  <2>1. EmptyMgr(Rows) = [pending |-> [r \in Rows |-> << >>], oplogs |-> << >>, count |-> << >>]
    BY DEF EmptyMgr
  <2> QED  BY <2>1 DEF IsMgr
<1>3. QueuesOK
  BY <1>2 DEF Init, Start, QueuesOK
<1> QED  BY <1>1, <1>3, TypeParts

-----------------------------------------------------------------------------
(* Who waits for what, step by step.                                       *)

\* A queue that is extended, by something that is no row request, or not.
LEMMA QueueGrows ==
  ASSUME NEW q, IsSeq(q), NEW new, new = q \/ \E m : m.type # "RowRequest" /\ new = Append(q, m)
  PROVE  /\ DOMAIN q \subseteq DOMAIN new
         /\ \A i \in DOMAIN q : new[i] = q[i]
         /\ \A i \in DOMAIN new \ DOMAIN q : new[i].type # "RowRequest"
<1>1. CASE new = q
  BY <1>1
<1>2. CASE \E m : m.type # "RowRequest" /\ new = Append(q, m)
  <2>1. PICK m : m.type # "RowRequest" /\ new = Append(q, m)
    BY <1>2
  <2>2. /\ Len(q) \in Nat /\ DOMAIN q = 1 .. Len(q) /\ DOMAIN new = 1 .. Len(q) + 1
        /\ \A i \in 1 .. Len(q) : new[i] = q[i]
        /\ new[Len(q) + 1] = m
    BY <2>1, AppendToSeq
  <2>3. \A i \in DOMAIN new \ DOMAIN q : i = Len(q) + 1
    BY <2>2
  <2>4. \A i \in DOMAIN new \ DOMAIN q : new[i] = m
    BY <2>2, <2>3
  <2>5. DOMAIN q \subseteq DOMAIN new /\ \A i \in DOMAIN q : new[i] = q[i]
    BY <2>2
  <2> QED  BY <2>1, <2>4, <2>5
<1> QED  BY <1>1, <1>2

\* What a pending request tells of its thread.
LEMMA PendingWaits ==
  ASSUME WaitingOK, NEW c \in Clients, NEW r \in Rows, NEW i \in DOMAIN mgr[c].pending[r]
  PROVE  WaitsFor(mgr[c].pending[r][i], c, r) /\ Alone(mgr[c].pending[r], i)
BY DEF WaitingOK, PendingAreWaiting

\* The thread of a pending request.
LEMMA PendingThread ==
  ASSUME TypeOK, NEW c \in Clients, NEW r \in Rows, NEW i \in DOMAIN mgr[c].pending[r]
  PROVE  mgr[c].pending[r][i].thread \in Threads
<1>1. IsMgr(mgr[c])
  BY DEF TypeOK
<1> QED  BY <1>1, PendingIsList DEF Request

\* Pending requests stay as they are in a step that wakes none of their threads.
LEMMA PendingStays ==
  ASSUME WaitingOK, \A c \in Clients : mgr'[c].pending = mgr[c].pending, NEW S,
         \A c \in Clients, r \in Rows : \A i \in DOMAIN mgr[c].pending[r] :
           mgr[c].pending[r][i].thread \in S,
         \A u \in S : pc[u] = "wait" /\ NoneQueued(u) =>
           pc'[u] = "wait" /\ want'[u] = want[u] /\ NoneQueued(u)'
  PROVE  PendingAreWaiting'
<1> SUFFICES ASSUME NEW c \in Clients, NEW r \in Rows, NEW i \in DOMAIN mgr'[c].pending[r]
             PROVE  WaitsFor(mgr[c].pending[r][i], c, r)' /\ Alone(mgr[c].pending[r], i)'
  BY DEF PendingAreWaiting
<1>1. PICK q, e : q = mgr'[c].pending[r] /\ q = mgr[c].pending[r] /\ e = q[i]
  OBVIOUS
<1>2. WaitsFor(e, c, r) /\ Alone(q, i) /\ e.thread \in S
  BY <1>1, PendingWaits
<1>3. /\ pc'[e.thread] = "wait" /\ ClientOf[e.thread] = c
      /\ want'[e.thread].row = r /\ want'[e.thread].clock = e.clock
      /\ NoneQueued(e.thread)'
  BY <1>2 DEF WaitsFor
<1>4. Alone(mgr[c].pending[r], i)'
  BY <1>1, <1>2 DEF Alone
<1> QED  BY <1>1, <1>3, <1>4 DEF WaitsFor

\* What a step of a thread that neither waits nor starts to may do.
OthersWait(t) ==
  /\ \A u \in Threads \ {t} : pc'[u] = pc[u] /\ want'[u] = want[u] /\ clock'[u] = clock[u]
  /\ \A u \in Threads : \/ appToBg'[u] = appToBg[u]
                        \/ \E m : m.type # "RowRequest" /\ appToBg'[u] = Append(appToBg[u], m)
  /\ mgr' = mgr
  /\ \/ UNCHANGED <<pc[t], want[t], clock[t]>>
     \/ pc[t] # "wait" /\ pc'[t] \notin {"wait", "woken"}

\* Nobody waits for less, or for more, than before.
LEMMA OthersStillWait ==
  ASSUME TypeOK, WaitingOK, NEW t \in Threads, OthersWait(t)
  PROVE  WaitingOK'
<1>1. ASSUME NEW u \in Threads
      PROVE  /\ DOMAIN appToBg[u] \subseteq DOMAIN appToBg'[u]
             /\ \A i \in DOMAIN appToBg[u] : appToBg'[u][i] = appToBg[u][i]
             /\ \A i \in DOMAIN appToBg'[u] \ DOMAIN appToBg[u] :
                  appToBg'[u][i].type # "RowRequest"
  <2>1. IsSeq(appToBg[u])
    BY QueueOfThread, TypeParts
  <2>2. \/ appToBg'[u] = appToBg[u]
        \/ \E m : m.type # "RowRequest" /\ appToBg'[u] = Append(appToBg[u], m)
    BY DEF OthersWait
  <2> QED  BY <2>1, <2>2, QueueGrows
<1>2. ASSUME NEW u \in Threads, pc[u] = "wait" \/ pc'[u] \in {"wait", "woken"}
      PROVE  pc'[u] = pc[u] /\ want'[u] = want[u] /\ StalestClock(u)' = StalestClock(u)
  BY <1>2 DEF OthersWait, StalestClock
<1>3. WaitersKnow'
  BY <1>2 DEF WaitersKnow, WaitingOK
<1>4. RequestsAreWanted'
  <2> SUFFICES ASSUME NEW u \in Threads, NEW i \in DOMAIN appToBg'[u],
                      appToBg'[u][i].type = "RowRequest"
               PROVE  /\ pc'[u] = "wait" /\ appToBg'[u][i].row = want'[u].row
                      /\ appToBg'[u][i].clock = want'[u].clock
                      /\ \A j \in DOMAIN appToBg'[u] : j # i => appToBg'[u][j].type # "RowRequest"
    BY DEF RequestsAreWanted
  <2>1. i \in DOMAIN appToBg[u] /\ appToBg'[u][i] = appToBg[u][i]
    BY <1>1
  <2>2. /\ pc[u] = "wait" /\ appToBg[u][i].row = want[u].row /\ appToBg[u][i].clock = want[u].clock
        /\ \A j \in DOMAIN appToBg[u] : j # i => appToBg[u][j].type # "RowRequest"
    BY <2>1 DEF WaitingOK, RequestsAreWanted
  <2> QED  BY <1>1, <1>2, <2>1, <2>2
<1>5. PendingAreWaiting'
  <2>1. ASSUME NEW u \in Threads, pc[u] = "wait", NoneQueued(u)
        PROVE  pc'[u] = "wait" /\ want'[u] = want[u] /\ NoneQueued(u)'
    BY <1>1, <1>2, <2>1 DEF NoneQueued, NoneIn
  <2>2. \A c \in Clients : mgr'[c].pending = mgr[c].pending
    BY DEF OthersWait
  <2> QED  BY <2>1, <2>2, PendingThread, PendingStays
<1> QED  BY <1>3, <1>4, <1>5 DEF WaitingOK

\* A thread that does not wait has no request under way.
LEMMA NothingAsked ==
  ASSUME TypeOK, WaitingOK, NEW t \in Threads, pc[t] # "wait"
  PROVE  /\ NoneQueued(t)
         /\ \A c \in Clients, r \in Rows : \A i \in DOMAIN mgr[c].pending[r] :
              mgr[c].pending[r][i].thread # t
<1>1. NoneQueued(t)
  BY DEF WaitingOK, RequestsAreWanted, NoneQueued, NoneIn
<1>2. ASSUME NEW c \in Clients, NEW r \in Rows, NEW i \in DOMAIN mgr[c].pending[r]
      PROVE  mgr[c].pending[r][i].thread # t
  <2>1. WaitsFor(mgr[c].pending[r][i], c, r)
    BY PendingWaits
  <2> QED  BY <2>1 DEF WaitsFor
<1> QED  BY <1>1, <1>2

\* A thread starts to wait, or waits again.
LEMMA StartsToWait ==
  ASSUME TypeOK, WaitingOK, NEW t \in Threads, pc[t] # "wait",
         NEW w \in [row : Rows, clock : Nat, byThread : BOOLEAN], w.clock = StalestClock(t),
         pc' = [pc EXCEPT ![t] = "wait"], want' = [want EXCEPT ![t] = w],
         SendToBg(t, RowRequest(w.row, w.clock)), UNCHANGED <<clock, mgr>>
  PROVE  WaitingOK'
<1> DEFINE m == RowRequest(w.row, w.clock)
           q == appToBg[t]
<1>1. m.type = "RowRequest" /\ m.row = w.row /\ m.clock = w.clock
  BY DEF RowRequest
<1>2. /\ pc'[t] = "wait" /\ want'[t] = w
      /\ \A u \in Threads \ {t} : pc'[u] = pc[u] /\ want'[u] = want[u] /\ appToBg'[u] = appToBg[u]
      /\ appToBg'[t] = Append(q, m)
  BY DEF TypeOK, ThreadsOK, SendToBg
<1>3. /\ Len(q) \in Nat /\ DOMAIN q = 1 .. Len(q) /\ DOMAIN Append(q, m) = 1 .. Len(q) + 1
      /\ \A i \in 1 .. Len(q) : Append(q, m)[i] = q[i]
      /\ Append(q, m)[Len(q) + 1] = m
  <2>1. IsSeq(q)
    BY QueueOfThread, TypeParts
  <2> HIDE DEF q, m
  <2> QED  BY <2>1, AppendToSeq
<1>4. NoneQueued(t)
  BY NothingAsked
<1> HIDE DEF m, q
<1>5. WaitersKnow'
  BY <1>2 DEF WaitersKnow, WaitingOK, StalestClock
<1>6. RequestsAreWanted'
  <2>1. ASSUME NEW i \in DOMAIN appToBg'[t], appToBg'[t][i].type = "RowRequest"
        PROVE  /\ appToBg'[t][i] = m
               /\ \A j \in DOMAIN appToBg'[t] : j # i => appToBg'[t][j].type # "RowRequest"
    <3>1. \A j \in 1 .. Len(q) : appToBg'[t][j].type # "RowRequest"
      BY <1>2, <1>3, <1>4 DEF NoneQueued, NoneIn, q
    <3>2. i = Len(q) + 1
      BY <1>2, <1>3, <2>1, <3>1
    <3> QED  BY <1>2, <1>3, <3>1, <3>2
  <2>2. ASSUME NEW u \in Threads, u # t, NEW i \in DOMAIN appToBg'[u],
               appToBg'[u][i].type = "RowRequest"
        PROVE  /\ pc'[u] = "wait" /\ appToBg'[u][i].row = want'[u].row
               /\ appToBg'[u][i].clock = want'[u].clock
               /\ \A j \in DOMAIN appToBg'[u] : j # i => appToBg'[u][j].type # "RowRequest"
    BY <1>2, <2>2 DEF WaitingOK, RequestsAreWanted
  <2> SUFFICES ASSUME NEW u \in Threads, NEW i \in DOMAIN appToBg'[u],
                      appToBg'[u][i].type = "RowRequest"
               PROVE  /\ pc'[u] = "wait" /\ appToBg'[u][i].row = want'[u].row
                      /\ appToBg'[u][i].clock = want'[u].clock
                      /\ \A j \in DOMAIN appToBg'[u] : j # i => appToBg'[u][j].type # "RowRequest"
    BY DEF RequestsAreWanted
  <2>3. CASE u = t
    BY <1>1, <1>2, <2>1, <2>3
  <2>4. CASE u # t
    BY <2>2, <2>4
  <2> QED  BY <2>3, <2>4
<1>7. PendingAreWaiting'
  <2>1. \A c \in Clients, r \in Rows : \A i \in DOMAIN mgr[c].pending[r] :
          mgr[c].pending[r][i].thread \in Threads \ {t}
    BY PendingThread, NothingAsked
  <2>2. ASSUME NEW u \in Threads \ {t}, pc[u] = "wait", NoneQueued(u)
        PROVE  pc'[u] = "wait" /\ want'[u] = want[u] /\ NoneQueued(u)'
    BY <1>2, <2>2 DEF NoneQueued, NoneIn
  <2>3. \A c \in Clients : mgr'[c].pending = mgr[c].pending
    OBVIOUS
  <2> QED  BY <2>1, <2>2, <2>3, PendingStays
<1> QED  BY <1>5, <1>6, <1>7 DEF WaitingOK

\* The steps of application threads.
LEMMA ThreadKeepsWaiting ==
  ASSUME TypeOK, WaitingOK, NEW t \in Threads, ThreadNext(t)
  PROVE  WaitingOK'
<1>1. want \in [Threads -> {<< >>} \cup [row : Rows, clock : Nat, byThread : BOOLEAN]]
      /\ pc \in [Threads -> {"run", "wait", "woken", "flush", "tick", "clock", "send"}]
      /\ clock \in [Threads -> Nat] /\ DOMAIN appToBg = Threads
  BY DEF TypeOK, ThreadsOK
<1>2. CASE \E r \in Rows : Inc(t, r) \/ GetCached(t, r) \/ ThreadInc(t, r) \/ ThreadGetCached(t, r)
  <2>1. UNCHANGED <<pc, want, clock, appToBg, mgr>>
    BY <1>2 DEF Inc, GetCached, ThreadInc, ThreadGetCached, threadVars, bgVars, channelVars
  <2>2. OthersWait(t)
    BY <2>1 DEF OthersWait
  <2> QED  BY <2>2, OthersStillWait
<1>3. CASE \E r \in Rows, b \in BOOLEAN : RequestAndWait(t, r, b)
  <2>1. PICK r \in Rows, b \in BOOLEAN : RequestAndWait(t, r, b)
    BY <1>3
  <2> DEFINE w == [row |-> r, clock |-> StalestClock(t), byThread |-> b]
  <2>2. w \in [row : Rows, clock : Nat, byThread : BOOLEAN]
    BY Stalest, TypeParts
  <2>3. w.row = r /\ w.clock = StalestClock(t)
    OBVIOUS
  <2>4. /\ pc[t] # "wait" /\ pc' = [pc EXCEPT ![t] = "wait"] /\ want' = [want EXCEPT ![t] = w]
        /\ SendToBg(t, RowRequest(r, StalestClock(t))) /\ UNCHANGED <<clock, mgr>>
    BY <2>1 DEF RequestAndWait, Ready, bgVars
  <2> HIDE DEF w
  <2> QED  BY <2>2, <2>3, <2>4, StartsToWait
<1>4. CASE GetAgain(t)
  <2> DEFINE w == want[t]
  <2>1. /\ pc[t] = "woken" /\ pc' = [pc EXCEPT ![t] = "wait"] /\ want' = want
        /\ SendToBg(t, RowRequest(want[t].row, want[t].clock)) /\ UNCHANGED <<clock, mgr>>
    BY <1>4 DEF GetAgain, Woken, bgVars
  <2>2. w \in [row : Rows, clock : Nat, byThread : BOOLEAN] /\ w.clock = StalestClock(t)
    BY <2>1 DEF WaitingOK, WaitersKnow
  <2>3. want' = [want EXCEPT ![t] = w]
    BY <1>1, <2>1
  <2>4. SendToBg(t, RowRequest(w.row, w.clock))
    BY <2>1
  <2> HIDE DEF w
  <2> QED  BY <2>1, <2>2, <2>3, <2>4, StartsToWait
<1>5. CASE GetReturn(t) \/ ThreadGetReturn(t)
  <2>1. /\ pc[t] = "woken" /\ pc' = [pc EXCEPT ![t] = "run"] /\ want' = [want EXCEPT ![t] = << >>]
        /\ UNCHANGED <<clock, appToBg, mgr>>
    BY <1>5 DEF GetReturn, ThreadGetReturn, Woken, bgVars, channelVars
  <2>2. OthersWait(t)
    BY <1>1, <2>1 DEF OthersWait
  <2> QED  BY <2>2, OthersStillWait
<1>6. CASE GetAbort(t)
  <2>1. UNCHANGED <<pc, want, clock, appToBg, mgr>>
    BY <1>6 DEF GetAbort, threadVars, bgVars, channelVars
  <2>2. OthersWait(t)
    BY <2>1 DEF OthersWait
  <2> QED  BY <2>2, OthersStillWait
<1>7. CASE (\E r \in Rows : FlushRow(t, r)) \/ FlushThreadCache(t)
  <2>1. /\ pc[t] \in {"run", "flush"} /\ \E x \in {"run", "flush"} : pc' = [pc EXCEPT ![t] = x]
        /\ UNCHANGED <<want, clock, appToBg, mgr>>
    BY <1>7 DEF FlushRow, FlushThreadCache, Flushing, bgVars, channelVars
  <2>2. OthersWait(t)
    BY <1>1, <2>1 DEF OthersWait
  <2> QED  BY <2>2, OthersStillWait
<1>8. CASE Clock(t)
  <2>1. /\ pc[t] \in {"run", "flush"} /\ pc' = [pc EXCEPT ![t] = "tick"]
        /\ clock' = [clock EXCEPT ![t] = @ + 1]
        /\ UNCHANGED <<want, appToBg, mgr>>
    BY <1>8 DEF Clock, Flushing, bgVars, channelVars
  <2>2. OthersWait(t)
    BY <1>1, <2>1 DEF OthersWait
  <2> QED  BY <2>2, OthersStillWait
<1>9. CASE TickThread(t)
  <2>1. /\ pc[t] = "tick" /\ \E x \in {"run", "clock", "send"} : pc' = [pc EXCEPT ![t] = x]
        /\ UNCHANGED <<want, clock, appToBg, mgr>>
    BY <1>9 DEF TickThread, bgVars, channelVars
  <2>2. OthersWait(t)
    BY <1>1, <2>1 DEF OthersWait
  <2> QED  BY <2>2, OthersStillWait
<1>10. CASE TellBg(t)
  <2> DEFINE m == [type |-> IF pc[t] = "clock" THEN "BgClock" ELSE "BgSendOpLog"]
  <2>1. /\ pc[t] \in {"clock", "send"} /\ pc' = [pc EXCEPT ![t] = "run"]
        /\ appToBg' = [appToBg EXCEPT ![t] = Append(@, m)]
        /\ UNCHANGED <<want, clock, mgr>>
    BY <1>10 DEF TellBg, SendToBg, bgVars
  <2>2. m.type # "RowRequest"
    OBVIOUS
  <2> HIDE DEF m
  <2>3. OthersWait(t)
    BY <1>1, <2>1, <2>2 DEF OthersWait
  <2> QED  BY <2>3, OthersStillWait
<1> QED  BY <1>2, <1>3, <1>4, <1>5, <1>6, <1>7, <1>8, <1>9, <1>10
     DEF ThreadNext, GetRequest, ThreadGetRequest

\* Steps that leave the waiting threads and their requests alone.
LEMMA NobodyMoves ==
  ASSUME TypeOK, WaitingOK, UNCHANGED <<pc, want, clock, appToBg>>,
         \A c \in Clients : mgr'[c].pending = mgr[c].pending
  PROVE  WaitingOK'
<1>1. WaitersKnow' /\ RequestsAreWanted'
  BY DEF WaitingOK, WaitersKnow, RequestsAreWanted, StalestClock
<1>2. PendingAreWaiting'
  <2>1. \A u \in Threads : pc[u] = "wait" /\ NoneQueued(u) =>
          pc'[u] = "wait" /\ want'[u] = want[u] /\ NoneQueued(u)'
    BY DEF NoneQueued
  <2> QED  BY <2>1, PendingThread, PendingStays
<1> QED  BY <1>1, <1>2 DEF WaitingOK

\* The queue of a thread without its first message.
LEMMA QueueShrinks ==
  ASSUME ClocksTyped, NEW c \in Clients, NEW t \in Threads, NEW type, NextFromApp(c, t, type)
  PROVE  /\ ClientOf[t] = c
         /\ 1 \in DOMAIN appToBg[t] /\ appToBg[t][1] = Head(appToBg[t]) /\ Head(appToBg[t]).type = type
         /\ \A u \in Threads \ {t} : appToBg'[u] = appToBg[u]
         /\ \A i \in DOMAIN appToBg'[t] : /\ i \in Nat \ {0} /\ i + 1 \in DOMAIN appToBg[t] /\ i + 1 # 1
                                          /\ appToBg'[t][i] = appToBg[t][i + 1]
         /\ \A i \in DOMAIN appToBg[t] \ {1} : i - 1 \in DOMAIN appToBg'[t]
<1> DEFINE q == appToBg[t]
<1>1. IsSeq(q) /\ q # << >>
  BY DEF NextFromApp, ClocksTyped
<1>2. /\ Len(q) \in Nat \ {0} /\ DOMAIN q = 1 .. Len(q) /\ DOMAIN Tail(q) = 1 .. Len(q) - 1
      /\ \A i \in 1 .. Len(q) - 1 : Tail(q)[i] = q[i + 1]
      /\ Head(q) = q[1]
  <2> HIDE DEF q
  <2> QED  BY <1>1, TailOfSeq
<1>3. appToBg' = [appToBg EXCEPT ![t] = Tail(@)] /\ DOMAIN appToBg = Threads /\ ClientOf[t] = c
      /\ Head(q).type = type
  BY DEF NextFromApp, ClocksTyped
<1>4. appToBg'[t] = Tail(q) /\ \A u \in Threads \ {t} : appToBg'[u] = appToBg[u]
  BY <1>3
<1> HIDE DEF q
<1>5. \A i \in DOMAIN Tail(q) : i \in Nat \ {0} /\ i + 1 \in DOMAIN q /\ i + 1 # 1 /\ Tail(q)[i] = q[i + 1]
  BY <1>2
<1>6. \A i \in DOMAIN q \ {1} : i - 1 \in DOMAIN Tail(q)
  BY <1>2
<1>7. 1 \in DOMAIN q
  BY <1>2
<1> QED  BY <1>2, <1>3, <1>4, <1>5, <1>6, <1>7 DEF q

\* The first message of a thread that waits is its only request.
LEMMA TakesTheRequest ==
  ASSUME TypeOK, WaitingOK, NEW c \in Clients, NEW t \in Threads, NextFromApp(c, t, "RowRequest")
  PROVE  LET msg == Head(appToBg[t])
         IN  /\ msg \in FromApp /\ msg.type = "RowRequest"
             /\ pc[t] = "wait" /\ msg.row = want[t].row /\ msg.clock = want[t].clock
             /\ want[t] \in [row : Rows, clock : Nat, byThread : BOOLEAN]
             /\ NoneQueued(t)'
             /\ \A r \in Rows : \A i \in DOMAIN mgr[c].pending[r] : mgr[c].pending[r][i].thread # t
<1>1. QueuesOK
  BY TypeParts
<1>2. /\ ClientOf[t] = c /\ 1 \in DOMAIN appToBg[t] /\ appToBg[t][1] = Head(appToBg[t])
      /\ Head(appToBg[t]).type = "RowRequest"
      /\ \A i \in DOMAIN appToBg'[t] : /\ i \in Nat \ {0} /\ i + 1 \in DOMAIN appToBg[t] /\ i + 1 # 1
                                       /\ appToBg'[t][i] = appToBg[t][i + 1]
  BY <1>1, QueueShrinks, ClocksAreTyped
<1>3. /\ pc[t] = "wait" /\ appToBg[t][1].row = want[t].row /\ appToBg[t][1].clock = want[t].clock
      /\ \A j \in DOMAIN appToBg[t] : j # 1 => appToBg[t][j].type # "RowRequest"
  BY <1>2 DEF WaitingOK, RequestsAreWanted
<1>4. NoneQueued(t)'
  BY <1>2, <1>3 DEF NoneQueued, NoneIn
<1>5. ~NoneQueued(t)
  BY <1>2 DEF NoneQueued, NoneIn
<1>6. \A r \in Rows : \A i \in DOMAIN mgr[c].pending[r] : mgr[c].pending[r][i].thread # t
  BY <1>5, PendingWaits DEF WaitsFor
<1>7. want[t] \in [row : Rows, clock : Nat, byThread : BOOLEAN]
  BY <1>3 DEF WaitingOK, WaitersKnow
<1>8. Head(appToBg[t]) \in FromApp
  BY <1>1, NextFromAppTypes
<1> QED  BY <1>2, <1>3, <1>4, <1>6, <1>7, <1>8

\* Answering a row request wakes its thread.
LEMMA AnsweredKeepsWaiting ==
  ASSUME TypeOK, WaitingOK, NEW c \in Clients, NEW t \in Threads, RowRequestAnswered(c, t)
  PROVE  WaitingOK'
<1>1. /\ NextFromApp(c, t, "RowRequest") /\ pc' = [pc EXCEPT ![t] = "woken"]
      /\ UNCHANGED <<want, clock, mgr>>
  BY DEF RowRequestAnswered, bgVars
<1>2. /\ pc[t] = "wait" /\ NoneQueued(t)'
      /\ \A r \in Rows : \A i \in DOMAIN mgr[c].pending[r] : mgr[c].pending[r][i].thread # t
  BY <1>1, TakesTheRequest
<1>3. /\ ClientOf[t] = c /\ \A u \in Threads \ {t} : appToBg'[u] = appToBg[u]
  BY <1>1, QueueShrinks, ClocksAreTyped
<1>4. pc'[t] = "woken" /\ \A u \in Threads \ {t} : pc'[u] = pc[u]
  BY <1>1 DEF TypeOK
<1>5. WaitersKnow'
  BY <1>1, <1>2, <1>4 DEF WaitersKnow, WaitingOK, StalestClock
<1>6. RequestsAreWanted'
  <2> SUFFICES ASSUME NEW u \in Threads, NEW i \in DOMAIN appToBg'[u],
                      appToBg'[u][i].type = "RowRequest"
               PROVE  /\ pc'[u] = "wait" /\ appToBg'[u][i].row = want'[u].row
                      /\ appToBg'[u][i].clock = want'[u].clock
                      /\ \A j \in DOMAIN appToBg'[u] : j # i => appToBg'[u][j].type # "RowRequest"
    BY DEF RequestsAreWanted
  <2>1. u # t
    BY <1>2 DEF NoneQueued, NoneIn
  <2> QED  BY <1>1, <1>3, <1>4, <2>1 DEF WaitingOK, RequestsAreWanted
<1>7. PendingAreWaiting'
  <2>1. ASSUME NEW d \in Clients, NEW r \in Rows, NEW i \in DOMAIN mgr[d].pending[r]
        PROVE  mgr[d].pending[r][i].thread \in Threads \ {t}
    <3>1. mgr[d].pending[r][i].thread \in Threads /\ ClientOf[mgr[d].pending[r][i].thread] = d
      BY PendingThread, PendingWaits DEF WaitsFor
    <3> QED  BY <1>2, <1>3, <3>1
  <2>2. ASSUME NEW u \in Threads \ {t}, pc[u] = "wait", NoneQueued(u)
        PROVE  pc'[u] = "wait" /\ want'[u] = want[u] /\ NoneQueued(u)'
    BY <1>1, <1>3, <1>4, <2>2 DEF NoneQueued, NoneIn
  <2>3. \A d \in Clients : mgr'[d].pending = mgr[d].pending
    BY <1>1
  <2> QED  BY <2>1, <2>2, <2>3, PendingStays
<1> QED  BY <1>5, <1>6, <1>7 DEF WaitingOK

\* Forwarding a row request makes it pending.
LEMMA ForwardedKeepsWaiting ==
  ASSUME TypeOK, WaitingOK, NEW c \in Clients, NEW t \in Threads, RowRequestForwarded(c, t)
  PROVE  WaitingOK'
<1> DEFINE msg == Head(appToBg[t])
           r0 == msg.row
           k0 == msg.clock
<1>1. /\ NextFromApp(c, t, "RowRequest") /\ UNCHANGED <<pc, want, clock>>
  BY DEF RowRequestForwarded, threadVars
<1>2. PICK b \in StoredSent :
        mgr' = [mgr EXCEPT ![c] = AddRowRequest(@, r0, t, k0, version[c] - 1, b)]
  BY DEF RowRequestForwarded
<1>3. /\ pc[t] = "wait" /\ r0 = want[t].row /\ k0 = want[t].clock /\ NoneQueued(t)'
      /\ r0 \in Rows /\ k0 \in Nat
      /\ \A r \in Rows : \A i \in DOMAIN mgr[c].pending[r] : mgr[c].pending[r][i].thread # t
  BY <1>1, TakesTheRequest, RowRequestFromApp
<1>4. /\ ClientOf[t] = c /\ \A u \in Threads \ {t} : appToBg'[u] = appToBg[u]
  BY <1>1, QueueShrinks, ClocksAreTyped
<1> HIDE DEF r0, k0
<1> DEFINE m == mgr[c]
           n == AddRowRequest(m, r0, t, k0, version[c] - 1, b)
           at == Behind(m, r0, k0) + 1
           e0 == [thread |-> t, clock |-> k0, version |-> version[c] - 1, sent |-> b]
<1>5. mgr'[c] = n /\ \A d \in Clients \ {c} : mgr'[d] = mgr[d]
  BY <1>2 DEF TypeOK
<1>6. Requested(m, n, r0, at, e0)
  <2>1. IsMgr(m) /\ b \in BOOLEAN /\ version[c] - 1 \in Int
    BY SettingsAssumption DEF TypeOK, ClientsOK
  <2> HIDE DEF m
  <2> QED  BY <1>3, <2>1, AddRowRequestFacts DEF n, at, e0
<1>7. e0.thread = t /\ e0.clock = k0
  OBVIOUS
<1> HIDE DEF n, at, e0
<1> DEFINE q == m.pending[r0]
<1>8. /\ at \in 1 .. Len(q) + 1 /\ Len(q) \in Nat /\ DOMAIN q = 1 .. Len(q)
      /\ \A x \in Rows \ {r0} : n.pending[x] = m.pending[x]
      /\ DOMAIN n.pending[r0] = 1 .. Len(q) + 1
      /\ \A i \in 1 .. Len(q) + 1 :
           n.pending[r0][i] = IF i < at THEN q[i] ELSE IF i = at THEN e0 ELSE q[i - 1]
  BY <1>6 DEF Requested
<1>9. WaitersKnow'
  BY <1>1 DEF WaitersKnow, WaitingOK, StalestClock
<1>10. RequestsAreWanted'
  <2> SUFFICES ASSUME NEW u \in Threads, NEW i \in DOMAIN appToBg'[u],
                      appToBg'[u][i].type = "RowRequest"
               PROVE  /\ pc'[u] = "wait" /\ appToBg'[u][i].row = want'[u].row
                      /\ appToBg'[u][i].clock = want'[u].clock
                      /\ \A j \in DOMAIN appToBg'[u] : j # i => appToBg'[u][j].type # "RowRequest"
    BY DEF RequestsAreWanted
  <2>1. u # t
    BY <1>3 DEF NoneQueued, NoneIn
  <2> QED  BY <1>1, <1>4, <2>1 DEF WaitingOK, RequestsAreWanted
\* What an old request of the list still knows.
<1> DEFINE Holds(e, d, r) == /\ pc'[e.thread] = "wait" /\ ClientOf[e.thread] = d
                             /\ want'[e.thread].row = r /\ want'[e.thread].clock = e.clock
                             /\ NoneIn(appToBg'[e.thread])
<1>11. ASSUME NEW d \in Clients, NEW r \in Rows, NEW i \in DOMAIN mgr[d].pending[r]
       PROVE  /\ Holds(mgr[d].pending[r][i], d, r)
              /\ mgr[d].pending[r][i].thread # t
              /\ \A j \in DOMAIN mgr[d].pending[r] :
                   j # i => mgr[d].pending[r][j].thread # mgr[d].pending[r][i].thread
  <2>0. PICK e : e = mgr[d].pending[r][i]
    OBVIOUS
  <2>1. WaitsFor(e, d, r) /\ Alone(mgr[d].pending[r], i) /\ e.thread \in Threads
    BY <2>0, PendingWaits, PendingThread
  <2>2. e.thread # t
    <3>1. CASE d = c
      BY <1>3, <2>0, <3>1
    <3>2. CASE d # c
      BY <1>4, <2>1, <3>2 DEF WaitsFor
    <3> QED  BY <3>1, <3>2
  <2>3. NoneIn(appToBg'[e.thread])
    BY <1>4, <2>1, <2>2 DEF WaitsFor, NoneQueued
  <2>4. Holds(e, d, r)
    BY <1>1, <2>1, <2>3 DEF WaitsFor
  <2> HIDE DEF Holds
  <2> QED  BY <2>0, <2>1, <2>2, <2>4 DEF Alone
<1>12. Holds(e0, c, r0)
  BY <1>1, <1>3, <1>4, <1>7 DEF NoneQueued
<1> HIDE DEF Holds
<1>13. ASSUME NEW i \in 1 .. Len(q) + 1
       PROVE  /\ Holds(n.pending[r0][i], c, r0)
              /\ \A j \in 1 .. Len(q) + 1 :
                   j # i => n.pending[r0][j].thread # n.pending[r0][i].thread
  <2> DEFINE old(j) == IF j < at THEN j ELSE j - 1
  <2>1. \A j \in 1 .. Len(q) + 1 : j # at => old(j) \in DOMAIN q /\ n.pending[r0][j] = q[old(j)]
    BY <1>8
  <2>2. \A j, l \in 1 .. Len(q) + 1 : j # at /\ l # at /\ j # l => old(j) # old(l)
    BY <1>8
  <2>3. n.pending[r0][at] = e0
    BY <1>8
  <2> HIDE DEF old
  <2>4. \A j \in DOMAIN q : /\ Holds(q[j], c, r0) /\ q[j].thread # t
                            /\ \A l \in DOMAIN q : l # j => q[l].thread # q[j].thread
    BY <1>3, <1>11
  <2> HIDE DEF q
  <2>5. Holds(n.pending[r0][i], c, r0)
    BY <1>12, <2>1, <2>3, <2>4
  <2>6. ASSUME NEW j \in 1 .. Len(q) + 1, j # i
        PROVE  n.pending[r0][j].thread # n.pending[r0][i].thread
    <3>1. CASE i = at
      BY <1>7, <2>1, <2>3, <2>4, <2>6, <3>1
    <3>2. CASE j = at
      BY <1>7, <2>1, <2>3, <2>4, <2>6, <3>2
    <3>3. CASE i # at /\ j # at
      BY <2>1, <2>2, <2>4, <2>6, <3>3
    <3> QED  BY <3>1, <3>2, <3>3
  <2> QED  BY <2>5, <2>6
<1>14. PendingAreWaiting'
  <2> SUFFICES ASSUME NEW d \in Clients, NEW r \in Rows, NEW i \in DOMAIN mgr'[d].pending[r]
               PROVE  /\ Holds(mgr'[d].pending[r][i], d, r)
                      /\ \A j \in DOMAIN mgr'[d].pending[r] :
                           j # i => mgr'[d].pending[r][j].thread # mgr'[d].pending[r][i].thread
    BY DEF PendingAreWaiting, WaitsFor, Alone, Holds, NoneQueued
  <2>1. CASE d = c /\ r = r0
    BY <1>5, <1>8, <1>13, <2>1
  <2>2. CASE ~(d = c /\ r = r0)
    <3>1. mgr'[d].pending[r] = mgr[d].pending[r]
      BY <1>5, <1>8, <2>2
    <3> QED  BY <1>11, <3>1
  <2> QED  BY <2>1, <2>2
<1> QED  BY <1>9, <1>10, <1>14 DEF WaitingOK

\* HandleClockMsg leaves the waiting threads alone.
LEMMA HandleBgKeepsWaiting ==
  ASSUME TypeOK, WaitingOK, NEW c \in Clients, NEW t \in Threads,
         HandleBgClock(c, t) \/ HandleBgSendOpLog(c, t)
  PROVE  WaitingOK'
<1>1. /\ \E type \in {"BgClock", "BgSendOpLog"} : NextFromApp(c, t, type)
      /\ UNCHANGED <<pc, want, clock>>
      /\ mgr' = [mgr EXCEPT ![c] = AddOpLog(@, version[c], TakenOpLog(c))]
  BY DEF HandleBgClock, HandleBgSendOpLog, SendOpLogs, threadVars
<1>2. \A d \in Clients : mgr'[d].pending = mgr[d].pending
  <2> DEFINE m == mgr[c]
             n == AddOpLog(m, version[c], TakenOpLog(c))
  <2>1. IsMgr(m) /\ version[c] \in Nat /\ TakenOpLog(c) \in Updates
    BY TakenTypes, TypeParts DEF QueuesOK, ClientsOK
  <2> HIDE DEF m
  <2>2. n.pending = m.pending
    BY <2>1, AddOpLogFacts DEF MayKeep
  <2>3. DOMAIN mgr = Clients
    BY DEF TypeOK
  <2>4. mgr' = [mgr EXCEPT ![c] = n]
    BY <1>1 DEF m
  <2> HIDE DEF n
  <2> QED  BY <2>2, <2>3, <2>4 DEF m
<1>3. PICK type \in {"BgClock", "BgSendOpLog"} : NextFromApp(c, t, type)
  BY <1>1
<1>4. /\ \A u \in Threads \ {t} : appToBg'[u] = appToBg[u]
      /\ \A i \in DOMAIN appToBg'[t] : /\ i \in Nat \ {0} /\ i + 1 \in DOMAIN appToBg[t]
                                       /\ appToBg'[t][i] = appToBg[t][i + 1]
  BY <1>3, QueueShrinks, ClocksAreTyped
<1>5. WaitersKnow'
  BY <1>1 DEF WaitersKnow, WaitingOK, StalestClock
<1>6. RequestsAreWanted'
  <2> SUFFICES ASSUME NEW u \in Threads, NEW i \in DOMAIN appToBg'[u],
                      appToBg'[u][i].type = "RowRequest"
               PROVE  /\ pc'[u] = "wait" /\ appToBg'[u][i].row = want'[u].row
                      /\ appToBg'[u][i].clock = want'[u].clock
                      /\ \A j \in DOMAIN appToBg'[u] : j # i => appToBg'[u][j].type # "RowRequest"
    BY DEF RequestsAreWanted
  <2>1. CASE u # t
    BY <1>1, <1>4, <2>1 DEF WaitingOK, RequestsAreWanted
  <2>2. CASE u = t
    <3>1. i \in Nat \ {0} /\ i + 1 \in DOMAIN appToBg[t] /\ appToBg'[t][i] = appToBg[t][i + 1]
      BY <1>4, <2>2
    <3>2. /\ pc[t] = "wait" /\ appToBg'[t][i].row = want[t].row
          /\ appToBg'[t][i].clock = want[t].clock
          /\ \A j \in DOMAIN appToBg[t] : j # i + 1 => appToBg[t][j].type # "RowRequest"
      BY <2>2, <3>1 DEF WaitingOK, RequestsAreWanted
    <3>3. \A j \in DOMAIN appToBg'[t] : j # i => appToBg'[t][j].type # "RowRequest"
      <4> SUFFICES ASSUME NEW j \in DOMAIN appToBg'[t], j # i
                   PROVE  appToBg'[t][j].type # "RowRequest"
        OBVIOUS
      <4>1. j \in Nat /\ j + 1 \in DOMAIN appToBg[t] /\ appToBg'[t][j] = appToBg[t][j + 1]
        BY <1>4
      <4>2. j + 1 # i + 1
        BY <3>1, <4>1
      <4> QED  BY <3>2, <4>1, <4>2
    <3> QED  BY <1>1, <2>2, <3>2, <3>3
  <2> QED  BY <2>1, <2>2
<1>7. PendingAreWaiting'
  <2>1. ASSUME NEW u \in Threads, pc[u] = "wait", NoneQueued(u)
        PROVE  pc'[u] = "wait" /\ want'[u] = want[u] /\ NoneQueued(u)'
    <3>1. NoneQueued(u)'
      <4>1. CASE u = t
        BY <1>4, <2>1, <4>1 DEF NoneQueued, NoneIn
      <4>2. CASE u # t
        BY <1>4, <2>1, <4>2 DEF NoneQueued
      <4> QED  BY <4>1, <4>2
    <3> QED  BY <1>1, <2>1, <3>1
  <2> QED  BY <1>2, <2>1, PendingThread, PendingStays
<1> QED  BY <1>5, <1>6, <1>7 DEF WaitingOK

\* The threads that a reply answers, and what is left of the requests.
LEMMA AnswersOfReply ==
  ASSUME TypeOK, WaitingOK, NEW c \in Clients, NEW s \in Servers, HandleReply(c, s)
  PROVE  LET reply == Head(serverToBg[s][c])
             r == reply.row
             d == Len(Satisfied(mgr[c], r, reply.clock))
             q == mgr[c].pending[r]
         IN  /\ reply \in RowReplies(s) /\ r \in Rows /\ ServerOf[r] = s /\ reply.clock \in Nat
             /\ Answered(mgr[c], mgr'[c], r, d, ClockToRequest(mgr[c], r, reply.clock, version[c]))
             /\ \A z \in Clients \ {c} : mgr'[z] = mgr[z]
             /\ AnsweredThreads(c, reply) = {q[i].thread : i \in 1 .. d}
             /\ \A i \in 1 .. d : q[i].clock <= reply.clock
<1> DEFINE reply == Head(serverToBg[s][c])
           r == reply.row
           k == reply.clock
           m == mgr[c]
           d == Len(Satisfied(m, r, k))
           q == m.pending[r]
<1>1. reply \in RowReplies(s) /\ r \in Rows /\ ServerOf[r] = s /\ k \in Nat
  BY ReplyTypes, TypeParts DEF HandleReply
<1>2. mgr' = [mgr EXCEPT ![c] = InformReply(@, r, k, version[c])]
  BY DEF HandleReply
<1>3. IsMgr(m) /\ version[c] \in Nat /\ DOMAIN mgr = Clients
  BY DEF TypeOK, ClientsOK
<1>4. mgr'[c] = InformReply(m, r, k, version[c]) /\ \A z \in Clients \ {c} : mgr'[z] = mgr[z]
  BY <1>2, <1>3
<1>5. Answered(m, InformReply(m, r, k, version[c]), r, d, ClockToRequest(m, r, k, version[c]))
  <2> HIDE DEF m, r, k
  <2> QED  BY <1>1, <1>3, InformReplyFacts
<1>6. /\ DOMAIN Satisfied(m, r, k) = 1 .. d
      /\ \A i \in 1 .. d : Satisfied(m, r, k)[i] = q[i] /\ q[i].clock <= k
  <2> HIDE DEF m, r, k
  <2> QED  BY <1>1, <1>3, SatisfiedIsPrefix
<1>7. AnsweredThreads(c, reply) = {q[i].thread : i \in 1 .. d}
  BY <1>6 DEF AnsweredThreads
<1> QED  BY <1>1, <1>4, <1>5, <1>6, <1>7

\* A reply wakes the threads whose requests it removes.
LEMMA ReplyKeepsWaiting ==
  ASSUME TypeOK, WaitingOK, NEW c \in Clients, NEW s \in Servers, HandleReply(c, s)
  PROVE  WaitingOK'
<1> DEFINE reply == Head(serverToBg[s][c])
           r0 == reply.row
           d0 == Len(Satisfied(mgr[c], r0, reply.clock))
           q == mgr[c].pending[r0]
           done == AnsweredThreads(c, reply)
           again == ClockToRequest(mgr[c], r0, reply.clock, version[c])
<1>1. /\ UNCHANGED <<want, clock, appToBg>>
      /\ pc' = [u \in Threads |-> IF u \in done THEN "woken" ELSE pc[u]]
  BY DEF HandleReply
<1>2. /\ r0 \in Rows /\ Answered(mgr[c], mgr'[c], r0, d0, again)
      /\ \A z \in Clients \ {c} : mgr'[z] = mgr[z]
      /\ done = {q[i].thread : i \in 1 .. d0}
  BY AnswersOfReply
<1> HIDE DEF r0, d0, done, reply, again
<1>3. /\ d0 \in 0 .. Len(q) /\ Len(q) \in Nat /\ DOMAIN q = 1 .. Len(q)
      /\ \A x \in Rows \ {r0} : mgr'[c].pending[x] = mgr[c].pending[x]
      /\ DOMAIN mgr'[c].pending[r0] = 1 .. Len(q) - d0
      /\ \A i \in 1 .. Len(q) - d0 : /\ mgr'[c].pending[r0][i].thread = q[i + d0].thread
                                     /\ mgr'[c].pending[r0][i].clock = q[i + d0].clock
  BY <1>2 DEF Answered
<1> DEFINE Holds(e, d, r) == /\ pc[e.thread] = "wait" /\ ClientOf[e.thread] = d
                             /\ want[e.thread].row = r /\ want[e.thread].clock = e.clock
                             /\ NoneIn(appToBg[e.thread]) /\ e.thread \in Threads
<1>4. ASSUME NEW d \in Clients, NEW r \in Rows, NEW i \in DOMAIN mgr[d].pending[r]
      PROVE  /\ Holds(mgr[d].pending[r][i], d, r)
             /\ \A j \in DOMAIN mgr[d].pending[r] :
                  j # i => mgr[d].pending[r][j].thread # mgr[d].pending[r][i].thread
  <2>0. PICK e : e = mgr[d].pending[r][i]
    OBVIOUS
  <2>1. WaitsFor(e, d, r) /\ Alone(mgr[d].pending[r], i) /\ e.thread \in Threads
    BY <2>0, PendingWaits, PendingThread
  <2>2. Holds(e, d, r)
    BY <2>1 DEF WaitsFor, NoneQueued
  <2> HIDE DEF Holds
  <2> QED  BY <2>0, <2>1, <2>2 DEF Alone
<1>5. ASSUME NEW i \in 1 .. d0 PROVE i \in DOMAIN q
  BY <1>3
<1>6. \A u \in done : /\ u \in Threads /\ pc[u] = "wait" /\ ClientOf[u] = c /\ want[u].row = r0
                      /\ NoneIn(appToBg[u])
  <2>1. ASSUME NEW i \in 1 .. d0 PROVE Holds(q[i], c, r0)
    <3> HIDE DEF Holds
    <3> QED  BY <1>2, <1>4, <1>5
  <2> QED  BY <1>2, <2>1
<1>7. WaitersKnow'
  BY <1>1, <1>6 DEF WaitersKnow, WaitingOK, StalestClock
<1>8. RequestsAreWanted'
  <2> SUFFICES ASSUME NEW u \in Threads, NEW i \in DOMAIN appToBg[u],
                      appToBg[u][i].type = "RowRequest"
               PROVE  /\ pc'[u] = "wait" /\ appToBg[u][i].row = want[u].row
                      /\ appToBg[u][i].clock = want[u].clock
                      /\ \A j \in DOMAIN appToBg[u] : j # i => appToBg[u][j].type # "RowRequest"
    BY <1>1 DEF RequestsAreWanted
  <2>1. u \notin done
    BY <1>6 DEF NoneIn
  <2> QED  BY <1>1, <2>1 DEF WaitingOK, RequestsAreWanted
<1>10. ASSUME NEW i \in 1 .. Len(q) - d0
       PROVE  LET e == mgr'[c].pending[r0][i]
              IN  /\ Holds(e, c, r0) /\ e.thread \notin done
                  /\ \A j \in 1 .. Len(q) - d0 : j # i => mgr'[c].pending[r0][j].thread # e.thread
  <2>1. \A j \in 1 .. Len(q) - d0 : j + d0 \in DOMAIN q
    BY <1>3
  <2>0. PICK h : h = i + d0 /\ h \in DOMAIN q
    BY <2>1
  <2>2. Holds(q[i + d0], c, r0)
    <3> HIDE DEF Holds
    <3>1. Holds(q[h], c, r0)
      BY <1>2, <1>4, <2>0, Zenon
    <3> QED  BY <2>0, <3>1
  <2>3. \A l \in DOMAIN q : l # i + d0 => q[l].thread # q[i + d0].thread
    <3> HIDE DEF Holds
    <3>1. \A l \in DOMAIN q : l # h => q[l].thread # q[h].thread
      BY <1>2, <1>4, <2>0, Zenon
    <3> QED  BY <2>0, <3>1
  <2>4. mgr'[c].pending[r0][i].thread = q[i + d0].thread /\ mgr'[c].pending[r0][i].clock = q[i + d0].clock
    BY <1>3
  <2>5. q[i + d0].thread \notin done
    <3>1. \A l \in 1 .. d0 : l \in DOMAIN q /\ l # i + d0
      BY <1>3
    <3> QED  BY <1>2, <2>3, <3>1
  <2>6. ASSUME NEW j \in 1 .. Len(q) - d0, j # i
        PROVE  mgr'[c].pending[r0][j].thread # q[i + d0].thread
    <3>1. j + d0 \in DOMAIN q /\ j + d0 # i + d0
      BY <1>3, <2>1, <2>6
    <3>2. mgr'[c].pending[r0][j].thread = q[j + d0].thread
      BY <1>3
    <3> QED  BY <2>3, <3>1, <3>2
  <2> QED  BY <2>2, <2>4, <2>5, <2>6
<1>11. ASSUME NEW d \in Clients, NEW r \in Rows, NEW i \in DOMAIN mgr'[d].pending[r]
       PROVE  LET e == mgr'[d].pending[r][i]
              IN  /\ Holds(e, d, r) /\ e.thread \notin done
                  /\ \A j \in DOMAIN mgr'[d].pending[r] :
                       j # i => mgr'[d].pending[r][j].thread # e.thread
  <2>1. CASE d = c /\ r = r0
    BY <1>3, <1>10, <2>1
  <2>2. CASE ~(d = c /\ r = r0)
    <3>1. mgr'[d].pending[r] = mgr[d].pending[r]
      BY <1>2, <1>3, <2>2
    <3>2. mgr[d].pending[r][i].thread \notin done
      <4>1. Holds(mgr[d].pending[r][i], d, r)
        <5> HIDE DEF Holds
        <5> QED  BY <1>4, <3>1
      <4> QED  BY <1>6, <2>2, <4>1
    <3> HIDE DEF Holds
    <3> QED  BY <1>4, <3>1, <3>2
  <2> QED  BY <2>1, <2>2
<1>12. PendingAreWaiting'
  <2> SUFFICES ASSUME NEW d \in Clients, NEW r \in Rows, NEW i \in DOMAIN mgr'[d].pending[r]
               PROVE  WaitsFor(mgr[d].pending[r][i], d, r)' /\ Alone(mgr[d].pending[r], i)'
    BY DEF PendingAreWaiting
  <2> HIDE DEF Holds
  <2>0. PICK e : e = mgr'[d].pending[r][i]
    OBVIOUS
  <2>1. /\ Holds(e, d, r) /\ e.thread \notin done
        /\ \A j \in DOMAIN mgr'[d].pending[r] : j # i => mgr'[d].pending[r][j].thread # e.thread
    BY <1>11, <2>0
  <2>2. /\ pc[e.thread] = "wait" /\ ClientOf[e.thread] = d
        /\ want[e.thread].row = r /\ want[e.thread].clock = e.clock
        /\ NoneIn(appToBg[e.thread]) /\ e.thread \in Threads
    BY <2>1 DEF Holds
  <2>3. /\ pc'[e.thread] = "wait" /\ want'[e.thread] = want[e.thread]
        /\ NoneIn(appToBg'[e.thread])
    BY <1>1, <2>1, <2>2
  <2>4. Alone(mgr[d].pending[r], i)'
    BY <2>0, <2>1 DEF Alone
  <2> QED  BY <2>0, <2>2, <2>3, <2>4 DEF WaitsFor, NoneQueued
<1> QED  BY <1>7, <1>8, <1>12 DEF WaitingOK

\* Nobody waits at the start.
LEMMA InitWaiting == Init => WaitingOK
<1> SUFFICES ASSUME Init PROVE WaitingOK
  OBVIOUS
<1>1. WaitersKnow /\ RequestsAreWanted
  BY DEF Init, Start, WaitersKnow, RequestsAreWanted
<1>2. PendingAreWaiting
  BY DEF Init, EmptyMgr, PendingAreWaiting
<1> QED  BY <1>1, <1>2 DEF WaitingOK

\* Every step keeps WaitingOK.
LEMMA StepKeepsWaiting == TypeOK /\ WaitingOK /\ [Next]_vars => WaitingOK'
<1> SUFFICES ASSUME TypeOK, WaitingOK, [Next]_vars PROVE WaitingOK'
  OBVIOUS
<1>1. CASE UNCHANGED vars
  BY <1>1, NobodyMoves DEF vars, threadVars, bgVars, channelVars
<1>2. CASE \E t \in Threads : ThreadNext(t)
  BY <1>2, ThreadKeepsWaiting
<1>3. ASSUME NEW c \in Clients, BgNext(c) PROVE WaitingOK'
  <2>1. ASSUME NEW s \in Servers, HandleReplyAbort(c, s) PROVE WaitingOK'
    BY <2>1, NobodyMoves DEF HandleReplyAbort, threadVars, bgVars, channelVars
  <2> QED  BY <1>3, <2>1, AnsweredKeepsWaiting, ForwardedKeepsWaiting, HandleBgKeepsWaiting,
              ReplyKeepsWaiting DEF BgNext
<1>4. ASSUME NEW s \in Servers, NEW c \in Clients,
             RowRequestBuffered(s, c) \/ RowRequestReplied(s, c) \/ HandleOpLog(s, c)
      PROVE  WaitingOK'
  BY <1>4, NobodyMoves DEF RowRequestBuffered, RowRequestReplied, HandleOpLog, threadVars, bgVars
<1> QED  BY <1>1, <1>2, <1>3, <1>4 DEF Next, ServerNext

-----------------------------------------------------------------------------
(* The clocks of a process.                                                *)

\* What a thread had made at the end of its clocks, and what it has shared
\* since: rows out of its index are as they were then.
HistoryOf(t) ==
  /\ Len(closed[t]) = clock[t] /\ clock[t] <= MaxClock
  /\ \A r \in Rows :
       /\ \A j, k \in 0 .. clock[t] : j <= k => MadeBefore(t, r, j) <= MadeBefore(t, r, k)
       /\ MadeBefore(t, r, clock[t]) <= Shared(t, r)
       /\ r \notin threadIndex[t] => Shared(t, r) = MadeBefore(t, r, clock[t])

\* The process' vector clock follows its threads', but for a thread between
\* the two parts of TableGroup::Clock, and its minimum is exact.
ProcessClocks ==
  /\ \A t \in Threads :
       threadClocks[ClientOf[t]].vec[t] = IF pc[t] = "tick" THEN clock[t] - 1 ELSE clock[t]
  /\ \A c \in Clients :
       IF ThreadsOf(c) = {} THEN threadClocks[c].min = 0 ELSE IsMinimum(threadClocks[c])

\* An advance of the process' clock on its way to the worker: position 0 for a
\* thread that is about to report it, else a position in the thread's queue.
Advance(t, i) ==
  IF i = 0 THEN pc[t] = "clock"
  ELSE i \in DOMAIN appToBg[t] /\ appToBg[t][i].type = "BgClock"

\* Each is for a clock of its own, which the worker has not ended and every
\* thread of the process has: counted by number, whatever their order.
Numbered(num) ==
  /\ \A t \in Threads, i \in Nat : Advance(t, i) =>
       LET c == ClientOf[t]
       IN  num[t][i] \in Nat /\ clientClock[c] < num[t][i] /\ num[t][i] <= threadClocks[c].min
  /\ \A t, u \in Threads : \A i, j \in Nat :
       /\ Advance(t, i) /\ Advance(u, j)
       /\ ClientOf[t] = ClientOf[u] /\ num[t][i] = num[u][j]
       => t = u /\ i = j

AdvancesNumbered ==
  /\ \E num \in [Threads -> [Nat -> Nat]] : Numbered(num)
  /\ \A c \in Clients : clientClock[c] <= threadClocks[c].min

HistoryOK == \A t \in Threads : HistoryOf(t)

-----------------------------------------------------------------------------
(* The history of a thread, step by step.                                  *)

\* What a thread has made, ended and shared are numbers.
LEMMA HistoryTypes ==
  ASSUME ThreadsOK, HistoryOK, NEW t \in Threads, NEW r \in Rows
  PROVE  /\ clock[t] \in Nat /\ made[t][r] \in Nat /\ threadOplog[t][r] \in Nat
         /\ Shared(t, r) \in Nat
         /\ DOMAIN closed[t] = 1 .. clock[t] /\ closed[t] \in Seq([Rows -> Nat])
         /\ \A k \in 0 .. clock[t] : MadeBefore(t, r, k) \in Nat
<1>1. /\ clock[t] \in Nat /\ made[t][r] \in Nat /\ threadOplog[t][r] \in Nat
      /\ closed[t] \in Seq([Rows -> Nat])
  BY DEF ThreadsOK
<1> DEFINE q == closed[t]
<1>2. q \in Seq([Rows -> Nat]) /\ Len(q) = clock[t]
  BY <1>1 DEF HistoryOK, HistoryOf
<1> HIDE DEF q
<1>3. DOMAIN q = 1 .. clock[t] /\ \A k \in 1 .. clock[t] : q[k] \in [Rows -> Nat]
  BY <1>2, SeqParts
<1>4. \A k \in 0 .. clock[t] : MadeBefore(t, r, k) \in Nat
  <2> TAKE k \in 0 .. clock[t]
  <2>1. CASE k = 0
    BY <2>1 DEF MadeBefore
  <2>2. CASE k # 0
    <3>1. q[k] \in [Rows -> Nat]
      BY <1>1, <1>3, <2>2
    <3> QED  BY <2>2, <3>1 DEF MadeBefore, q
  <2> QED  BY <2>1, <2>2
<1>5. Shared(t, r) \in Nat
  <2>1. clock[t] \in 0 .. clock[t]
    BY <1>1
  <2>2. MadeBefore(t, r, clock[t]) <= Shared(t, r) /\ MadeBefore(t, r, clock[t]) \in Nat
    BY <1>4, <2>1 DEF HistoryOK, HistoryOf
  <2>3. Shared(t, r) \in Int
    BY <1>1 DEF Shared
  <2> QED  BY <2>2, <2>3
<1> QED  BY <1>1, <1>2, <1>3, <1>4, <1>5 DEF q

\* A step that leaves a thread's clock alone: it shares more, maybe, of rows
\* that are in its index afterwards.
LEMMA HistoryShares ==
  ASSUME ThreadsOK, HistoryOK, NEW t \in Threads,
         clock'[t] = clock[t], closed'[t] = closed[t],
         \A r \in Rows : /\ r \in threadIndex[t] => r \in threadIndex'[t]
                         /\ \/ Shared(t, r)' = Shared(t, r)
                            \/ Shared(t, r)' >= Shared(t, r) /\ r \in threadIndex'[t]
                         /\ Shared(t, r)' \in Int
  PROVE  HistoryOf(t)'
<1>1. \A r \in Rows, k \in Nat : MadeBefore(t, r, k)' = MadeBefore(t, r, k)
  BY DEF MadeBefore
<1>2. HistoryOf(t) /\ clock[t] \in Nat
  BY DEF HistoryOK, ThreadsOK
<1>3. ASSUME NEW r \in Rows
      PROVE  /\ \A j, k \in 0 .. clock[t] : j <= k => MadeBefore(t, r, j)' <= MadeBefore(t, r, k)'
             /\ MadeBefore(t, r, clock[t])' <= Shared(t, r)'
             /\ r \notin threadIndex'[t] => Shared(t, r)' = MadeBefore(t, r, clock[t])'
  <2>1. MadeBefore(t, r, clock[t])' = MadeBefore(t, r, clock[t])
    BY DEF MadeBefore
  <2>2. MadeBefore(t, r, clock[t]) \in Nat /\ Shared(t, r) \in Nat
    BY <1>2, HistoryTypes
  <2>3. /\ \A j, k \in 0 .. clock[t] : j <= k => MadeBefore(t, r, j) <= MadeBefore(t, r, k)
        /\ MadeBefore(t, r, clock[t]) <= Shared(t, r)
        /\ r \notin threadIndex[t] => Shared(t, r) = MadeBefore(t, r, clock[t])
    BY <1>2 DEF HistoryOf
  <2>4. \A j, k \in 0 .. clock[t] : j <= k => MadeBefore(t, r, j)' <= MadeBefore(t, r, k)'
    BY <1>1, <2>3
  <2> QED  BY <2>1, <2>2, <2>3, <2>4
<1> QED  BY <1>2, <1>3 DEF HistoryOf

\* What a step may do to clocks and updates: nothing is taken back.
Grows ==
  \A t \in Threads : /\ clock'[t] >= clock[t]
                     /\ \A r \in Rows : /\ Shared(t, r)' >= Shared(t, r)
                                        /\ \A k \in 0 .. clock[t] :
                                             MadeBefore(t, r, k)' = MadeBefore(t, r, k)

\* A step that is not about increments or clocks.
LEMMA HistoryStays ==
  ASSUME ThreadsOK, HistoryOK, UNCHANGED <<clock, threadIndex, threadOplog, made, closed>>
  PROVE  HistoryOK' /\ Grows
<1>1. \A t \in Threads, r \in Rows : Shared(t, r)' = Shared(t, r) /\ Shared(t, r) \in Nat
  BY HistoryTypes DEF Shared
<1>2. \A t \in Threads : clock'[t] = clock[t] /\ closed'[t] = closed[t] /\ clock[t] \in Nat
                         /\ threadIndex'[t] = threadIndex[t]
  BY DEF ThreadsOK
<1>3. ASSUME NEW t \in Threads PROVE HistoryOf(t)'
  <2>1. \A r \in Rows : /\ r \in threadIndex[t] => r \in threadIndex'[t]
                        /\ Shared(t, r)' = Shared(t, r)
                        /\ Shared(t, r)' \in Int
    BY <1>1, <1>2
  <2> QED  BY <1>2, <2>1, HistoryShares
<1>4. HistoryOK'
  BY <1>3 DEF HistoryOK
<1>5. Grows
  BY <1>1, <1>2 DEF Grows, MadeBefore
<1> QED  BY <1>4, <1>5

\* A step of one thread within a clock.
LEMMA HistoryInClock ==
  ASSUME ThreadsOK, HistoryOK, NEW t \in Threads, UNCHANGED <<clock, closed>>,
         \A u \in Threads \ {t} : /\ threadIndex'[u] = threadIndex[u]
                                  /\ made'[u] = made[u] /\ threadOplog'[u] = threadOplog[u],
         \A r \in Rows : /\ r \in threadIndex[t] => r \in threadIndex'[t]
                         /\ \/ Shared(t, r)' = Shared(t, r)
                            \/ Shared(t, r)' >= Shared(t, r) /\ r \in threadIndex'[t]
                         /\ Shared(t, r)' \in Int
  PROVE  HistoryOK' /\ Grows
<1>1. \A u \in Threads \ {t}, r \in Rows : Shared(u, r)' = Shared(u, r)
  BY DEF Shared
<1>2. \A u \in Threads, r \in Rows : Shared(u, r) \in Nat /\ clock[u] \in Nat
  BY HistoryTypes
<1>3. ASSUME NEW u \in Threads PROVE HistoryOf(u)'
  <2>1. CASE u = t
    BY <2>1, HistoryShares
  <2>2. CASE u # t
    <3>1. \A r \in Rows : /\ r \in threadIndex[u] => r \in threadIndex'[u]
                          /\ Shared(u, r)' = Shared(u, r)
                          /\ Shared(u, r)' \in Int
      BY <1>1, <1>2, <2>2
    <3> QED  BY <3>1, HistoryShares
  <2> QED  BY <2>1, <2>2
<1>4. HistoryOK'
  BY <1>3 DEF HistoryOK
<1>5. \A u \in Threads, r \in Rows : Shared(u, r)' >= Shared(u, r)
  BY <1>1, <1>2
<1>6. Grows
  <2>1. \A u \in Threads : clock[u] \in Nat
    BY DEF ThreadsOK
  <2> QED  BY <1>5, <2>1 DEF Grows, MadeBefore
<1> QED  BY <1>4, <1>6

\* The thread ends its clock: its oplog is flushed, so all it has made is
\* shared.
LEMMA HistoryOfClock ==
  ASSUME ThreadsOK, HistoryOK, NEW t \in Threads, Clock(t)
  PROVE  HistoryOK' /\ Grows
<1>0. PICK k0 \in Nat : clock[t] = k0
  BY DEF ThreadsOK
<1>1. /\ clock' = [clock EXCEPT ![t] = @ + 1] /\ closed' = [closed EXCEPT ![t] = Append(@, made[t])]
      /\ threadIndex' = [threadIndex EXCEPT ![t] = {}] /\ clock[t] < MaxClock
      /\ UNCHANGED <<made, threadOplog>> /\ \A r \in Rows : threadOplog[t][r] = 0
  BY DEF Clock, OpLogFlushed
<1>2. /\ clock'[t] = k0 + 1 /\ closed'[t] = Append(closed[t], made[t]) /\ threadIndex'[t] = {}
      /\ \A u \in Threads \ {t} : /\ clock'[u] = clock[u] /\ closed'[u] = closed[u]
                                  /\ threadIndex'[u] = threadIndex[u]
      /\ k0 < MaxClock /\ MaxClock \in Nat
  BY <1>0, <1>1, BoundsAssumption DEF ThreadsOK
<1>3. \A u \in Threads, r \in Rows : Shared(u, r)' = Shared(u, r) /\ Shared(u, r) \in Nat
  BY <1>1, HistoryTypes DEF Shared
<1>4. ASSUME NEW u \in Threads, u # t PROVE HistoryOf(u)'
  <2>1. \A r \in Rows : /\ r \in threadIndex[u] => r \in threadIndex'[u]
                        /\ Shared(u, r)' = Shared(u, r) /\ Shared(u, r)' \in Int
    BY <1>2, <1>3, <1>4
  <2> QED  BY <1>2, <1>4, <2>1, HistoryShares
<1> DEFINE q == closed[t]
           new == Append(q, made[t])
<1>5. q \in Seq([Rows -> Nat]) /\ Len(q) = k0
  BY <1>0 DEF ThreadsOK, HistoryOK, HistoryOf
<1>6. /\ Len(new) = k0 + 1 /\ new[k0 + 1] = made[t] /\ \A i \in 1 .. k0 : new[i] = q[i]
  <2>1. made[t] \in [Rows -> Nat]
    BY DEF ThreadsOK
  <2> HIDE DEF q
  <2> QED  BY <1>5, <2>1, AppendProperties
<1> HIDE DEF q, new
<1>7. \A r \in Rows, k \in 0 .. k0 : MadeBefore(t, r, k)' = MadeBefore(t, r, k)
  <2> SUFFICES ASSUME NEW r \in Rows, NEW k \in 0 .. k0
               PROVE  MadeBefore(t, r, k)' = MadeBefore(t, r, k)
    OBVIOUS
  <2>1. k = 0 \/ k \in 1 .. k0
    OBVIOUS
  <2> QED  BY <1>2, <1>6, <2>1 DEF MadeBefore, q, new
<1>8. \A r \in Rows : MadeBefore(t, r, k0 + 1)' = Shared(t, r)
  <2>1. ASSUME NEW r \in Rows PROVE MadeBefore(t, r, k0 + 1)' = made[t][r]
    <3>1. k0 + 1 # 0 /\ closed'[t][k0 + 1] = made[t]
      BY <1>2, <1>6 DEF new, q
    <3> QED  BY <3>1 DEF MadeBefore
  <2>2. ASSUME NEW r \in Rows PROVE Shared(t, r) = made[t][r]
    <3>1. threadOplog[t][r] = 0 /\ made[t][r] \in Nat
      BY <1>1, HistoryTypes
    <3> QED  BY <3>1 DEF Shared
  <2> QED  BY <2>1, <2>2
<1>9. HistoryOf(t)'
  <2>1. Len(closed'[t]) = clock'[t] /\ clock'[t] <= MaxClock
    BY <1>1, <1>2, <1>6 DEF q, new
  <2>2. ASSUME NEW r \in Rows
        PROVE  /\ \A j, k \in 0 .. k0 + 1 : j <= k => MadeBefore(t, r, j)' <= MadeBefore(t, r, k)'
               /\ MadeBefore(t, r, k0 + 1)' <= Shared(t, r)'
               /\ Shared(t, r)' = MadeBefore(t, r, k0 + 1)'
    <3>1. /\ \A j, k \in 0 .. k0 : j <= k => MadeBefore(t, r, j) <= MadeBefore(t, r, k)
          /\ MadeBefore(t, r, k0) <= Shared(t, r)
      BY <1>0 DEF HistoryOK, HistoryOf
    <3>2. Shared(t, r) \in Nat /\ \A k \in 0 .. k0 : MadeBefore(t, r, k) \in Nat
      BY <1>0, HistoryTypes
    <3>3. Shared(t, r)' = MadeBefore(t, r, k0 + 1)' /\ MadeBefore(t, r, k0 + 1)' = Shared(t, r)
      BY <1>3, <1>8
    <3>4. ASSUME NEW j \in 0 .. k0 + 1, NEW k \in 0 .. k0 + 1, j <= k
          PROVE  MadeBefore(t, r, j)' <= MadeBefore(t, r, k)'
      <4>1. CASE k \in 0 .. k0
        <5>1. j \in 0 .. k0
          BY <3>4, <4>1
        <5> QED  BY <1>7, <3>1, <3>4, <4>1, <5>1
      <4>2. CASE j = k0 + 1
        <5>1. k = k0 + 1
          BY <1>2, <3>4, <4>2
        <5> QED  BY <3>2, <3>3, <4>2, <5>1
      <4>3. CASE k = k0 + 1 /\ j \in 0 .. k0
        <5>1. MadeBefore(t, r, j) <= MadeBefore(t, r, k0) /\ k0 \in 0 .. k0
          BY <1>2, <3>1, <4>3
        <5>2. MadeBefore(t, r, j) <= Shared(t, r)
          BY <3>1, <3>2, <4>3, <5>1
        <5> QED  BY <1>7, <3>3, <4>3, <5>2
      <4> QED  BY <1>2, <4>1, <4>2, <4>3
    <3> QED  BY <3>2, <3>3, <3>4
  <2> QED  BY <1>2, <2>1, <2>2 DEF HistoryOf
<1>10. HistoryOK'
  BY <1>4, <1>9 DEF HistoryOK
<1>11. Grows
  <2> SUFFICES ASSUME NEW u \in Threads
               PROVE  /\ clock'[u] >= clock[u]
                      /\ \A r \in Rows : /\ Shared(u, r)' >= Shared(u, r)
                                         /\ \A k \in 0 .. clock[u] :
                                              MadeBefore(u, r, k)' = MadeBefore(u, r, k)
    BY DEF Grows
  <2>1. \A r \in Rows : Shared(u, r)' >= Shared(u, r)
    BY <1>3
  <2>2. clock[u] \in Nat
    BY DEF ThreadsOK
  <2>3. CASE u = t
    BY <1>0, <1>2, <1>7, <2>1, <2>3
  <2>4. CASE u # t
    BY <1>2, <2>1, <2>2, <2>4 DEF MadeBefore
  <2> QED  BY <2>3, <2>4
<1> QED  BY <1>10, <1>11

\* Every step keeps the history, and adds to it.
LEMMA StepKeepsHistory ==
  ASSUME TypeOK, HistoryOK, [Next]_vars
  PROVE  HistoryOK' /\ Grows
<1>0. ThreadsOK
  BY DEF TypeOK
<1>1. CASE UNCHANGED vars
  BY <1>0, <1>1, HistoryStays DEF vars, threadVars, tableVars, ghostVars
<1>2. ASSUME NEW t \in Threads, ThreadNext(t) PROVE HistoryOK' /\ Grows
  <2>1. ASSUME NEW r \in Rows, Inc(t, r) PROVE HistoryOK' /\ Grows
    <3>1. /\ made' = [made EXCEPT ![t][r] = @ + 1]
          /\ threadIndex' = [threadIndex EXCEPT ![t] = @ \cup {r}]
          /\ UNCHANGED <<clock, closed, threadOplog>>
      BY <2>1 DEF Inc, ShareUpdates
    <3>2. \A u \in Threads \ {t} : /\ threadIndex'[u] = threadIndex[u]
                                   /\ made'[u] = made[u] /\ threadOplog'[u] = threadOplog[u]
      BY <1>0, <3>1 DEF ThreadsOK
    <3>3. r \in threadIndex'[t] /\ \A x \in Rows : x \in threadIndex[t] => x \in threadIndex'[t]
      BY <1>0, <3>1 DEF ThreadsOK
    <3>4. \A x \in Rows : Shared(t, x) \in Nat /\ Shared(t, x)' = Shared(t, x) + (IF x = r THEN 1 ELSE 0)
      <4>1. ASSUME NEW x \in Rows
            PROVE  Shared(t, x) \in Nat /\ made[t][x] \in Nat /\ threadOplog[t][x] \in Nat
                   /\ made'[t][x] = made[t][x] + (IF x = r THEN 1 ELSE 0)
        <5>1. Shared(t, x) \in Nat /\ made[t][x] \in Nat /\ threadOplog[t][x] \in Nat
          BY <1>0, HistoryTypes
        <5>2. made \in [Threads -> [Rows -> Nat]]
          BY <1>0 DEF ThreadsOK
        <5> QED  BY <3>1, <5>1, <5>2
      <4> QED  BY <3>1, <4>1 DEF Shared
    <3> QED  BY <1>0, <3>1, <3>2, <3>3, <3>4, HistoryInClock
  <2>2. ASSUME NEW r \in Rows, ThreadInc(t, r) PROVE HistoryOK' /\ Grows
    <3>1. /\ made' = [made EXCEPT ![t][r] = @ + 1]
          /\ threadOplog' = [threadOplog EXCEPT ![t][r] = @ + 1]
          /\ UNCHANGED <<clock, closed, threadIndex>>
      BY <2>2 DEF ThreadInc
    <3>2. \A u \in Threads \ {t} : /\ threadIndex'[u] = threadIndex[u]
                                   /\ made'[u] = made[u] /\ threadOplog'[u] = threadOplog[u]
      BY <1>0, <3>1 DEF ThreadsOK
    <3>3. \A x \in Rows : Shared(t, x) \in Nat /\ Shared(t, x)' = Shared(t, x)
      <4>1. made \in [Threads -> [Rows -> Nat]] /\ threadOplog \in [Threads -> [Rows -> Nat]]
        BY <1>0 DEF ThreadsOK
      <4> QED  BY <1>0, <3>1, <4>1, HistoryTypes DEF Shared
    <3> QED  BY <1>0, <3>1, <3>2, <3>3, HistoryInClock
  <2>3. ASSUME NEW r \in Rows, FlushRow(t, r) PROVE HistoryOK' /\ Grows
    <3>1. /\ threadOplog' = [threadOplog EXCEPT ![t][r] = 0]
          /\ threadIndex' = [threadIndex EXCEPT ![t] = @ \cup {r}]
          /\ UNCHANGED <<clock, closed, made>>
      BY <2>3 DEF FlushRow, ShareUpdates, ghostVars
    <3>2. \A u \in Threads \ {t} : /\ threadIndex'[u] = threadIndex[u]
                                   /\ made'[u] = made[u] /\ threadOplog'[u] = threadOplog[u]
      BY <1>0, <3>1 DEF ThreadsOK
    <3>3. r \in threadIndex'[t] /\ \A x \in Rows : x \in threadIndex[t] => x \in threadIndex'[t]
      BY <1>0, <3>1 DEF ThreadsOK
    <3>4. \A x \in Rows : /\ Shared(t, x) \in Nat
                          /\ Shared(t, x)' = Shared(t, x) + (IF x = r THEN threadOplog[t][r] ELSE 0)
                          /\ threadOplog[t][x] \in Nat
      <4>1. made \in [Threads -> [Rows -> Nat]] /\ threadOplog \in [Threads -> [Rows -> Nat]]
        BY <1>0 DEF ThreadsOK
      <4> QED  BY <1>0, <3>1, <4>1, HistoryTypes DEF Shared
    <3>5. \A x \in Rows : /\ \/ Shared(t, x)' = Shared(t, x)
                             \/ Shared(t, x)' >= Shared(t, x) /\ x \in threadIndex'[t]
                          /\ Shared(t, x)' \in Int
      <4> SUFFICES ASSUME NEW x \in Rows
                   PROVE  /\ \/ Shared(t, x)' = Shared(t, x)
                             \/ Shared(t, x)' >= Shared(t, x) /\ x \in threadIndex'[t]
                          /\ Shared(t, x)' \in Int
        OBVIOUS
      <4> QED  BY <3>3, <3>4
    <3> QED  BY <1>0, <3>1, <3>2, <3>3, <3>5, HistoryInClock
  <2>4. CASE Clock(t)
    BY <1>0, <2>4, HistoryOfClock
  <2>5. CASE \E r \in Rows : GetCached(t, r) \/ GetRequest(t, r) \/ ThreadGetCached(t, r)
                             \/ ThreadGetRequest(t, r)
    BY <1>0, <2>5, HistoryStays
       DEF GetCached, GetRequest, ThreadGetCached, ThreadGetRequest, RequestAndWait, threadVars,
           tableVars, ghostVars
  <2>6. CASE GetReturn(t) \/ ThreadGetReturn(t) \/ GetAgain(t) \/ GetAbort(t)
    BY <1>0, <2>6, HistoryStays
       DEF GetReturn, ThreadGetReturn, GetAgain, GetAbort, threadVars, tableVars, ghostVars
  <2>7. CASE FlushThreadCache(t) \/ TickThread(t) \/ TellBg(t)
    BY <1>0, <2>7, HistoryStays DEF FlushThreadCache, TickThread, TellBg, tableVars, ghostVars
  <2> QED  BY <1>2, <2>1, <2>2, <2>3, <2>4, <2>5, <2>6, <2>7 DEF ThreadNext
<1>3. ASSUME NEW c \in Clients, BgNext(c) PROVE HistoryOK' /\ Grows
  <2>1. UNCHANGED <<clock, threadIndex, threadOplog, made, closed>>
    BY <1>3 DEF BgNext, RowRequestAnswered, RowRequestForwarded, HandleBgClock, HandleBgSendOpLog,
                HandleReply, HandleReplyAbort, threadVars, tableVars, ghostVars
  <2> QED  BY <1>0, <2>1, HistoryStays
<1>4. ASSUME NEW s \in Servers, ServerNext(s) PROVE HistoryOK' /\ Grows
  <2>1. UNCHANGED <<clock, threadIndex, threadOplog, made, closed>>
    BY <1>4 DEF ServerNext, RowRequestBuffered, RowRequestReplied, HandleOpLog, threadVars,
                tableVars, ghostVars
  <2> QED  BY <1>0, <2>1, HistoryStays
<1> QED  BY <1>1, <1>2, <1>3, <1>4 DEF Next

-----------------------------------------------------------------------------
(* The clocks of a process, step by step.                                  *)

\* A process' vector clock and a thread's clock.
LEMMA ClockTypesOf ==
  ASSUME ClocksTyped, NEW t \in Threads
  PROVE  /\ ClientOf[t] \in Clients /\ t \in ThreadsOf(ClientOf[t])
         /\ threadClocks[ClientOf[t]] \in VectorClocks(ThreadsOf(ClientOf[t]))
         /\ threadClocks[ClientOf[t]].min \in Nat
         /\ clock[t] \in Nat /\ clientClock[ClientOf[t]] \in Nat
BY ThreadsAssumption DEF ClocksTyped, ThreadsOf, VectorClocks

\* A step that moves no clock.
LEMMA ProcessClocksStay ==
  ASSUME ProcessClocks, UNCHANGED <<clock, threadClocks>>,
         \A u \in Threads : pc'[u] = "tick" <=> pc[u] = "tick"
  PROVE  ProcessClocks'
BY DEF ProcessClocks, IsMinimum

\* The first part of Clock moves the thread ahead of the process.
LEMMA ProcessClocksOfClock ==
  ASSUME ClocksTyped, ProcessClocks, NEW t \in Threads, Clock(t)
  PROVE  ProcessClocks'
<1>1. /\ UNCHANGED threadClocks /\ pc[t] \in {"run", "flush"}
      /\ clock' = [clock EXCEPT ![t] = @ + 1] /\ pc' = [pc EXCEPT ![t] = "tick"]
  BY DEF Clock, Flushing
<1>2. clock'[t] = clock[t] + 1 /\ pc'[t] = "tick" /\ clock[t] \in Nat
      /\ \A u \in Threads \ {t} : clock'[u] = clock[u] /\ pc'[u] = pc[u]
  BY <1>1 DEF ClocksTyped
<1>3. \A u \in Threads :
        threadClocks[ClientOf[u]].vec[u] = IF pc'[u] = "tick" THEN clock'[u] - 1 ELSE clock'[u]
  BY <1>1, <1>2 DEF ProcessClocks
<1> QED  BY <1>1, <1>3 DEF ProcessClocks, IsMinimum

\* The second part makes the process follow.
LEMMA ProcessClocksOfTick ==
  ASSUME ClocksTyped, ProcessClocks, NEW t \in Threads, TickThread(t)
  PROVE  /\ ProcessClocks'
         /\ threadClocks'[ClientOf[t]].min >= threadClocks[ClientOf[t]].min
         /\ \A c \in Clients \ {ClientOf[t]} : threadClocks'[c] = threadClocks[c]
         /\ pc'[t] = "clock" => threadClocks'[ClientOf[t]].min = threadClocks[ClientOf[t]].min + 1
<1>0. PICK c \in Clients : ClientOf[t] = c
  BY ClockTypesOf
<1> DEFINE vc == threadClocks[c]
           new == Tick(vc, t)
<1>1. /\ pc[t] = "tick" /\ UNCHANGED clock
      /\ threadClocks' = [threadClocks EXCEPT ![c] = new]
      /\ pc' = [pc EXCEPT ![t] = IF TickResult(vc, t) # 0 THEN "clock"
                                 ELSE IF Aggressive THEN "send" ELSE "run"]
  BY <1>0 DEF TickThread
<1>2. /\ vc \in VectorClocks(ThreadsOf(c)) /\ t \in ThreadsOf(c) /\ clock[t] \in Nat
      /\ DOMAIN threadClocks = Clients
  BY <1>0, ClockTypesOf DEF ClocksTyped
<1>3. IsMinimum(vc) /\ vc.vec[t] = clock[t] - 1
  BY <1>0, <1>1, <1>2 DEF ProcessClocks
<1>4. /\ IsMinimum(new) /\ new.min \in {vc.min, vc.min + 1} /\ vc.min \in Nat
      /\ TickResult(vc, t) = IF new.min # vc.min THEN new.min ELSE 0
  <2> HIDE DEF vc
  <2> QED  BY <1>2, <1>3, TickKeepsMinimum DEF VectorClocks
<1>5. \A u \in ThreadsOf(c) : new.vec[u] = IF u = t THEN vc.vec[t] + 1 ELSE vc.vec[u]
  <2> HIDE DEF vc
  <2> QED  BY <1>2 DEF Tick, VectorClocks
<1> HIDE DEF new
<1>6. threadClocks'[c] = new /\ \A d \in Clients \ {c} : threadClocks'[d] = threadClocks[d]
  BY <1>1, <1>2
<1>7. pc'[t] # "tick" /\ (pc'[t] = "clock" => TickResult(vc, t) # 0)
      /\ \A u \in Threads \ {t} : pc'[u] = pc[u]
  BY <1>1 DEF ClocksTyped
<1>8. ASSUME NEW u \in Threads
      PROVE  threadClocks'[ClientOf[u]].vec[u] = IF pc'[u] = "tick" THEN clock'[u] - 1 ELSE clock'[u]
  <2>1. ClientOf[u] \in Clients
        /\ threadClocks[ClientOf[u]].vec[u] = IF pc[u] = "tick" THEN clock[u] - 1 ELSE clock[u]
    BY ThreadsAssumption DEF ProcessClocks
  <2>2. CASE u = t
    BY <1>0, <1>1, <1>2, <1>3, <1>5, <1>6, <1>7, <2>2
  <2>3. CASE u # t /\ ClientOf[u] = c
    <3>1. u \in ThreadsOf(c)
      BY <2>3 DEF ThreadsOf
    <3> QED  BY <1>1, <1>5, <1>6, <1>7, <2>1, <2>3, <3>1
  <2>4. CASE ClientOf[u] # c
    BY <1>0, <1>1, <1>6, <1>7, <2>1, <2>4
  <2> QED  BY <2>2, <2>3, <2>4
<1>9. \A d \in Clients :
        IF ThreadsOf(d) = {} THEN threadClocks'[d].min = 0 ELSE IsMinimum(threadClocks'[d])
  BY <1>2, <1>4, <1>6 DEF ProcessClocks
<1>10. ProcessClocks'
  BY <1>8, <1>9 DEF ProcessClocks, IsMinimum, ThreadsOf
<1> QED  BY <1>0, <1>4, <1>6, <1>7, <1>10

-----------------------------------------------------------------------------
(* The advances of the process' clock.                                     *)

\* Numbered, for one advance.
LEMMA NumberFits ==
  ASSUME NEW num \in [Threads -> [Nat -> Nat]], Numbered(num), NEW t \in Threads, NEW i \in Nat, Advance(t, i)
  PROVE  /\ num[t][i] \in Nat /\ clientClock[ClientOf[t]] < num[t][i]
         /\ num[t][i] <= threadClocks[ClientOf[t]].min
BY DEF Numbered

\* Numbered, for two advances of a process.
LEMMA NumbersDiffer ==
  ASSUME NEW num \in [Threads -> [Nat -> Nat]], Numbered(num), NEW t \in Threads, NEW u \in Threads, NEW i \in Nat, NEW j \in Nat,
         Advance(t, i), Advance(u, j), ClientOf[t] = ClientOf[u], num[t][i] = num[u][j]
  PROVE  t = u /\ i = j
BY DEF Numbered

\* Numbered, for two advances of a thread.
LEMMA NumbersOfThreadDiffer ==
  ASSUME NEW num \in [Threads -> [Nat -> Nat]], Numbered(num), NEW t \in Threads, NEW i \in Nat, NEW j \in Nat,
         Advance(t, i), Advance(t, j), num[t][i] = num[t][j]
  PROVE  i = j
BY NumbersDiffer

\* Nothing new is on its way.
LEMMA AdvancesStay ==
  ASSUME ClocksTyped, AdvancesNumbered, UNCHANGED clientClock,
         \A c \in Clients : threadClocks'[c].min = threadClocks[c].min,
         \A u \in Threads, i \in Nat : Advance(u, i)' => Advance(u, i)
  PROVE  AdvancesNumbered'
<1>1. PICK num \in [Threads -> [Nat -> Nat]] : Numbered(num)
  BY DEF AdvancesNumbered
<1>2. \A u \in Threads : threadClocks'[ClientOf[u]].min = threadClocks[ClientOf[u]].min
  BY ClockTypesOf
<1>3. \A u \in Threads, i \in Nat : Advance(u, i)' =>
        /\ num[u][i] \in Nat /\ clientClock'[ClientOf[u]] < num[u][i]
        /\ num[u][i] <= threadClocks'[ClientOf[u]].min
  BY <1>1, <1>2 DEF Numbered
<1>4. \A u, v \in Threads : \A i, j \in Nat :
        /\ Advance(u, i)' /\ Advance(v, j)'
        /\ ClientOf[u] = ClientOf[v] /\ num[u][i] = num[v][j]
        => u = v /\ i = j
  BY <1>1 DEF Numbered
<1>5. Numbered(num)'
  BY <1>3, <1>4 DEF Numbered
<1>6. \A c \in Clients : clientClock'[c] <= threadClocks'[c].min
  BY DEF AdvancesNumbered
<1> QED  BY <1>5, <1>6 DEF AdvancesNumbered

\* The first message of a queue goes; the numbers of the rest move with them.
Shifted(num, t) ==
  [u \in Threads |-> [i \in Nat |-> IF u = t /\ i # 0 THEN num[u][i + 1] ELSE num[u][i]]]

\* Where position i of a queue was when the queue of t had its first message.
Was(t, u, i) == IF u = t /\ i # 0 THEN i + 1 ELSE i

\* Advances move forward in the queue of a thread when a message leaves it.
LEMMA ShiftedAdvances ==
  ASSUME ClocksTyped, NEW c \in Clients, NEW t \in Threads, NEW type, NextFromApp(c, t, type),
         \A u \in Threads : pc'[u] = "clock" => pc[u] = "clock",
         NEW num \in [Threads -> [Nat -> Nat]]
  PROVE  /\ Shifted(num, t) \in [Threads -> [Nat -> Nat]]
         /\ \A u \in Threads, i \in Nat : Advance(u, i)' =>
              /\ Advance(u, Was(t, u, i)) /\ Was(t, u, i) \in Nat /\ ~(u = t /\ Was(t, u, i) = 1)
              /\ Shifted(num, t)[u][i] = num[u][Was(t, u, i)]
<1>1. /\ \A u \in Threads \ {t} : appToBg'[u] = appToBg[u]
      /\ \A i \in DOMAIN appToBg'[t] : /\ i \in Nat \ {0} /\ i + 1 \in DOMAIN appToBg[t] /\ i + 1 # 1
                                       /\ appToBg'[t][i] = appToBg[t][i + 1]
  BY QueueShrinks
<1>2. Shifted(num, t) \in [Threads -> [Nat -> Nat]]
  BY DEF Shifted
<1>3. ASSUME NEW u \in Threads, NEW i \in Nat, Advance(u, i)'
      PROVE  LET k == IF u = t /\ i # 0 THEN i + 1 ELSE i
             IN  Advance(u, k) /\ k \in Nat /\ ~(u = t /\ k = 1) /\ Shifted(num, t)[u][i] = num[u][k]
  <2>1. CASE u = t /\ i # 0
    <3>1. i \in DOMAIN appToBg'[t] /\ appToBg'[t][i].type = "BgClock"
      BY <1>3, <2>1 DEF Advance
    <3> QED  BY <1>1, <2>1, <3>1 DEF Advance, Shifted
  <2>2. CASE u = t /\ i = 0
    BY <1>3, <2>2 DEF Advance, Shifted
  <2>3. CASE u # t
    BY <1>1, <1>3, <2>3 DEF Advance, Shifted
  <2> QED  BY <2>1, <2>2, <2>3
<1> QED  BY <1>2, <1>3 DEF Was

\* No two of them come from the same place.
LEMMA WasInjective ==
  ASSUME NEW t, NEW u, NEW i \in Nat, NEW j \in Nat, Was(t, u, i) = Was(t, u, j)
  PROVE  i = j
BY DEF Was

\* A message that is no advance is taken from a queue.
LEMMA AdvancesMove ==
  ASSUME ClocksTyped, AdvancesNumbered, NEW c \in Clients, NEW t \in Threads, NEW type,
         NextFromApp(c, t, type), UNCHANGED <<clientClock, threadClocks>>,
         \A u \in Threads : pc'[u] = "clock" => pc[u] = "clock"
  PROVE  AdvancesNumbered'
<1>1. PICK num \in [Threads -> [Nat -> Nat]] : Numbered(num)
  BY DEF AdvancesNumbered
<1>2. PICK new \in [Threads -> [Nat -> Nat]] :
        \A u \in Threads, i \in Nat : Advance(u, i)' =>
          /\ Advance(u, Was(t, u, i)) /\ Was(t, u, i) \in Nat
          /\ new[u][i] = num[u][Was(t, u, i)]
  <2> DEFINE x == Shifted(num, t)
  <2>1. /\ x \in [Threads -> [Nat -> Nat]]
        /\ \A u \in Threads, i \in Nat : Advance(u, i)' =>
             /\ Advance(u, Was(t, u, i)) /\ Was(t, u, i) \in Nat /\ ~(u = t /\ Was(t, u, i) = 1)
             /\ x[u][i] = num[u][Was(t, u, i)]
    BY ShiftedAdvances
  <2> HIDE DEF x
  <2> QED  BY <2>1
<1>3. ASSUME NEW u \in Threads, NEW i \in Nat, Advance(u, i)'
      PROVE  /\ new[u][i] \in Nat /\ clientClock[ClientOf[u]] < new[u][i]
             /\ new[u][i] <= threadClocks[ClientOf[u]].min
  <2>1. PICK k \in Nat : k = Was(t, u, i) /\ Advance(u, k) /\ new[u][i] = num[u][k]
    BY <1>2, <1>3
  <2>2. /\ num[u][k] \in Nat /\ clientClock[ClientOf[u]] < num[u][k]
        /\ num[u][k] <= threadClocks[ClientOf[u]].min
    BY <1>1, <2>1, NumberFits
  <2> QED  BY <2>1, <2>2
<1>4. ASSUME NEW u \in Threads, NEW v \in Threads, NEW i \in Nat, NEW j \in Nat,
             Advance(u, i)', Advance(v, j)', ClientOf[u] = ClientOf[v], new[u][i] = new[v][j]
      PROVE  u = v /\ i = j
  <2>1. PICK k \in Nat : k = Was(t, u, i) /\ Advance(u, k) /\ new[u][i] = num[u][k]
    BY <1>2, <1>4
  <2>2. PICK l \in Nat : l = Was(t, v, j) /\ Advance(v, l) /\ new[v][j] = num[v][l]
    BY <1>2, <1>4
  <2>3. Numbered(num) /\ Advance(u, k) /\ Advance(v, l) /\ num[u][k] = num[v][l]
    BY <1>1, <1>4, <2>1, <2>2
  <2>4. u = v
    BY <1>4, <2>3, NumbersDiffer
  <2>5. Advance(u, l) /\ num[u][k] = num[u][l]
    BY <2>3, <2>4
  <2>6. k = l
    BY <2>3, <2>5, NumbersOfThreadDiffer
  <2> QED  BY <2>1, <2>2, <2>4, <2>6, WasInjective
<1>5. Numbered(new)'
  BY <1>3, <1>4 DEF Numbered
<1>6. \A d \in Clients : clientClock'[d] <= threadClocks'[d].min
  BY DEF AdvancesNumbered
<1> QED  BY <1>5, <1>6 DEF AdvancesNumbered

\* The process' clock advances, and the thread is to report it.
LEMMA AdvancesOfTick ==
  ASSUME ClocksTyped, ProcessClocks, AdvancesNumbered, NEW t \in Threads, TickThread(t)
  PROVE  AdvancesNumbered'
<1>0. PICK c \in Clients : ClientOf[t] = c
  BY ClockTypesOf
<1>1. /\ threadClocks'[c].min >= threadClocks[c].min
      /\ \A d \in Clients \ {c} : threadClocks'[d] = threadClocks[d]
      /\ pc'[t] = "clock" => threadClocks'[c].min = threadClocks[c].min + 1
  BY <1>0, ProcessClocksOfTick
<1>2. pc[t] = "tick" /\ UNCHANGED <<clientClock, appToBg>> /\ \A u \in Threads \ {t} : pc'[u] = pc[u]
  BY DEF TickThread, bgVars, channelVars, ClocksTyped
<1>3. /\ \A u \in Threads : ClientOf[u] \in Clients /\ clientClock[ClientOf[u]] \in Nat
                            /\ threadClocks[ClientOf[u]].min \in Nat
      /\ \A d \in Clients : threadClocks[d].min \in Nat /\ clientClock[d] \in Nat
  BY ClockTypesOf DEF ClocksTyped, VectorClocks
<1>4. PICK num \in [Threads -> [Nat -> Nat]] : Numbered(num)
  BY DEF AdvancesNumbered
<1>5. PICK k \in Nat : k = threadClocks[c].min + 1
  BY <1>3
<1>6. PICK min \in [Clients -> Nat] : \A d \in Clients : min[d] = threadClocks[d].min
  <2>1. [d \in Clients |-> threadClocks[d].min] \in [Clients -> Nat]
    BY <1>3
  <2> QED  BY <2>1
<1> DEFINE new == [num EXCEPT ![t] = [@ EXCEPT ![0] = k]]
<1>7. /\ new \in [Threads -> [Nat -> Nat]] /\ new[t][0] = k
      /\ \A u \in Threads, i \in Nat : ~(u = t /\ i = 0) => new[u][i] = num[u][i]
  OBVIOUS
<1> HIDE DEF new
<1>8. \A u \in Threads, i \in Nat : Advance(u, i)' =>
        \/ u = t /\ i = 0 /\ pc'[t] = "clock"
        \/ ~(u = t /\ i = 0) /\ Advance(u, i)
  BY <1>2 DEF Advance
<1>9. clientClock[c] <= min[c] /\ k = min[c] + 1
  BY <1>5, <1>6 DEF AdvancesNumbered
<1>10. \A u \in Threads, i \in Nat : Advance(u, i) =>
         clientClock[ClientOf[u]] < num[u][i] /\ num[u][i] <= min[ClientOf[u]]
  BY <1>3, <1>4, <1>6 DEF Numbered
<1>11. ASSUME NEW u \in Threads, NEW i \in Nat, Advance(u, i)'
       PROVE  /\ clientClock[ClientOf[u]] < new[u][i]
              /\ new[u][i] <= threadClocks'[ClientOf[u]].min
  <2>1. CASE u = t /\ i = 0 /\ pc'[t] = "clock"
    BY <1>0, <1>1, <1>3, <1>5, <1>6, <1>7, <1>9, <2>1
  <2>2. CASE ~(u = t /\ i = 0) /\ Advance(u, i)
    <3>1. threadClocks'[ClientOf[u]].min >= min[ClientOf[u]]
      BY <1>1, <1>3, <1>6
    <3>2. CASE ClientOf[u] = c
      <4>1. threadClocks'[c].min \in Nat
        <5>1. threadClocks' = [threadClocks EXCEPT ![c] = Tick(@, t)]
          BY <1>0 DEF TickThread
        <5>2. threadClocks'[c].min \in {threadClocks[c].min, threadClocks[c].min + 1}
          BY <5>1 DEF Tick, ClocksTyped
        <5> QED  BY <1>3, <5>2
      <4> QED  BY <1>3, <1>7, <1>10, <2>2, <3>1, <3>2, <4>1
    <3>3. CASE ClientOf[u] # c
      BY <1>1, <1>3, <1>6, <1>7, <1>10, <2>2, <3>3
    <3> QED  BY <3>2, <3>3
  <2> QED  BY <1>8, <1>11, <2>1, <2>2
<1>12. ASSUME NEW u \in Threads, NEW v \in Threads, NEW i \in Nat, NEW j \in Nat,
              Advance(u, i)', Advance(v, j)', ClientOf[u] = ClientOf[v], new[u][i] = new[v][j]
       PROVE  u = v /\ i = j
  <2>1. ASSUME NEW x \in Threads, NEW l \in Nat, Advance(x, l), ClientOf[x] = c PROVE num[x][l] < k
    BY <1>9, <1>10, <2>1
  <2>2. CASE u = t /\ i = 0
    BY <1>0, <1>7, <1>8, <1>12, <2>1, <2>2
  <2>3. CASE v = t /\ j = 0
    BY <1>0, <1>7, <1>8, <1>12, <2>1, <2>3
  <2>4. CASE ~(u = t /\ i = 0) /\ ~(v = t /\ j = 0)
    <3>1. /\ Advance(u, i) /\ Advance(v, j)
          /\ new[u][i] = num[u][i] /\ new[v][j] = num[v][j]
      BY <1>7, <1>8, <1>12, <2>4
    <3>2. Numbered(num) /\ ClientOf[u] = ClientOf[v] /\ num[u][i] = num[v][j]
      BY <1>4, <1>12, <3>1
    <3> QED  BY <3>1, <3>2, NumbersDiffer
  <2> QED  BY <2>2, <2>3, <2>4
<1>13. Numbered(new)'
  BY ZenonT(40), <1>2, <1>7, <1>11, <1>12 DEF Numbered
<1>14. ASSUME NEW d \in Clients PROVE clientClock'[d] <= threadClocks'[d].min
  <2>1. threadClocks'[d].min >= threadClocks[d].min /\ threadClocks'[d].min \in Int
    <3>1. CASE d = c
      <4>1. threadClocks' = [threadClocks EXCEPT ![c] = Tick(@, t)]
        BY <1>0 DEF TickThread
      <4>2. threadClocks'[c].min \in {threadClocks[c].min, threadClocks[c].min + 1}
        BY <4>1 DEF Tick, ClocksTyped
      <4> QED  BY <1>3, <3>1, <4>2
    <3>2. CASE d # c
      BY <1>1, <1>3, <3>2
    <3> QED  BY <3>1, <3>2
  <2> QED  BY <1>2, <1>3, <2>1 DEF AdvancesNumbered
<1> QED  BY <1>7, <1>13, <1>14 DEF AdvancesNumbered

\* A queue with a message more.
LEMMA QueueOfSend ==
  ASSUME ClocksTyped, NEW t \in Threads, NEW m, SendToBg(t, m)
  PROVE  /\ \A u \in Threads \ {t} : appToBg'[u] = appToBg[u]
         /\ Len(appToBg[t]) \in Nat /\ DOMAIN appToBg[t] = 1 .. Len(appToBg[t])
         /\ DOMAIN appToBg'[t] = 1 .. Len(appToBg[t]) + 1
         /\ \A i \in 1 .. Len(appToBg[t]) : appToBg'[t][i] = appToBg[t][i]
         /\ appToBg'[t][Len(appToBg[t]) + 1] = m
<1> DEFINE q == appToBg[t]
<1>1. IsSeq(q)
  BY DEF ClocksTyped
<1>2. /\ Len(q) \in Nat /\ DOMAIN q = 1 .. Len(q) /\ DOMAIN Append(q, m) = 1 .. Len(q) + 1
      /\ \A i \in 1 .. Len(q) : Append(q, m)[i] = q[i]
      /\ Append(q, m)[Len(q) + 1] = m
  <2> HIDE DEF q
  <2> QED  BY <1>1, AppendToSeq
<1>3. appToBg'[t] = Append(q, m) /\ \A u \in Threads \ {t} : appToBg'[u] = appToBg[u]
  BY DEF SendToBg, ClocksTyped
<1> QED  BY <1>2, <1>3

\* A message that is no advance joins a queue.
LEMMA AdvancesJoined ==
  ASSUME ClocksTyped, AdvancesNumbered, NEW t \in Threads, NEW m, m.type # "BgClock", SendToBg(t, m),
         UNCHANGED <<clientClock, threadClocks>>,
         \A u \in Threads : pc'[u] = "clock" => pc[u] = "clock"
  PROVE  AdvancesNumbered'
<1>1. ASSUME NEW u \in Threads, NEW i \in Nat, Advance(u, i)' PROVE Advance(u, i)
  <2>1. CASE i = 0 \/ u # t
    BY <1>1, <2>1, QueueOfSend DEF Advance
  <2>2. CASE i # 0 /\ u = t
    <3>1. i \in DOMAIN appToBg'[t] /\ appToBg'[t][i].type = "BgClock"
      BY <1>1, <2>2 DEF Advance
    <3>2. i # Len(appToBg[t]) + 1 /\ i \in 1 .. Len(appToBg[t]) + 1 /\ Len(appToBg[t]) \in Nat
      BY <3>1, QueueOfSend
    <3>3. i \in 1 .. Len(appToBg[t])
      BY <3>2
    <3> QED  BY <2>2, <3>1, <3>3, QueueOfSend DEF Advance
  <2> QED  BY <2>1, <2>2
<1> QED  BY <1>1, AdvancesStay

\* The thread reports an advance: its number goes with the message.
LEMMA AdvancesOfTell ==
  ASSUME ClocksTyped, AdvancesNumbered, NEW t \in Threads, TellBg(t)
  PROVE  AdvancesNumbered'
<1> DEFINE m == [type |-> IF pc[t] = "clock" THEN "BgClock" ELSE "BgSendOpLog"]
<1>1. /\ SendToBg(t, m) /\ pc' = [pc EXCEPT ![t] = "run"]
      /\ UNCHANGED <<clientClock, threadClocks>>
  BY DEF TellBg, clientVars, bgVars
<1>2. pc'[t] = "run" /\ \A u \in Threads \ {t} : pc'[u] = pc[u]
  BY <1>1 DEF ClocksTyped
<1>3. CASE pc[t] # "clock"
  <2>1. m.type # "BgClock"
    BY <1>3
  <2> HIDE DEF m
  <2>2. \A u \in Threads : pc'[u] = "clock" => pc[u] = "clock"
    BY <1>2
  <2> QED  BY <1>1, <2>1, <2>2, AdvancesJoined
<1>4. CASE pc[t] = "clock"
  <2>1. PICK num \in [Threads -> [Nat -> Nat]] : Numbered(num)
    BY DEF AdvancesNumbered
  <2>2. PICK n \in Nat : n = Len(appToBg[t]) + 1 /\ n # 0
    BY <1>1, QueueOfSend
  <2>3. PICK k \in Nat : k = num[t][0]
    OBVIOUS
  <2>4. PICK new \in [Threads -> [Nat -> Nat]] :
          /\ new[t][n] = k
          /\ \A u \in Threads, i \in Nat : ~(u = t /\ i = n) => new[u][i] = num[u][i]
    <3> DEFINE x == [num EXCEPT ![t] = [@ EXCEPT ![n] = k]]
    <3>1. /\ x \in [Threads -> [Nat -> Nat]] /\ x[t][n] = k
          /\ \A u \in Threads, i \in Nat : ~(u = t /\ i = n) => x[u][i] = num[u][i]
      OBVIOUS
    <3> HIDE DEF x
    <3> QED  BY <3>1
  <2>5. Advance(t, 0)
    BY <1>4 DEF Advance
  <2>6. ASSUME NEW u \in Threads, NEW i \in Nat, Advance(u, i)'
        PROVE  \/ u = t /\ i = n
               \/ ~(u = t /\ i = n) /\ ~(u = t /\ i = 0) /\ Advance(u, i)
    <3>1. CASE u # t
      BY ZenonT(40), <1>1, <1>2, <2>6, <3>1, QueueOfSend DEF Advance
    <3>2. CASE u = t
      <4>1. i # 0 /\ i \in DOMAIN appToBg'[t] /\ appToBg'[t][i].type = "BgClock"
        BY <1>2, <2>6, <3>2 DEF Advance
      <4>2. i \in 1 .. n /\ Len(appToBg[t]) \in Nat
        BY <1>1, <2>2, <4>1, QueueOfSend
      <4>3. CASE i # n
        <5>1. i \in 1 .. Len(appToBg[t])
          <6>1. PICK len \in Nat : len = Len(appToBg[t])
            BY <4>2
          <6> QED  BY <2>2, <4>2, <4>3, <6>1
        <5> QED  BY <1>1, <3>2, <4>1, <4>3, <5>1, QueueOfSend DEF Advance
      <4> QED  BY <3>2, <4>3
    <3> QED  BY <3>1, <3>2
  <2>7. ASSUME NEW u \in Threads, NEW i \in Nat, Advance(u, i)'
        PROVE  /\ clientClock[ClientOf[u]] < new[u][i]
               /\ new[u][i] <= threadClocks[ClientOf[u]].min
    <3>1. CASE u = t /\ i = n
      <4>1. clientClock[ClientOf[t]] < num[t][0] /\ num[t][0] <= threadClocks[ClientOf[t]].min
        BY <2>1, <2>5, NumberFits
      <4> QED  BY <2>3, <2>4, <3>1, <4>1
    <3>2. CASE ~(u = t /\ i = n)
      <4>1. Advance(u, i)
        BY <2>6, <2>7, <3>2
      <4> QED  BY <2>1, <2>4, <3>2, <4>1, NumberFits
    <3> QED  BY <3>1, <3>2
  <2>8. ASSUME NEW u \in Threads, NEW i \in Nat, Advance(u, i)', ~(u = t /\ i = n)
        PROVE  ~(ClientOf[u] = ClientOf[t] /\ num[u][i] = k)
    <3>1. Advance(u, i) /\ ~(u = t /\ i = 0)
      BY <2>6, <2>8
    <3>2. SUFFICES ASSUME ClientOf[u] = ClientOf[t], num[u][i] = num[t][0] PROVE FALSE
      BY <2>3
    <3>3. u = t
      BY <2>1, <2>5, <3>1, <3>2, NumbersDiffer
    <3>4. i = 0
      BY <2>1, <2>5, <3>1, <3>2, <3>3, NumbersOfThreadDiffer
    <3> QED  BY <3>1, <3>3, <3>4
  <2>9. ASSUME NEW u \in Threads, NEW v \in Threads, NEW i \in Nat, NEW j \in Nat,
               Advance(u, i)', Advance(v, j)', ClientOf[u] = ClientOf[v], new[u][i] = new[v][j]
        PROVE  u = v /\ i = j
    <3>1. CASE u = t /\ i = n
      BY <2>4, <2>8, <2>9, <3>1
    <3>2. CASE v = t /\ j = n
      BY <2>4, <2>8, <2>9, <3>2
    <3>3. CASE ~(u = t /\ i = n) /\ ~(v = t /\ j = n)
      <4>1. Advance(u, i) /\ Advance(v, j) /\ num[u][i] = num[v][j]
        BY <2>4, <2>6, <2>9, <3>3
      <4>2. u = v
        BY <2>1, <2>9, <4>1, NumbersDiffer
      <4>3. i = j
        BY <2>1, <4>1, <4>2, NumbersOfThreadDiffer
      <4> QED  BY <4>2, <4>3
    <3> QED  BY <3>1, <3>2, <3>3
  <2>10. Numbered(new)'
    <3>1. \A u \in Threads, i \in Nat : Advance(u, i)' =>
            LET c == ClientOf[u]
            IN  /\ new[u][i] \in Nat /\ clientClock'[c] < new[u][i]
                /\ new[u][i] <= threadClocks'[c].min
      BY <1>1, <2>7
    <3>2. \A u, v \in Threads : \A i, j \in Nat :
            /\ Advance(u, i)' /\ Advance(v, j)'
            /\ ClientOf[u] = ClientOf[v] /\ new[u][i] = new[v][j]
            => u = v /\ i = j
      BY <2>9
    <3> QED  BY <3>1, <3>2 DEF Numbered
  <2>11. \A d \in Clients : clientClock'[d] <= threadClocks'[d].min
    BY <1>1 DEF AdvancesNumbered
  <2> QED  BY <2>4, <2>10, <2>11 DEF AdvancesNumbered
<1> QED  BY <1>3, <1>4

\* The worker ends the process' next clock.  The message it takes may carry a
\* later number, when reports overtook each other: it leaves its number to
\* the one that carries the next.
LEMMA AdvancesOfBgClock ==
  ASSUME ClocksTyped, AdvancesNumbered, NEW c \in Clients, NEW t \in Threads,
         NextFromApp(c, t, "BgClock"), UNCHANGED <<pc, threadClocks>>,
         clientClock' = [clientClock EXCEPT ![c] = @ + 1]
  PROVE  AdvancesNumbered' /\ clientClock[c] + 1 <= threadClocks[c].min
<1>1. PICK num \in [Threads -> [Nat -> Nat]] : Numbered(num)
  BY DEF AdvancesNumbered
<1>2. PICK k \in Nat : k = clientClock[c] + 1
  BY DEF ClocksTyped
<1>3. PICK n \in Nat : n = num[t][1]
  OBVIOUS
<1>4. ClientOf[t] = c /\ Advance(t, 1)
  BY QueueShrinks DEF Advance
<1>5. k <= n /\ n <= threadClocks[c].min /\ threadClocks[c].min \in Nat
  <2>1. clientClock[c] < num[t][1] /\ num[t][1] <= threadClocks[c].min
    BY <1>1, <1>4, NumberFits
  <2>2. threadClocks[c].min \in Nat /\ clientClock[c] \in Nat
    BY <1>4, ClockTypesOf
  <2> QED  BY <1>2, <1>3, <2>1, <2>2
<1>6. PICK mid \in [Threads -> [Nat -> Nat]] :
        \A u \in Threads, i \in Nat :
          mid[u][i] = IF ClientOf[u] = c /\ num[u][i] = k THEN n ELSE num[u][i]
  <2> DEFINE x == [u \in Threads |-> [i \in Nat |->
                     IF ClientOf[u] = c /\ num[u][i] = k THEN n ELSE num[u][i]]]
  <2>1. /\ x \in [Threads -> [Nat -> Nat]]
        /\ \A u \in Threads, i \in Nat :
             x[u][i] = IF ClientOf[u] = c /\ num[u][i] = k THEN n ELSE num[u][i]
    OBVIOUS
  <2> HIDE DEF x
  <2> QED  BY <2>1
<1>7. ASSUME NEW u \in Threads, NEW i \in Nat, Advance(u, i), ~(u = t /\ i = 1)
      PROVE  /\ mid[u][i] = IF ClientOf[u] = c /\ num[u][i] = k THEN n ELSE num[u][i]
             /\ num[u][i] \in Nat /\ num[u][i] <= threadClocks[ClientOf[u]].min
             /\ clientClock[ClientOf[u]] < num[u][i]
             /\ ~(ClientOf[u] = c /\ num[u][i] = n)
  <2>1. /\ num[u][i] \in Nat /\ num[u][i] <= threadClocks[ClientOf[u]].min
        /\ clientClock[ClientOf[u]] < num[u][i]
    BY <1>1, <1>7, NumberFits
  <2>2. ASSUME ClientOf[u] = c, num[u][i] = n PROVE FALSE
    <3>1. u = t
      BY <1>1, <1>3, <1>4, <1>7, <2>2, NumbersDiffer
    <3>2. i = 1
      BY <1>1, <1>3, <1>4, <1>7, <2>2, <3>1, NumbersOfThreadDiffer
    <3> QED  BY <1>7, <3>1, <3>2
  <2> QED  BY <1>6, <2>1, <2>2
<1>8. ASSUME NEW u \in Threads, NEW v \in Threads, NEW i \in Nat, NEW j \in Nat,
             Advance(u, i), ~(u = t /\ i = 1), Advance(v, j), ~(v = t /\ j = 1),
             ClientOf[u] = ClientOf[v], mid[u][i] = mid[v][j]
      PROVE  u = v /\ i = j
  <2>1. num[u][i] = num[v][j]
    <3>1. /\ mid[u][i] = IF ClientOf[u] = c /\ num[u][i] = k THEN n ELSE num[u][i]
          /\ ~(ClientOf[u] = c /\ num[u][i] = n)
      BY <1>7, <1>8
    <3>2. /\ mid[v][j] = IF ClientOf[v] = c /\ num[v][j] = k THEN n ELSE num[v][j]
          /\ ~(ClientOf[v] = c /\ num[v][j] = n)
      BY <1>7, <1>8
    <3> QED  BY <1>8, <3>1, <3>2
  <2>2. u = v
    BY <1>1, <1>8, <2>1, NumbersDiffer
  <2>3. i = j
    BY <1>1, <1>8, <2>1, <2>2, NumbersOfThreadDiffer
  <2> QED  BY <2>2, <2>3
<1>9. PICK new \in [Threads -> [Nat -> Nat]] :
        \A u \in Threads, i \in Nat : Advance(u, i)' =>
          /\ Advance(u, Was(t, u, i)) /\ Was(t, u, i) \in Nat /\ ~(u = t /\ Was(t, u, i) = 1)
          /\ new[u][i] = mid[u][Was(t, u, i)]
  BY <1>6, ShiftedAdvances
<1>10. ASSUME NEW u \in Threads, NEW i \in Nat, Advance(u, i)'
       PROVE  /\ clientClock'[ClientOf[u]] < new[u][i]
              /\ new[u][i] <= threadClocks'[ClientOf[u]].min
  <2>1. PICK l \in Nat : l = Was(t, u, i) /\ Advance(u, l) /\ ~(u = t /\ l = 1) /\ new[u][i] = mid[u][l]
    BY <1>9, <1>10
  <2>2. PICK x \in Nat : /\ x = num[u][l] /\ x <= threadClocks[ClientOf[u]].min
                         /\ clientClock[ClientOf[u]] < x /\ ~(ClientOf[u] = c /\ x = n)
                         /\ mid[u][l] = IF ClientOf[u] = c /\ x = k THEN n ELSE x
    BY <1>7, <2>1
  <2>3. CASE ClientOf[u] = c
    <3>1. clientClock'[c] = k /\ clientClock[c] \in Nat
      BY <1>2 DEF ClocksTyped
    <3>2. PICK most \in Nat : most = threadClocks[c].min
      BY <1>5
    <3>3. k <= x
      <4>1. PICK old \in Nat : old = clientClock[c]
        BY <3>1
      <4>2. old < x /\ k = old + 1
        BY <1>2, <2>2, <2>3, <4>1
      <4> QED  BY <4>2
    <3>4. new[u][i] = (IF x = k THEN n ELSE x) /\ x # n /\ x <= most /\ k <= n /\ n <= most
      BY <1>5, <2>1, <2>2, <2>3, <3>2
    <3>5. k < new[u][i] /\ new[u][i] <= most
      BY <3>3, <3>4
    <3> QED  BY <2>3, <3>1, <3>2, <3>5
  <2>4. CASE ClientOf[u] # c
    <3>1. clientClock'[ClientOf[u]] = clientClock[ClientOf[u]]
      BY <2>4, ThreadsAssumption DEF ClocksTyped
    <3> QED  BY <2>1, <2>2, <2>4, <3>1
  <2> QED  BY <2>3, <2>4
<1>11. ASSUME NEW u \in Threads, NEW v \in Threads, NEW i \in Nat, NEW j \in Nat,
              Advance(u, i)', Advance(v, j)', ClientOf[u] = ClientOf[v], new[u][i] = new[v][j]
       PROVE  u = v /\ i = j
  <2>1. PICK x \in Nat : x = Was(t, u, i) /\ Advance(u, x) /\ ~(u = t /\ x = 1) /\ new[u][i] = mid[u][x]
    BY <1>9, <1>11
  <2>2. PICK y \in Nat : y = Was(t, v, j) /\ Advance(v, y) /\ ~(v = t /\ y = 1) /\ new[v][j] = mid[v][y]
    BY <1>9, <1>11
  <2>3. u = v /\ x = y
    BY <1>8, <1>11, <2>1, <2>2
  <2> QED  BY <2>1, <2>2, <2>3, WasInjective
<1>12. Numbered(new)'
  <2>1. \A u \in Threads, i \in Nat : Advance(u, i)' =>
          /\ new[u][i] \in Nat /\ clientClock'[ClientOf[u]] < new[u][i]
          /\ new[u][i] <= threadClocks'[ClientOf[u]].min
    BY <1>10
  <2>2. \A u, v \in Threads : \A i, j \in Nat :
          /\ Advance(u, i)' /\ Advance(v, j)'
          /\ ClientOf[u] = ClientOf[v] /\ new[u][i] = new[v][j]
          => u = v /\ i = j
    BY <1>11
  <2> QED  BY <2>1, <2>2 DEF Numbered
<1>13. ASSUME NEW d \in Clients PROVE clientClock'[d] <= threadClocks'[d].min
  <2>1. clientClock'[d] = IF d = c THEN k ELSE clientClock[d]
    BY <1>2 DEF ClocksTyped
  <2>2. k <= threadClocks[c].min
    BY <1>5
  <2> QED  BY <2>1, <2>2 DEF AdvancesNumbered
<1>14. k <= threadClocks[c].min
  BY <1>5
<1> QED  BY <1>2, <1>12, <1>13, <1>14 DEF AdvancesNumbered

\* The clocks of the processes, whatever the step.
ProcessOK == ProcessClocks /\ AdvancesNumbered

\* A step that ticks nothing, sends no advance and takes none.
LEMMA ClocksStay ==
  ASSUME ClocksTyped, ProcessOK, UNCHANGED <<clock, threadClocks, clientClock, appToBg>>,
         \A u \in Threads : /\ pc'[u] = "tick" <=> pc[u] = "tick"
                            /\ pc'[u] = "clock" => pc[u] = "clock"
  PROVE  ProcessOK'
<1>1. \A u \in Threads, i \in Nat : Advance(u, i)' => Advance(u, i)
  BY DEF Advance
<1>2. \A c \in Clients : threadClocks'[c].min = threadClocks[c].min
  OBVIOUS
<1> QED  BY <1>1, <1>2, ProcessClocksStay, AdvancesStay DEF ProcessOK

\* Threads keep the clocks of processes.
LEMMA ThreadKeepsClocks ==
  ASSUME TypeOK, ProcessOK, NEW t \in Threads, ThreadNext(t)
  PROVE  ProcessOK'
<1>1. pc \in [Threads -> {"run", "wait", "woken", "flush", "tick", "clock", "send"}]
  BY DEF TypeOK
<1>2. CASE \E r \in Rows : Inc(t, r) \/ GetCached(t, r) \/ ThreadInc(t, r) \/ ThreadGetCached(t, r)
  BY <1>2, ClocksStay, ClocksAreTyped
     DEF Inc, GetCached, ThreadInc, ThreadGetCached, threadVars, clientVars, bgVars, channelVars
<1>3. CASE GetAbort(t)
  BY <1>3, ClocksStay, ClocksAreTyped DEF GetAbort, threadVars, bgVars, channelVars
<1>4. CASE \E r \in Rows : FlushRow(t, r)
  BY <1>1, <1>4, ClocksStay, ClocksAreTyped DEF FlushRow, Flushing, bgVars, channelVars
<1>5. CASE GetReturn(t) \/ ThreadGetReturn(t) \/ FlushThreadCache(t)
  <2>1. /\ UNCHANGED <<clock, threadClocks, clientClock, appToBg>>
        /\ pc' = [pc EXCEPT ![t] = "run"] /\ pc[t] # "tick"
    BY <1>5 DEF GetReturn, ThreadGetReturn, Woken, FlushThreadCache, Flushing, clientVars, bgVars,
                channelVars
  <2> QED  BY <1>1, <2>1, ClocksStay, ClocksAreTyped
<1>6. CASE (\E r \in Rows, b \in BOOLEAN : RequestAndWait(t, r, b)) \/ GetAgain(t)
  <2>1. PICK r, k : /\ SendToBg(t, RowRequest(r, k)) /\ pc' = [pc EXCEPT ![t] = "wait"] /\ pc[t] # "tick"
                    /\ UNCHANGED <<clock, threadClocks, clientClock>>
    BY <1>6 DEF RequestAndWait, Ready, GetAgain, Woken, clientVars, bgVars
  <2>2. RowRequest(r, k).type # "BgClock"
    BY DEF RowRequest
  <2>3. \A u \in Threads : /\ pc'[u] = "tick" <=> pc[u] = "tick"
                           /\ pc'[u] = "clock" => pc[u] = "clock"
    BY <1>1, <2>1
  <2>4. AdvancesNumbered'
    BY <2>1, <2>2, <2>3, AdvancesJoined, ClocksAreTyped DEF ProcessOK
  <2> QED  BY <2>1, <2>3, <2>4, ProcessClocksStay DEF ProcessOK
<1>7. CASE Clock(t)
  <2>1. /\ UNCHANGED <<threadClocks, clientClock, appToBg>>
        /\ pc' = [pc EXCEPT ![t] = "tick"]
    BY <1>7 DEF Clock, bgVars, channelVars
  <2>2. \A u \in Threads, i \in Nat : Advance(u, i)' => Advance(u, i)
    BY <1>1, <2>1 DEF Advance
  <2>3. AdvancesNumbered'
    BY <2>1, <2>2, AdvancesStay, ClocksAreTyped DEF ProcessOK
  <2> QED  BY <1>7, <2>3, ProcessClocksOfClock, ClocksAreTyped DEF ProcessOK
<1>8. CASE TickThread(t)
  BY <1>8, ProcessClocksOfTick, AdvancesOfTick, ClocksAreTyped DEF ProcessOK
<1>9. CASE TellBg(t)
  <2>1. /\ UNCHANGED <<clock, threadClocks>> /\ pc' = [pc EXCEPT ![t] = "run"]
        /\ pc[t] # "tick"
    BY <1>9 DEF TellBg, clientVars
  <2>2. ProcessClocks'
    BY <1>1, <2>1, ProcessClocksStay DEF ProcessOK
  <2> QED  BY <1>9, <2>2, AdvancesOfTell, ClocksAreTyped DEF ProcessOK
<1> QED  BY <1>2, <1>3, <1>4, <1>5, <1>6, <1>7, <1>8, <1>9
         DEF ThreadNext, GetRequest, ThreadGetRequest

\* The threads that a reply wakes.
LEMMA AnsweredThreadsWait ==
  ASSUME TypeOK, WaitingOK, NEW c \in Clients, NEW s \in Servers, HandleReply(c, s)
  PROVE  LET reply == Head(serverToBg[s][c])
         IN  \A u \in AnsweredThreads(c, reply) :
               /\ u \in Threads /\ pc[u] = "wait" /\ ClientOf[u] = c
               /\ want[u].row = reply.row /\ want[u].clock <= reply.clock
<1> DEFINE reply == Head(serverToBg[s][c])
           r0 == reply.row
           d0 == Len(Satisfied(mgr[c], r0, reply.clock))
           q == mgr[c].pending[r0]
           done == AnsweredThreads(c, reply)
           again == ClockToRequest(mgr[c], r0, reply.clock, version[c])
<1>1. /\ r0 \in Rows /\ Answered(mgr[c], mgr'[c], r0, d0, again)
      /\ done = {q[i].thread : i \in 1 .. d0} /\ \A i \in 1 .. d0 : q[i].clock <= reply.clock
  BY AnswersOfReply
<1> HIDE DEF r0, d0, done, reply, again
<1>2. d0 \in 0 .. Len(q) /\ Len(q) \in Nat /\ DOMAIN q = 1 .. Len(q)
  BY <1>1 DEF Answered
<1>3. ASSUME NEW i \in 1 .. d0
      PROVE  /\ q[i].thread \in Threads /\ pc[q[i].thread] = "wait" /\ ClientOf[q[i].thread] = c
             /\ want[q[i].thread].row = r0 /\ want[q[i].thread].clock <= reply.clock
  <2>1. i \in DOMAIN q /\ IsMgr(mgr[c])
    BY <1>2 DEF TypeOK
  <2>2. q[i].thread \in Threads
    BY <1>1, <2>1, PendingIsList DEF Request
  <2>3. /\ pc[q[i].thread] = "wait" /\ ClientOf[q[i].thread] = c
        /\ want[q[i].thread].row = r0 /\ want[q[i].thread].clock = q[i].clock
    <3>1. WaitsFor(q[i], c, r0)
      BY <1>1, <2>1, PendingWaits
    <3> QED  BY <3>1 DEF WaitsFor
  <2> QED  BY <1>1, <2>2, <2>3
<1>4. \A u \in done : /\ u \in Threads /\ pc[u] = "wait" /\ ClientOf[u] = c
                      /\ want[u].row = r0 /\ want[u].clock <= reply.clock
  BY <1>1, <1>3
<1> QED  BY <1>4 DEF done, reply, r0

\* Background workers keep the clocks of processes.
LEMMA BgKeepsClocks ==
  ASSUME TypeOK, WaitingOK, ProcessOK, NEW c \in Clients, BgNext(c)
  PROVE  ProcessOK'
<1>1. ASSUME NEW t \in Threads, RowRequestAnswered(c, t) PROVE ProcessOK'
  <2>1. /\ NextFromApp(c, t, "RowRequest") /\ pc' = [pc EXCEPT ![t] = "woken"]
        /\ UNCHANGED <<clock, threadClocks, clientClock>>
    BY <1>1 DEF RowRequestAnswered, clientVars, bgVars
  <2>2. pc[t] = "wait"
    BY <2>1, TakesTheRequest
  <2>3. \A u \in Threads : /\ pc'[u] = "tick" <=> pc[u] = "tick"
                           /\ pc'[u] = "clock" <=> pc[u] = "clock"
    BY <2>1, <2>2 DEF TypeOK
  <2>4. AdvancesNumbered'
    BY <2>1, <2>3, AdvancesMove, ClocksAreTyped DEF ProcessOK
  <2> QED  BY <2>1, <2>3, <2>4, ProcessClocksStay DEF ProcessOK
<1>2. ASSUME NEW t \in Threads, RowRequestForwarded(c, t) \/ HandleBgSendOpLog(c, t) PROVE ProcessOK'
  <2>1. /\ UNCHANGED <<clock, pc, threadClocks, clientClock>>
        /\ \E type \in {"RowRequest", "BgSendOpLog"} : NextFromApp(c, t, type)
    BY <1>2 DEF RowRequestForwarded, HandleBgSendOpLog, threadVars, clientVars
  <2>2. AdvancesNumbered'
    BY <2>1, AdvancesMove, ClocksAreTyped DEF ProcessOK
  <2> QED  BY <2>1, <2>2, ProcessClocksStay DEF ProcessOK
<1>3. ASSUME NEW t \in Threads, HandleBgClock(c, t) PROVE ProcessOK'
  <2>1. /\ UNCHANGED <<clock, pc, threadClocks>> /\ NextFromApp(c, t, "BgClock")
        /\ clientClock' = [clientClock EXCEPT ![c] = @ + 1]
    BY <1>3 DEF HandleBgClock, threadVars
  <2> QED  BY <2>1, ProcessClocksStay, AdvancesOfBgClock, ClocksAreTyped DEF ProcessOK
<1>4. ASSUME NEW s \in Servers, HandleReply(c, s) PROVE ProcessOK'
  <2> DEFINE done == AnsweredThreads(c, Head(serverToBg[s][c]))
  <2>1. /\ UNCHANGED <<clock, threadClocks, clientClock, appToBg>>
        /\ pc' = [u \in Threads |-> IF u \in done THEN "woken" ELSE pc[u]]
    BY <1>4 DEF HandleReply
  <2>2. \A u \in done : pc[u] = "wait"
    BY <1>4, AnsweredThreadsWait
  <2> HIDE DEF done
  <2>3. \A u \in Threads : /\ pc'[u] = "tick" <=> pc[u] = "tick"
                           /\ pc'[u] = "clock" => pc[u] = "clock"
    BY <2>1, <2>2
  <2> QED  BY <2>1, <2>3, ClocksStay, ClocksAreTyped
<1>5. ASSUME NEW s \in Servers, HandleReplyAbort(c, s) PROVE ProcessOK'
  BY <1>5, ClocksStay, ClocksAreTyped DEF HandleReplyAbort, threadVars, bgVars, channelVars
<1> QED  BY <1>1, <1>2, <1>3, <1>4, <1>5 DEF BgNext

\* Every step keeps the clocks of processes.
LEMMA StepKeepsClocks ==
  ASSUME TypeOK, WaitingOK, ProcessOK, [Next]_vars
  PROVE  ProcessOK'
<1>1. CASE UNCHANGED vars
  BY <1>1, ClocksStay, ClocksAreTyped DEF vars, threadVars, clientVars, bgVars, channelVars
<1>2. ASSUME NEW s \in Servers, NEW c \in Clients,
             RowRequestBuffered(s, c) \/ RowRequestReplied(s, c) \/ HandleOpLog(s, c)
      PROVE  ProcessOK'
  BY <1>2, ClocksStay, ClocksAreTyped DEF RowRequestBuffered, RowRequestReplied, HandleOpLog, threadVars, clientVars,
                          bgVars
<1> QED  BY <1>1, <1>2, ThreadKeepsClocks, BgKeepsClocks DEF Next, ServerNext

\* All clocks are zero at the start.
LEMMA InitClocks == Start => HistoryOK /\ ProcessOK
<1> SUFFICES ASSUME Start PROVE HistoryOK /\ ProcessOK
  OBVIOUS
<1>1. HistoryOK
  BY BoundsAssumption DEF Start, HistoryOK, HistoryOf, MadeBefore, Shared
<1>2. ProcessClocks
  <2>1. \A c \in Clients : threadClocks[c].min = 0 /\ threadClocks[c].vec = [i \in ThreadsOf(c) |-> 0]
    BY DEF Start, StartClock
  <2>2. \A t \in Threads : ClientOf[t] \in Clients /\ t \in ThreadsOf(ClientOf[t])
    BY ThreadsAssumption DEF ThreadsOf
  <2>3. \A c \in Clients : ThreadsOf(c) # {} => IsMinimum(threadClocks[c])
    <3> SUFFICES ASSUME NEW c \in Clients, NEW t \in ThreadsOf(c) PROVE IsMinimum(threadClocks[c])
      OBVIOUS
    <3>1. /\ DOMAIN threadClocks[c].vec = ThreadsOf(c) /\ threadClocks[c].min = 0
          /\ \A u \in ThreadsOf(c) : threadClocks[c].vec[u] = 0
      BY <2>1
    <3> QED  BY <3>1 DEF IsMinimum
  <2>4. \A t \in Threads : pc[t] = "run" /\ clock[t] = 0
    BY DEF Start
  <2>5. \A t \in Threads : threadClocks[ClientOf[t]].vec[t] = 0
    BY <2>1, <2>2
  <2> QED  BY <2>1, <2>3, <2>4, <2>5 DEF ProcessClocks
<1>3. AdvancesNumbered
  <2>1. \A t \in Threads, i \in Nat : ~Advance(t, i)
    BY DEF Start, Advance
  <2>2. [t \in Threads |-> [i \in Nat |-> 0]] \in [Threads -> [Nat -> Nat]]
    OBVIOUS
  <2>3. \A num : Numbered(num)
    BY <2>1 DEF Numbered
  <2>4. \A c \in Clients : clientClock[c] <= threadClocks[c].min
    BY DEF Start, StartClock
  <2> QED  BY <2>2, <2>3, <2>4 DEF AdvancesNumbered
<1> QED  BY <1>1, <1>2, <1>3 DEF ProcessOK

-----------------------------------------------------------------------------
(* The type invariant.                                                     *)

\* A worker is never ahead of its threads.
LEMMA WorkersAreBehind ==
  ASSUME ClocksTyped, ProcessOK, NEW t \in Threads
  PROVE  /\ clientClock[ClientOf[t]] <= threadClocks[ClientOf[t]].min
         /\ threadClocks[ClientOf[t]].min <= clock[t]
<1>0. PICK c \in Clients : ClientOf[t] = c /\ t \in ThreadsOf(c)
  BY ClockTypesOf
<1>1. /\ threadClocks[c] \in VectorClocks(ThreadsOf(c)) /\ clock[t] \in Nat
      /\ clientClock[c] <= threadClocks[c].min
  BY <1>0, ClockTypesOf DEF ProcessOK, AdvancesNumbered
<1>2. /\ IsMinimum(threadClocks[c])
      /\ threadClocks[c].vec[t] = IF pc[t] = "tick" THEN clock[t] - 1 ELSE clock[t]
  BY <1>0 DEF ProcessOK, ProcessClocks
<1>3. threadClocks[c].min <= threadClocks[c].vec[t] /\ threadClocks[c].min \in Nat
  BY <1>0, <1>1, <1>2 DEF IsMinimum, VectorClocks
<1> QED  BY <1>0, <1>1, <1>2, <1>3

\* So no worker passes the bound on clocks.
LEMMA WorkersAreBounded ==
  ASSUME ClocksTyped, ProcessOK, \A t \in Threads : clock[t] <= MaxClock
  PROVE  ClocksBounded
<1> SUFFICES ASSUME NEW c \in Clients PROVE clientClock[c] <= MaxClock
  BY DEF ClocksBounded
<1>1. clientClock[c] \in Nat /\ MaxClock \in Nat /\ threadClocks[c].min \in Nat
  BY BoundsAssumption DEF ClocksTyped, VectorClocks
<1>2. CASE ThreadsOf(c) = {}
  BY <1>1, <1>2 DEF ProcessOK, ProcessClocks, AdvancesNumbered
<1>3. CASE ThreadsOf(c) # {}
  <2>1. PICK t \in Threads : ClientOf[t] = c
    BY <1>3 DEF ThreadsOf
  <2>2. clock[t] <= MaxClock /\ clock[t] \in Nat
    BY DEF ClocksTyped
  <2> QED  BY <1>1, <2>1, <2>2, WorkersAreBehind
<1> QED  BY <1>2, <1>3

\* Every step keeps the types.
LEMMA StepKeepsTypes ==
  ASSUME TypeOK, WaitingOK, IInv, HistoryOK, ProcessOK, [Next]_vars
  PROVE  TypeOK'
<1>1. CASE UNCHANGED vars
  <2>1. ThreadsOK'
    BY <1>1 DEF TypeOK, ThreadsOK, vars, threadVars, tableVars, ghostVars
  <2> QED  BY <1>1, <2>1, TypeParts, TypePartsNext, ClientsStay, ServersStay, QueuesStay
           DEF vars, threadVars, clientVars, bgVars, serverVars, channelVars
<1>2. ClocksBounded
  <2>1. \A t \in Threads : clock[t] <= MaxClock
    BY DEF HistoryOK, HistoryOf
  <2> QED  BY <2>1, WorkersAreBounded, ClocksAreTyped
<1>3. ASSUME NEW t \in Threads, ThreadNext(t) PROVE TypeOK'
  <2>1. WaitersKnow
    BY DEF WaitingOK
  <2>2. CASE GetReturn(t) \/ ThreadGetReturn(t) \/ GetAgain(t) \/ GetAbort(t)
    BY <2>1, <2>2, GetTypes, ThreadGetTypes, GetAgainTypes, GetAbortTypes
  <2>3. CASE \E r \in Rows : GetCached(t, r) \/ GetRequest(t, r)
    BY <2>3, GetTypes, RequestAndWaitTypes DEF GetRequest
  <2>4. CASE \E r \in Rows : ThreadGetCached(t, r) \/ ThreadGetRequest(t, r)
    BY <2>4, ThreadGetTypes, RequestAndWaitTypes DEF ThreadGetRequest
  <2>5. CASE LocalStep(t)
    BY <2>5, LocalTypes, LocalQueues, TypeParts, TypePartsNext
  <2> QED  BY <1>3, <2>2, <2>3, <2>4, <2>5 DEF ThreadNext, LocalStep
<1>4. ASSUME NEW c \in Clients, BgNext(c) PROVE TypeOK'
  BY <1>4, RowRequestAnsweredTypes, RowRequestForwardedTypes, HandleBgTypes, HandleReplyTypes,
     HandleReplyAbortTypes DEF BgNext
<1>5. ASSUME NEW s \in Servers, ServerNext(s) PROVE TypeOK'
  <2>1. ASSUME NEW c \in Clients, RowRequestBuffered(s, c) PROVE TypeOK'
    <3>1. QueuesOK'
      BY <2>1, QueuesStay, TypeParts DEF RowRequestBuffered, threadVars, bgVars
    <3> QED  BY <2>1, <3>1, RowRequestBufferedTypes, TypeParts, TypePartsNext
  <2>2. ASSUME NEW c \in Clients, RowRequestReplied(s, c) PROVE TypeOK'
    BY <2>2, RepliedQueues, RowRequestRepliedTypes, TypeParts, TypePartsNext
  <2> QED  BY <1>2, <1>5, <2>1, <2>2, HandleOpLogTypes DEF ServerNext
<1> QED  BY <1>1, <1>3, <1>4, <1>5 DEF Next

\* What the type of every variable rests on.
Inv == TypeOK /\ WaitingOK /\ HistoryOK /\ ProcessOK /\ IInv

\* Every step keeps the invariant.
LEMMA StepKeepsInv == Inv /\ [Next]_vars => Inv'
BY StepKeepsTypes, StepKeepsWaiting, StepKeepsHistory, StepKeepsClocks, StepKeeps DEF Inv

\* The invariant always holds.
LEMMA InvHolds == Spec => []Inv
<1>1. Init => Inv
  BY InitTypes, InitWaiting, InitClocks, InitEstablishes DEF Inv, Init
<1> QED  BY <1>1, StepKeepsInv, PTL DEF Spec

\* Whatever threads, workers and servers do, and in whatever order, every
\* variable keeps its type: clocks stay natural numbers, a row keeps an entry
\* per thread, and every message in a queue is one its receiver's switch
\* knows, about a row or a thread that the receiver has.
THEOREM TypesAreKept == Spec => []TypeOK
<1>1. Inv => TypeOK
  BY DEF Inv
<1> QED  BY <1>1, InvHolds, PTL
=============================================================================
