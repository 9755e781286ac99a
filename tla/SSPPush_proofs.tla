---------------------------- MODULE SSPPush_proofs ----------------------------
(***************************************************************************)
(* SSPPush, for any number of processes, threads, servers, rows, clocks    *)
(* and any staleness: no thread sleeps through the clock it waits for, the *)
(* workers keep the oplogs that are not acknowledged, the requests of      *)
(* GetAsync are counted exactly, and every variable has its type.          *)
(*                                                                         *)
(* The worker counts its system clock one up for each push that moves the  *)
(* minimum of its servers' clocks.  That this count is the minimum rests   *)
(* on the clocks of a server's pushes, which come one by one and in order  *)
(* (PushedInSequence), and these on the clocks that the servers receive    *)
(* (IInv) and on the bound of the workers' clocks (ProcessOK), both shared *)
(* with SSP.                                                               *)
(*                                                                         *)
(* The versions that the servers acknowledge are words that wrap around.   *)
(* OpLogsAreRemembered says of which numbers they are the words; that is   *)
(* enough to tell them apart as long as fewer versions than words are      *)
(* outstanding (FewVersions).                                              *)
(*                                                                         *)
(* That the types hold (PushTypes) is an invariant of its own; only the    *)
(* bound of the replies follows from counting them (GetsCounted): what a   *)
(* thread counts on beyond the replies it has, and beyond what it has      *)
(* asked its worker for, is what the worker's manager holds for it.        *)
(***************************************************************************)
EXTENDS SSPPush, SSP_proofs

-----------------------------------------------------------------------------
(* Channels, and the clocks that pushes carry.                             *)

\* A list of messages, given by its length and what is at each place.
LEMMA ListIsSeq ==
  ASSUME NEW n \in Nat, NEW q, q = [i \in 1 .. n |-> q[i]]
  PROVE  IsSeq(q) /\ Len(q) = n
<1>1. q \in [1 .. n -> {q[i] : i \in DOMAIN q}]
  OBVIOUS
<1>2. q \in Seq({q[i] : i \in DOMAIN q})
  BY <1>1, SeqDef
<1> QED  BY <1>2, LenProperties DEF IsSeq

\* One channel behind another.
LEMMA ConcatToSeq ==
  ASSUME NEW p, IsSeq(p), NEW q, IsSeq(q)
  PROVE  /\ IsSeq(p \o q)
         /\ Len(p) \in Nat /\ DOMAIN p = 1 .. Len(p)
         /\ Len(q) \in Nat /\ DOMAIN q = 1 .. Len(q)
         /\ DOMAIN (p \o q) = 1 .. Len(p) + Len(q)
         /\ \A i \in 1 .. Len(p) : (p \o q)[i] = p[i]
         /\ \A i \in 1 .. Len(q) : (p \o q)[Len(p) + i] = q[i]
<1> DEFINE S == {p[i] : i \in DOMAIN p} \cup {q[i] : i \in DOMAIN q}
           a == p \o q
<1>1. p \in Seq(S) /\ q \in Seq(S)
  BY SeqMonotonic DEF IsSeq
<1> HIDE DEF S
<1>2. /\ a \in Seq(S) /\ Len(a) = Len(p) + Len(q)
      /\ \A i \in 1 .. Len(p) + Len(q) : a[i] = IF i <= Len(p) THEN p[i] ELSE q[i - Len(p)]
  BY <1>1, ConcatProperties
<1>3. Len(p) \in Nat /\ DOMAIN p = 1 .. Len(p) /\ Len(q) \in Nat /\ DOMAIN q = 1 .. Len(q)
  BY <1>1, LenProperties
<1>4. DOMAIN a = 1 .. Len(p) + Len(q)
  BY <1>2, LenProperties
<1> HIDE DEF a
<1>5. IsSeq(a)
  <2>1. Len(a) \in Nat /\ a = [i \in 1 .. Len(a) |-> a[i]]
    BY <1>2, LenProperties
  <2> QED  BY <2>1, ListIsSeq
<1>6. \A i \in 1 .. Len(p) : a[i] = p[i]
  BY <1>2, <1>3
<1>7. ASSUME NEW i \in 1 .. Len(q) PROVE a[Len(p) + i] = q[i]
  <2> DEFINE m == Len(p)
             n == Len(q)
  <2>1. m \in Nat /\ n \in Nat /\ i \in 1 .. n
    BY <1>3
  <2> HIDE DEF m, n
  <2>2. m + i \in 1 .. m + n /\ ~(m + i <= m) /\ (m + i) - m = i
    BY <2>1
  <2>3. a[m + i] = q[(m + i) - m]
    BY <1>2, <2>2 DEF m, n
  <2> QED  BY <2>2, <2>3 DEF m
<1> QED  BY <1>2, <1>3, <1>4, <1>5, <1>6, <1>7 DEF a

\* ConcatToSeq, with names for the lengths and for the channel behind the other.
LEMMA ConcatIs ==
  ASSUME NEW p, IsSeq(p), NEW q, IsSeq(q),
         NEW a, a = p \o q, NEW m, m = Len(p), NEW n, n = Len(q)
  PROVE  /\ m \in Nat /\ DOMAIN p = 1 .. m /\ n \in Nat /\ DOMAIN q = 1 .. n
         /\ DOMAIN a = 1 .. m + n
         /\ \A i \in 1 .. m : a[i] = p[i]
         /\ \A i \in 1 .. n : a[m + i] = q[i]
<1>1. /\ Len(p) \in Nat /\ DOMAIN p = 1 .. Len(p)
      /\ Len(q) \in Nat /\ DOMAIN q = 1 .. Len(q)
      /\ DOMAIN (p \o q) = 1 .. Len(p) + Len(q)
      /\ \A i \in 1 .. Len(p) : (p \o q)[i] = p[i]
      /\ \A i \in 1 .. Len(q) : (p \o q)[Len(p) + i] = q[i]
  BY ConcatToSeq
<1> QED  BY <1>1

\* The clocks that the pushes of a channel carry.
PushClocks(q) == [i \in {i \in DOMAIN q : q[i].type = "PushRow" /\ q[i].isClock} |-> q[i].clock]

\* A message at the end that carries no clock.
LEMMA SendNoClock ==
  ASSUME NEW q, IsSeq(q), NEW m, m.type # "PushRow"
  PROVE  PushClocks(Append(q, m)) = PushClocks(q)
BY AppendToSeq DEF PushClocks

\* Messages at the end that carry no clock.
LEMMA SendNoClocks ==
  ASSUME NEW p, IsSeq(p), NEW q, IsSeq(q), \A i \in DOMAIN q : q[i].type # "PushRow"
  PROVE  PushClocks(p \o q) = PushClocks(p)
<1> DEFINE a == p \o q
           m == Len(p)
           n == Len(q)
<1> HIDE DEF a, m, n
<1>1. /\ m \in Nat /\ DOMAIN p = 1 .. m /\ n \in Nat /\ DOMAIN q = 1 .. n
      /\ DOMAIN a = 1 .. m + n
      /\ \A i \in 1 .. m : a[i] = p[i]
      /\ \A i \in 1 .. n : a[m + i] = q[i]
  <2>1. a = p \o q /\ m = Len(p) /\ n = Len(q)
    BY DEF a, m, n
  <2> QED  BY <2>1, ConcatIs
<1>2. ASSUME NEW i \in DOMAIN a, i \notin 1 .. m PROVE a[i].type # "PushRow"
  <2>1. i - m \in 1 .. n /\ m + (i - m) = i
    BY <1>1, <1>2
  <2> QED  BY <1>1, <2>1
<1>3. {i \in DOMAIN a : a[i].type = "PushRow" /\ a[i].isClock}
        = {i \in DOMAIN p : p[i].type = "PushRow" /\ p[i].isClock}
  BY <1>1, <1>2
<1> QED  BY <1>1, <1>3 DEF PushClocks, a

\* Pushes of which the last carries the next clock.
LEMMA SendPushes ==
  ASSUME NEW p, IsSeq(p), NEW q, IsSeq(q), NEW low \in Int, NEW high \in Int,
         Consecutive(PushClocks(p), low, high),
         Len(q) # 0, \A i \in DOMAIN q : q[i].type = "PushRow" /\ q[i].isClock = (i = Len(q)),
         q[Len(q)].clock = high + 1
  PROVE  Consecutive(PushClocks(p \o q), low, high + 1)
<1> DEFINE a == p \o q
           m == Len(p)
           n == Len(q)
           z == m + n
           num == PushClocks(p)
           new == PushClocks(a)
<1>1. /\ m \in Nat /\ DOMAIN p = 1 .. m /\ n \in Nat /\ DOMAIN q = 1 .. n
      /\ DOMAIN a = 1 .. m + n
      /\ \A i \in 1 .. m : a[i] = p[i]
      /\ \A i \in 1 .. n : a[m + i] = q[i]
  <2> HIDE DEF a, m, n
  <2>1. a = p \o q /\ m = Len(p) /\ n = Len(q)
    BY DEF a, m, n
  <2> QED  BY <2>1, ConcatIs
<1>2. n # 0 /\ q[n].clock = high + 1 /\ \A i \in DOMAIN q : q[i].type = "PushRow" /\ q[i].isClock = (i = n)
  OBVIOUS
<1>3. Consecutive(num, low, high)
  OBVIOUS
<1> HIDE DEF a, m, n
<1>4. ASSUME NEW i \in DOMAIN a, i \notin 1 .. m
      PROVE  a[i].type = "PushRow" /\ a[i].isClock = (i = m + n)
  <2>1. i - m \in 1 .. n /\ m + (i - m) = i
    BY <1>1, <1>4
  <2>2. a[i].type = "PushRow" /\ a[i].isClock = (i - m = n)
    BY <1>1, <1>2, <2>1
  <2>3. (i - m = n) = (i = m + n)
    BY <1>1, <2>1
  <2> QED  BY <2>2, <2>3
<1>5. z \in DOMAIN a /\ z \notin 1 .. m /\ z \in Nat /\ (\A i \in 1 .. m : i < z) /\ a[z] = q[n]
  BY <1>1, <1>2
<1>6. /\ \A i \in DOMAIN num : i \in 1 .. m
      /\ DOMAIN num = {i \in DOMAIN p : p[i].type = "PushRow" /\ p[i].isClock}
      /\ \A i \in DOMAIN num : num[i] = p[i].clock
  BY <1>1 DEF PushClocks
<1>7. /\ DOMAIN new = {i \in DOMAIN a : a[i].type = "PushRow" /\ a[i].isClock}
      /\ \A i \in DOMAIN new : new[i] = a[i].clock
  BY DEF PushClocks
<1>8. \A i \in DOMAIN a : i \notin 1 .. m => (a[i].type = "PushRow" /\ a[i].isClock <=> i = z)
  BY <1>4
<1> HIDE DEF num, new, z
<1>9. DOMAIN new = DOMAIN num \cup {z}
  BY <1>1, <1>5, <1>6, <1>7, <1>8
<1>10. new[z] = high + 1
  <2>1. new[z] = a[z].clock
    BY <1>7, <1>9
  <2>2. a[z] = q[n] /\ q[n].clock = high + 1
    BY <1>2, <1>5
  <2> QED  BY <2>1, <2>2
<1>11. \A i \in DOMAIN num : i \in Nat /\ i < z /\ new[i] = num[i]
  BY <1>1, <1>5, <1>6, <1>7, <1>9
<1>12. Consecutive(new, low, high + 1)
  BY <1>3, <1>5, <1>9, <1>10, <1>11, ExtendRun
<1> QED  BY <1>12 DEF new, a

\* Receiving a push with a clock, which is the next one, or something else.
LEMMA ReceivePush ==
  ASSUME NEW q, IsSeq(q), q # << >>, NEW low \in Int, NEW high \in Int,
         Consecutive(PushClocks(q), low, high)
  PROVE  IF Head(q).type = "PushRow" /\ Head(q).isClock
         THEN Head(q).clock = low + 1 /\ Consecutive(PushClocks(Tail(q)), low + 1, high)
         ELSE Consecutive(PushClocks(Tail(q)), low, high)
<1> DEFINE num == PushClocks(q)
           new == PushClocks(Tail(q))
<1>1. /\ \A i \in DOMAIN new : i \in Nat \ {0} /\ i + 1 \in DOMAIN num /\ new[i] = num[i + 1]
      /\ \A i \in DOMAIN num : i \in Nat \ {0} /\ (i # 1 => i - 1 \in DOMAIN new)
  BY TailOfSeq DEF PushClocks
<1>2. /\ 1 \in DOMAIN num <=> Head(q).type = "PushRow" /\ Head(q).isClock
      /\ 1 \in DOMAIN num => num[1] = Head(q).clock
  BY TailOfSeq DEF PushClocks
<1> HIDE DEF num, new
<1>3. IF 1 \in DOMAIN num THEN num[1] = low + 1 /\ Consecutive(new, low + 1, high)
      ELSE Consecutive(new, low, high)
  BY <1>1, ShiftRun DEF num
<1> QED  BY <1>2, <1>3 DEF new

-----------------------------------------------------------------------------
(* What a server sends when its minimum moves.                             *)

\* The larger of two numbers.
LEMMA LargerIs ==
  ASSUME NEW a \in Int, NEW b \in Int
  PROVE  Max({a, b}) \in {a, b} /\ Max({a, b}) >= a /\ Max({a, b}) >= b
<1>1. \E x \in {a, b} : \A y \in {a, b} : x >= y
  OBVIOUS
<1> QED  BY <1>1 DEF Max

\* The list of a finite set holds its elements.
LEMMA ListElements ==
  ASSUME NEW S, IsFiniteSet(S)
  PROVE  Len(SetToSeq(S)) \in Nat /\ \A i \in 1 .. Len(SetToSeq(S)) : SetToSeq(S)[i] \in S
<1> DEFINE n == Cardinality(S)
<1>1. n \in Nat /\ ExistsBijection(1 .. n, S)
  BY FS_CardinalityType
<1>2. PICK f \in Bijection(1 .. n, S) : TRUE
  BY <1>1 DEF ExistsBijection
<1>3. f \in [1 .. n -> S] /\ IsInjective(f)
  BY <1>2 DEF Bijection, Injection, IsInjective
<1> HIDE DEF n
<1>4. SetToSeq(S) \in [1 .. n -> S]
  BY <1>3 DEF SetToSeq, n
<1> QED  BY <1>1, <1>4

\* The pushes to a worker, of which the last carries the clock.
LEMMA PushesOf ==
  ASSUME NEW s, NEW d, NEW k, NEW rows, IsFiniteSet(rows)
  PROVE  LET q == PushMsgs(s, d, k, rows)
         IN  /\ IsSeq(q) /\ Len(q) # 0 /\ q[Len(q)].clock = k
             /\ \A i \in DOMAIN q : /\ q[i].type = "PushRow" /\ q[i].isClock = (i = Len(q))
                                    /\ q[i].version = bgVersion'[s][d]
<1> DEFINE list == SetToSeq(rows)
           last == Max({1, (Len(list) + PushCapacity - 1) \div PushCapacity})
           part(i) == {list[j] : j \in (i - 1) * PushCapacity + 1 .. Min({i * PushCapacity, Len(list)})}
           msg(i) == [type |-> "PushRow", version |-> bgVersion'[s][d], isClock |-> i = last,
                      clock |-> IF i = last THEN k ELSE 0, rows |-> [r \in part(i) |-> table'[s][r]]]
           q == PushMsgs(s, d, k, rows)
<1>1. q = [i \in 1 .. last |-> msg(i)]
  BY DEF PushMsgs
<1>2. Len(list) \in Nat
  BY ListElements
<1>3. last \in Nat \ {0}
  <2> DEFINE x == (Len(list) + PushCapacity - 1) \div PushCapacity
  <2>1. x \in Int
    <3> HIDE DEF list
    <3> QED  BY <1>2, PushAssumption
  <2> HIDE DEF x
  <2>2. Max({1, x}) \in {1, x} /\ Max({1, x}) >= 1
    BY <2>1, LargerIs
  <2> QED  BY <2>1, <2>2 DEF x
<1>4. \A i : /\ msg(i).type = "PushRow" /\ msg(i).isClock = (i = last)
             /\ msg(i).clock = IF i = last THEN k ELSE 0
             /\ msg(i).version = bgVersion'[s][d]
  <2> SUFFICES ASSUME NEW i
               PROVE  /\ msg(i).type = "PushRow" /\ msg(i).isClock = (i = last)
                      /\ msg(i).clock = IF i = last THEN k ELSE 0
                      /\ msg(i).version = bgVersion'[s][d]
    OBVIOUS
  <2> DEFINE b == i = last
             e == IF i = last THEN k ELSE 0
             g == bgVersion'[s][d]
             h == [r \in part(i) |-> table'[s][r]]
  <2>1. msg(i) = [type |-> "PushRow", version |-> g, isClock |-> b, clock |-> e, rows |-> h]
    OBVIOUS
  <2> HIDE DEF last, part, msg, b, e, g, h
  <2>2. msg(i).type = "PushRow" /\ msg(i).isClock = b /\ msg(i).clock = e /\ msg(i).version = g
    BY <2>1
  <2> QED  BY <2>2 DEF b, e, g
<1> HIDE DEF last, msg, q
<1>5. q = [i \in 1 .. last |-> q[i]] /\ \A i \in 1 .. last : q[i] = msg(i)
  BY <1>1
<1>6. IsSeq(q) /\ Len(q) = last /\ DOMAIN q = 1 .. last
  BY <1>3, <1>5, ListIsSeq
<1>7. last \in 1 .. last /\ last # 0
  BY <1>3
<1>8. IsSeq(q) /\ Len(q) # 0 /\ q[Len(q)].clock = k
  BY <1>4, <1>5, <1>6, <1>7
<1>9. \A i \in DOMAIN q : /\ q[i].type = "PushRow" /\ q[i].isClock = (i = Len(q))
                         /\ q[i].version = bgVersion'[s][d]
  <2> SUFFICES ASSUME NEW i \in DOMAIN q
               PROVE  /\ q[i].type = "PushRow" /\ q[i].isClock = (i = Len(q))
                      /\ q[i].version = bgVersion'[s][d]
    OBVIOUS
  <2>1. q[i] = msg(i) /\ Len(q) = last
    BY <1>5, <1>6
  <2> QED  BY <1>4, <2>1, Zenon
<1> QED  BY <1>8, <1>9 DEF q

-----------------------------------------------------------------------------
(* The invariant.                                                          *)

\* The shapes of what the invariant is about, besides those of SSP.
PushShapes ==
  /\ DOMAIN serverToBg = Servers /\ DOMAIN dirty = Servers
  /\ \A s \in Servers : DOMAIN serverToBg[s] = Clients /\ dirty[s] \subseteq RowsOf(s)
  /\ \A s \in Servers, c \in Clients : IsSeq(serverToBg[s][c])
  /\ \A s \in Servers, k \in 0 .. MaxClock, c \in Clients : IsSeq(rowRequests[s][k][c])
  /\ serverClock \in [Clients -> VectorClocks(Servers)]
  /\ systemClock \in [Clients -> Nat]
  /\ DOMAIN notifying = Clients
  /\ DOMAIN want = Threads

\* From a server, a worker receives the clocks one by one and in order.
PushedInSequence ==
  \A s \in Servers, c \in Clients :
    Consecutive(PushClocks(serverToBg[s][c]), serverClock[c].vec[s], bgClock[s].min)

\* The system clock, which only counts, is the minimum of the servers' clocks.
SystemClocksExact ==
  \A c \in Clients : IsMinimum(serverClock[c]) /\ systemClock[c] = serverClock[c].min

\* Whoever is to sleep, or sleeps, when its clock has come will be notified.
SleepersAreNotified ==
  \A t \in Threads :
    pc[t] \in {"tested", "blocked"} /\ systemClock[ClientOf[t]] >= want[t].clock
      => notifying[ClientOf[t]]

\* The bound of Clock.
ThreadsBounded == \A t \in Threads : clock[t] <= MaxClock

\* What SSP and SSPPush share.
SharedInv == IInv /\ ClocksTyped /\ ProcessOK /\ ThreadsBounded

PushInv == SharedInv /\ PushShapes /\ PushedInSequence /\ SystemClocksExact /\ SleepersAreNotified

\* The invariant holds at the start.
LEMMA PushInitEstablishes == PushInit => PushInv
<1> SUFFICES ASSUME PushInit PROVE PushInv
  OBVIOUS
<1>1. Start
  BY DEF PushInit
<1>2. IInv /\ ProcessOK
  BY <1>1, InitEstablishes, InitClocks
<1>3. ClocksTyped /\ ThreadsBounded
  <2>1. \A c \in Clients : StartClock(ThreadsOf(c)) \in VectorClocks(ThreadsOf(c))
    BY DEF StartClock, VectorClocks
  <2> QED  BY <1>1, <2>1, EmptyIsSeq, BoundsAssumption DEF Start, ClocksTyped, ThreadsBounded
<1>4. StartClock(Servers) \in VectorClocks(Servers) /\ IsMinimum(StartClock(Servers))
      /\ StartClock(Servers).min = 0 /\ \A s \in Servers : StartClock(Servers).vec[s] = 0
  BY PushAssumption DEF StartClock, VectorClocks, IsMinimum
<1>5. /\ serverClock = [c \in Clients |-> StartClock(Servers)]
      /\ systemClock = [c \in Clients |-> 0] /\ notifying = [c \in Clients |-> FALSE]
      /\ dirty = [s \in Servers |-> {}]
  BY DEF PushInit
<1>6. PushShapes
  BY <1>1, <1>4, <1>5, EmptyIsSeq DEF Start, PushShapes, NoRequests
<1>7. PushedInSequence
  <2>1. DOMAIN PushClocks(<< >>) = {}
    BY DEF PushClocks
  <2>2. Consecutive(PushClocks(<< >>), 0, 0)
    BY <2>1 DEF Consecutive
  <2>3. \A s \in Servers, c \in Clients :
          serverToBg[s][c] = << >> /\ serverClock[c].vec[s] = 0 /\ bgClock[s].min = 0
    BY <1>1, <1>4, <1>5 DEF Start, StartClock
  <2> QED  BY <2>2, <2>3 DEF PushedInSequence
<1>8. SystemClocksExact
  BY <1>4, <1>5 DEF SystemClocksExact
<1>9. SleepersAreNotified
  BY <1>1 DEF Start, SleepersAreNotified
<1> QED  BY <1>2, <1>3, <1>6, <1>7, <1>8, <1>9 DEF PushInv, SharedInv

-----------------------------------------------------------------------------
(* Steps that leave a part of the invariant alone.                         *)

\* A step that touches neither the channels to the workers nor their clocks.
LEMMA PushedStays ==
  ASSUME PushShapes, PushedInSequence, SystemClocksExact, DOMAIN want' = Threads,
         UNCHANGED <<serverToBg, rowRequests, bgClock, serverClock, systemClock, notifying, dirty>>
  PROVE  PushShapes' /\ PushedInSequence' /\ SystemClocksExact'
<1>1. PushShapes'
  BY DEF PushShapes, RowsOf
<1>2. PushedInSequence'
  BY DEF PushedInSequence
<1>3. SystemClocksExact'
  BY DEF SystemClocksExact, IsMinimum
<1> QED  BY <1>1, <1>2, <1>3

\* A step after which nobody else sleeps, and the system clock is as before.
LEMMA SleepersStay ==
  ASSUME SleepersAreNotified, UNCHANGED <<systemClock, notifying>>,
         \A u \in Threads : pc'[u] \in {"tested", "blocked"} =>
           pc[u] \in {"tested", "blocked"} /\ want'[u] = want[u]
  PROVE  SleepersAreNotified'
BY DEF SleepersAreNotified

\* A step that neither ticks nor reports, and sends no message to a worker.
LEMMA SharedStays ==
  ASSUME SharedInv, UNCHANGED <<protocolVars, clock, threadClocks, appToBg>>,
         pc' = [u \in Threads |-> pc'[u]],
         \A u \in Threads : /\ pc'[u] = "tick" <=> pc[u] = "tick"
                            /\ pc'[u] = "clock" => pc[u] = "clock"
  PROVE  SharedInv'
<1>1. IInv'
  BY UnchangedKeeps DEF SharedInv
<1>2. ProcessOK'
  BY ClocksStay DEF SharedInv, protocolVars
<1>3. ClocksTyped'
  BY DEF SharedInv, ClocksTyped, protocolVars, ThreadsOf
<1> QED  BY <1>1, <1>2, <1>3 DEF SharedInv, ThreadsBounded

\* A step of a thread that sends its worker a request.
LEMMA SharedAfterRequest ==
  ASSUME SharedInv, UNCHANGED <<protocolVars, clock, threadClocks>>,
         NEW t \in Threads, NEW m, m.type = "RowRequest", SendToBg(t, m),
         pc' = [u \in Threads |-> pc'[u]],
         \A u \in Threads : /\ pc'[u] = "tick" <=> pc[u] = "tick"
                            /\ pc'[u] = "clock" => pc[u] = "clock"
  PROVE  SharedInv'
<1>1. IInv'
  BY UnchangedKeeps DEF SharedInv
<1>2. AdvancesNumbered'
  BY AdvancesJoined DEF SharedInv, ProcessOK, protocolVars
<1>3. ProcessClocks'
  BY ProcessClocksStay DEF SharedInv, ProcessOK
<1>4. DOMAIN appToBg' = Threads /\ \A u \in Threads : IsSeq(appToBg'[u])
  <2>1. IsSeq(Append(appToBg[t], m))
    BY AppendToSeq DEF SharedInv, ClocksTyped
  <2> QED  BY <2>1 DEF SharedInv, ClocksTyped, SendToBg
<1>5. ClocksTyped'
  BY <1>4 DEF SharedInv, ClocksTyped, protocolVars, ThreadsOf
<1> QED  BY <1>1, <1>2, <1>3, <1>5 DEF SharedInv, ThreadsBounded, ProcessOK

-----------------------------------------------------------------------------
(* Threads.                                                                *)

\* Where a thread is while it reads, and what it wants, matter to no other.
Moves(t, from, to) == pc[t] \in from /\ pc' = [pc EXCEPT ![t] = to]

WantsAlone(t) == DOMAIN want' = Threads /\ \A u \in Threads \ {t} : want'[u] = want[u]

\* Whatever else a thread's step leaves alone.
LEMMA ThreadLeaves ==
  ASSUME PushShapes, NEW t \in Threads, PushThreadNext(t)
  PROVE  /\ UNCHANGED protocolVars
         /\ UNCHANGED <<serverToBg, rowRequests, bgClock, serverClock, systemClock, notifying, dirty>>
         /\ UNCHANGED mgr /\ WantsAlone(t)
<1> DEFINE Left == /\ UNCHANGED protocolVars
                   /\ UNCHANGED <<serverToBg, rowRequests, bgClock, serverClock, systemClock, notifying,
                                  dirty>>
                   /\ UNCHANGED mgr /\ WantsAlone(t)
<1> USE DEF protocolVars, bgVars, serverVars, channelVars, pushVars, clockVars, WantsAlone
<1>1. DOMAIN want = Threads
  BY DEF PushShapes
<1>2. CASE Inherited(t)
  <2>1. UNCHANGED pushVars
    BY <1>2 DEF Inherited
  <2>2. CASE \E r \in Rows : Inc(t, r) \/ ThreadInc(t, r) \/ FlushRow(t, r)
    BY <1>1, <2>1, <2>2 DEF Inc, ThreadInc, FlushRow
  <2>3. CASE FlushThreadCache(t) \/ Clock(t)
    BY <1>1, <2>1, <2>3 DEF FlushThreadCache, Clock
  <2>4. CASE TickThread(t) \/ TellBg(t)
    BY <1>1, <2>1, <2>4 DEF TickThread, TellBg
  <2> QED  BY <1>2, <2>2, <2>3, <2>4 DEF Inherited
<1>3. ASSUME NEW r \in Rows, NEW b \in BOOLEAN, TestSystemClock(t, r, b) PROVE Left
  BY <1>1, <1>3 DEF TestSystemClock
<1>4. ASSUME NEW r \in Rows, NEW b \in BOOLEAN, PushGetCached(t, r, b) PROVE Left
  BY <1>1, <1>4 DEF PushGetCached, ReturnRow, EndGet
<1>5. ASSUME NEW r \in Rows, NEW b \in BOOLEAN, PushGetRequest(t, r, b) PROVE Left
  BY <1>1, <1>5 DEF PushGetRequest
<1>6. CASE WaitSystemClock(t) \/ PushGetAgain(t) \/ PushGetAbort(t) \/ WaitPendingAsyncGet(t)
  BY <1>1, <1>6 DEF WaitSystemClock, PushGetAgain, PushGetAbort, WaitPendingAsyncGet, threadVars
<1>7. CASE PushGetReturn(t)
  BY <1>1, <1>7 DEF PushGetReturn, ReturnRow, EndGet
<1>8. ASSUME NEW r \in Rows, NEW b \in BOOLEAN, GetAsync(t, r, b) PROVE Left
  BY <1>1, <1>8 DEF GetAsync, threadVars
<1> QED  BY <1>2, <1>3, <1>4, <1>5, <1>6, <1>7, <1>8 DEF PushThreadNext

\* Where a thread is before and after a step that neither ticks nor reports.
Busy == {"run", "flush", "wait", "woken", "tested", "blocked"}

\* The steps of a thread that neither send nor end a clock.
LEMMA QuietSteps ==
  ASSUME NEW t \in Threads,
         \/ \E r \in Rows : Inc(t, r) \/ ThreadInc(t, r) \/ FlushRow(t, r)
         \/ FlushThreadCache(t)
         \/ \E r \in Rows, b \in BOOLEAN : TestSystemClock(t, r, b) \/ PushGetCached(t, r, b)
         \/ WaitSystemClock(t) \/ PushGetReturn(t) \/ PushGetAbort(t) \/ WaitPendingAsyncGet(t)
  PROVE  /\ UNCHANGED <<clock, threadClocks, appToBg>>
         /\ pc' = pc \/ \E to \in Busy : Moves(t, Busy, to)
<1> DEFINE Quiet == /\ UNCHANGED <<clock, threadClocks, appToBg>>
                    /\ pc' = pc \/ \E to \in Busy : Moves(t, Busy, to)
<1> USE DEF Moves, Busy, clientVars, channelVars, Ready, Woken, AtClockCheck, Flushing
<1>1. CASE \E r \in Rows : Inc(t, r) \/ ThreadInc(t, r) \/ FlushRow(t, r)
  BY <1>1 DEF Inc, ThreadInc, FlushRow
<1>2. CASE FlushThreadCache(t)
  BY <1>2 DEF FlushThreadCache
<1>3. ASSUME NEW r \in Rows, NEW b \in BOOLEAN, TestSystemClock(t, r, b) PROVE Quiet
  BY <1>3 DEF TestSystemClock
<1>4. ASSUME NEW r \in Rows, NEW b \in BOOLEAN, PushGetCached(t, r, b) PROVE Quiet
  BY <1>4 DEF PushGetCached, PastClockCheck, ReturnRow, EndGet
<1>5. CASE WaitSystemClock(t)
  BY <1>5 DEF WaitSystemClock
<1>6. CASE PushGetReturn(t)
  BY <1>6 DEF PushGetReturn, ReceiveReply, ReturnRow, EndGet
<1>7. CASE PushGetAbort(t) \/ WaitPendingAsyncGet(t)
  BY <1>7 DEF PushGetAbort, WaitPendingAsyncGet, threadVars
<1> QED  BY <1>1, <1>2, <1>3, <1>4, <1>5, <1>6, <1>7

\* The steps of a thread that send a request.
LEMMA RequestSteps ==
  ASSUME NEW t \in Threads,
         \/ \E r \in Rows, b \in BOOLEAN : PushGetRequest(t, r, b) \/ GetAsync(t, r, b)
         \/ PushGetAgain(t)
  PROVE  /\ UNCHANGED <<clock, threadClocks>>
         /\ \E r, k, f : SendToBg(t, PushRowRequest(r, k, f))
         /\ pc' = pc \/ \E to \in Busy : Moves(t, Busy, to)
<1> USE DEF Moves, Busy, clientVars, Ready, Woken, AtClockCheck
<1>1. ASSUME NEW r \in Rows, NEW b \in BOOLEAN, PushGetRequest(t, r, b)
      PROVE  /\ UNCHANGED <<clock, threadClocks>>
             /\ SendToBg(t, PushRowRequest(r, StalestClock(t), FALSE))
             /\ \E to \in Busy : Moves(t, Busy, to)
  BY <1>1 DEF PushGetRequest, PastClockCheck
<1>2. ASSUME NEW r \in Rows, NEW b \in BOOLEAN, GetAsync(t, r, b)
      PROVE  /\ UNCHANGED <<clock, threadClocks, pc>>
             /\ SendToBg(t, PushRowRequest(r, clock[t], b))
  BY <1>2 DEF GetAsync, threadVars
<1>3. CASE PushGetAgain(t)
  BY <1>3 DEF PushGetAgain
<1> QED  BY <1>1, <1>2, <1>3

\* Where the threads are after such a step.
LEMMA BusyStays ==
  ASSUME ClocksTyped, NEW t \in Threads, pc' = pc \/ \E to \in Busy : Moves(t, Busy, to)
  PROVE  /\ pc' = [u \in Threads |-> pc'[u]]
         /\ \A u \in Threads : /\ pc'[u] = "tick" <=> pc[u] = "tick"
                               /\ pc'[u] = "clock" => pc[u] = "clock"
BY DEF ClocksTyped, Moves, Busy

\* Threads keep what SSP and SSPPush share.
LEMMA ThreadKeepsShared ==
  ASSUME SharedInv, PushShapes, NEW t \in Threads, PushThreadNext(t)
  PROVE  SharedInv'
<1>1. UNCHANGED protocolVars
  BY ThreadLeaves
<1>2. ClocksTyped /\ ProcessOK /\ IInv /\ ThreadsBounded
  BY DEF SharedInv
<1>3. CASE UNCHANGED <<clock, threadClocks, appToBg>> /\ (pc' = pc \/ \E to \in Busy : Moves(t, Busy, to))
  BY <1>1, <1>2, <1>3, BusyStays, SharedStays
<1>4. CASE /\ UNCHANGED <<clock, threadClocks>>
           /\ \E r, k, f : SendToBg(t, PushRowRequest(r, k, f))
           /\ pc' = pc \/ \E to \in Busy : Moves(t, Busy, to)
  <2>1. PICK r, k, f : SendToBg(t, PushRowRequest(r, k, f))
    BY <1>4
  <2>2. PushRowRequest(r, k, f).type = "RowRequest"
    BY DEF PushRowRequest
  <2> QED  BY <1>1, <1>2, <1>4, <2>1, <2>2, BusyStays, SharedAfterRequest
<1>5. IInv'
  BY <1>1, <1>2, UnchangedKeeps
<1>6. clientClock' = clientClock
  BY <1>1 DEF protocolVars
<1>7. CASE Clock(t)
  <2>1. /\ UNCHANGED <<threadClocks, appToBg>> /\ clock[t] < MaxClock
        /\ pc' = [pc EXCEPT ![t] = "tick"] /\ clock' = [clock EXCEPT ![t] = @ + 1]
    BY <1>7 DEF Clock, channelVars
  <2>2. \A u \in Threads, i \in Nat : Advance(u, i)' => Advance(u, i)
    BY <1>2, <2>1 DEF Advance, ClocksTyped
  <2>3. AdvancesNumbered'
    BY <1>2, <1>6, <2>1, <2>2, AdvancesStay DEF ProcessOK
  <2>4. ClocksTyped' /\ ThreadsBounded'
    <3>1. clock \in [Threads -> Nat] /\ MaxClock \in Nat /\ \A u \in Threads : clock[u] <= MaxClock
      BY <1>2, BoundsAssumption DEF ClocksTyped, ThreadsBounded
    <3>2. clock' \in [Threads -> Nat] /\ \A u \in Threads : clock'[u] <= MaxClock
      BY <2>1, <3>1
    <3> QED  BY <1>2, <1>6, <2>1, <3>2 DEF ClocksTyped, ThreadsBounded, ThreadsOf
  <2>5. ProcessClocks'
    BY <1>2, <1>7, ProcessClocksOfClock DEF ProcessOK
  <2> QED  BY <1>5, <2>3, <2>4, <2>5 DEF SharedInv, ProcessOK
<1>8. CASE TickThread(t)
  <2>1. /\ UNCHANGED <<clock, appToBg>> /\ pc' = [pc EXCEPT ![t] = pc'[t]]
        /\ threadClocks' = [threadClocks EXCEPT ![ClientOf[t]] = Tick(@, t)]
    BY <1>2, <1>8 DEF TickThread, channelVars, ClocksTyped
  <2>2. ProcessOK'
    BY <1>2, <1>8, ProcessClocksOfTick, AdvancesOfTick DEF ProcessOK
  <2>3. Tick(threadClocks[ClientOf[t]], t) \in VectorClocks(ThreadsOf(ClientOf[t]))
    <3> DEFINE vc == threadClocks[ClientOf[t]]
               S == ThreadsOf(ClientOf[t])
    <3>1. vc \in VectorClocks(S) /\ t \in S
      BY <1>2, ClockTypesOf
    <3> HIDE DEF vc, S
    <3>2. vc.vec \in [S -> Nat] /\ vc.min \in Nat
      BY <3>1 DEF VectorClocks
    <3>3. [vc.vec EXCEPT ![t] = @ + 1] \in [S -> Nat]
      BY <3>1, <3>2
    <3> QED  BY <3>2, <3>3 DEF Tick, VectorClocks, vc, S
  <2>4. \A c \in Clients : threadClocks'[c] \in VectorClocks(ThreadsOf(c))
    BY <1>2, <2>1, <2>3 DEF ClocksTyped
  <2>5. ClocksTyped' /\ ThreadsBounded'
    BY <1>2, <1>6, <2>1, <2>4 DEF ClocksTyped, ThreadsBounded, ThreadsOf
  <2> QED  BY <1>5, <2>2, <2>5 DEF SharedInv
<1>9. CASE TellBg(t)
  <2>1. PICK m : /\ SendToBg(t, m) /\ UNCHANGED <<clock, threadClocks>>
                 /\ pc' = [pc EXCEPT ![t] = "run"] /\ pc[t] \in {"clock", "send"}
    BY <1>9 DEF TellBg, clientVars
  <2>2. ProcessClocks'
    BY <1>2, <2>1, ProcessClocksStay DEF ProcessOK, ClocksTyped
  <2>3. AdvancesNumbered'
    BY <1>2, <1>9, AdvancesOfTell DEF ProcessOK
  <2>4. DOMAIN appToBg' = Threads /\ \A u \in Threads : IsSeq(appToBg'[u])
    <3>1. IsSeq(Append(appToBg[t], m))
      BY <1>2, AppendToSeq DEF ClocksTyped
    <3> QED  BY <1>2, <2>1, <3>1 DEF ClocksTyped, SendToBg
  <2>5. ClocksTyped' /\ ThreadsBounded'
    BY <1>2, <1>6, <2>1, <2>4 DEF ClocksTyped, ThreadsBounded, ThreadsOf
  <2> QED  BY <1>5, <2>2, <2>3, <2>5 DEF SharedInv, ProcessOK
<1> QED  BY <1>3, <1>4, <1>7, <1>8, <1>9, QuietSteps, RequestSteps DEF PushThreadNext, Inherited

\* A thread that is to sleep has found the clock too low.
LEMMA ThreadKeepsSleepers ==
  ASSUME ClocksTyped, PushShapes, SleepersAreNotified, NEW t \in Threads, PushThreadNext(t)
  PROVE  SleepersAreNotified'
<1>1. UNCHANGED <<systemClock, notifying>> /\ WantsAlone(t) /\ DOMAIN want = Threads
  BY ThreadLeaves DEF PushShapes
<1>2. pc = [u \in Threads |-> pc[u]]
  BY DEF ClocksTyped
<1>3. ASSUME NEW to \in {"run", "flush", "wait", "tick", "clock", "send"}, pc' = [pc EXCEPT ![t] = to]
      PROVE  SleepersAreNotified'
  BY <1>1, <1>2, <1>3, SleepersStay DEF WantsAlone
<1>4. ASSUME pc' = pc, pc[t] \notin {"tested", "blocked"} PROVE SleepersAreNotified'
  BY <1>1, <1>4, SleepersStay DEF WantsAlone
<1>5. ASSUME NEW r \in Rows, NEW b \in BOOLEAN, TestSystemClock(t, r, b) PROVE SleepersAreNotified'
  <2>1. /\ pc' = [pc EXCEPT ![t] = "tested"] /\ ~(systemClock[ClientOf[t]] >= StalestClock(t))
        /\ want' = [want EXCEPT ![t] = Wanted(t, r, b)]
    BY <1>5 DEF TestSystemClock, SystemClockReaches
  <2>2. want'[t].clock = StalestClock(t) /\ \A u \in Threads \ {t} : pc'[u] = pc[u] /\ want'[u] = want[u]
    BY <1>1, <1>2, <2>1 DEF Wanted, WantsAlone
  <2> QED  BY <1>1, <2>1, <2>2 DEF SleepersAreNotified
<1>6. CASE WaitSystemClock(t)
  <2>1. pc[t] = "tested" /\ pc' = [pc EXCEPT ![t] = "blocked"] /\ want' = want
    BY <1>6 DEF WaitSystemClock
  <2> QED  BY <1>1, <1>2, <2>1, SleepersStay
<1>7. CASE Inherited(t)
  <2>1. CASE \E r \in Rows : Inc(t, r) \/ ThreadInc(t, r) \/ FlushRow(t, r)
    BY <1>3, <1>4, <2>1 DEF Inc, ThreadInc, FlushRow, Ready, Flushing
  <2>2. CASE FlushThreadCache(t) \/ Clock(t)
    BY <1>3, <2>2 DEF FlushThreadCache, Clock, Flushing
  <2>3. CASE TickThread(t)
    <3>1. PICK to \in {"clock", "send", "run"} : pc' = [pc EXCEPT ![t] = to] /\ pc[t] = "tick"
      BY <2>3 DEF TickThread
    <3> QED  BY <1>3, <3>1
  <2>4. CASE TellBg(t)
    BY <1>3, <2>4 DEF TellBg
  <2> QED  BY <1>7, <2>1, <2>2, <2>3, <2>4 DEF Inherited
<1>8. ASSUME NEW r \in Rows, NEW b \in BOOLEAN, PushGetCached(t, r, b) PROVE SleepersAreNotified'
  <2>1. pc' = [pc EXCEPT ![t] = "run"] /\ pc[t] \in {"run", "woken"}
    BY <1>8 DEF PushGetCached, PastClockCheck, AtClockCheck, Ready, Woken, ReturnRow, EndGet
  <2> QED  BY <1>3, <2>1
<1>9. ASSUME NEW r \in Rows, NEW b \in BOOLEAN, PushGetRequest(t, r, b) PROVE SleepersAreNotified'
  <2>1. pc' = [pc EXCEPT ![t] = "wait"] /\ pc[t] \in {"run", "woken"}
    BY <1>9 DEF PushGetRequest, PastClockCheck, AtClockCheck, Ready, Woken
  <2> QED  BY <1>3, <2>1
<1>10. CASE PushGetReturn(t)
  <2>1. pc' = [pc EXCEPT ![t] = "run"] /\ pc[t] = "wait"
    BY <1>10 DEF PushGetReturn, ReceiveReply, ReturnRow, EndGet
  <2> QED  BY <1>3, <2>1
<1>11. CASE PushGetAgain(t) \/ PushGetAbort(t) \/ WaitPendingAsyncGet(t)
  <2>1. pc' = pc /\ pc[t] \in {"run", "wait"}
    BY <1>11 DEF PushGetAgain, PushGetAbort, WaitPendingAsyncGet, ReceiveReply, Ready, threadVars
  <2> QED  BY <1>4, <2>1
<1>12. ASSUME NEW r \in Rows, NEW b \in BOOLEAN, GetAsync(t, r, b) PROVE SleepersAreNotified'
  <2>1. pc' = pc /\ pc[t] = "run"
    BY <1>12 DEF GetAsync, Ready, threadVars
  <2> QED  BY <1>4, <2>1
<1> QED  BY <1>5, <1>6, <1>7, <1>8, <1>9, <1>10, <1>11, <1>12 DEF PushThreadNext

\* Threads keep the invariant.
LEMMA ThreadKeepsPush ==
  ASSUME PushInv, NEW t \in Threads, PushThreadNext(t)
  PROVE  PushInv'
<1>1. SharedInv /\ ClocksTyped /\ PushShapes /\ PushedInSequence /\ SystemClocksExact /\ SleepersAreNotified
  BY DEF PushInv, SharedInv
<1>2. /\ UNCHANGED <<serverToBg, rowRequests, bgClock, serverClock, systemClock, notifying, dirty>>
      /\ DOMAIN want' = Threads
  BY <1>1, ThreadLeaves DEF WantsAlone
<1>3. PushShapes' /\ PushedInSequence' /\ SystemClocksExact'
  BY <1>1, <1>2, PushedStays
<1> QED  BY <1>1, <1>3, ThreadKeepsShared, ThreadKeepsSleepers DEF PushInv

-----------------------------------------------------------------------------
(* Workers.                                                                *)

\* What is left of the types when a message leaves the queue of a thread.
LEMMA ClocksTypedAfter ==
  ASSUME ClocksTyped, NEW c \in Clients, NEW t \in Threads, NEW type, NextFromApp(c, t, type),
         UNCHANGED <<clock, pc, threadClocks>>, clientClock' \in [Clients -> Nat]
  PROVE  ClocksTyped'
<1>1. /\ DOMAIN appToBg = Threads /\ (\A u \in Threads : IsSeq(appToBg[u]))
      /\ appToBg[t] # << >> /\ appToBg' = [appToBg EXCEPT ![t] = Tail(@)]
  BY DEF ClocksTyped, NextFromApp
<1>2. IsSeq(Tail(appToBg[t]))
  BY <1>1, TailOfSeq
<1>3. DOMAIN appToBg' = Threads /\ \A u \in Threads : IsSeq(appToBg'[u])
  BY <1>1, <1>2
<1> QED  BY <1>3 DEF ClocksTyped, ThreadsOf

\* A message to the servers, or none, after which the clocks are as before.
LEMMA SharedAfterMessage ==
  ASSUME SharedInv, NEW c \in Clients, NEW s, NEW m, m.type # "OpLog",
         bgToServer' \in {bgToServer, [bgToServer EXCEPT ![c][s] = Append(@, m)]},
         UNCHANGED <<version, clientClock, bgVersion, bgClock, rowRequests>>,
         UNCHANGED <<clock, pc, threadClocks>>,
         \/ UNCHANGED appToBg
         \/ \E t \in Threads : NextFromApp(c, t, "RowRequest")
  PROVE  SharedInv'
<1>1. IInv /\ ClocksTyped /\ ProcessOK /\ ThreadsBounded
  BY DEF SharedInv
<1>2. IInv'
  <2>1. CASE bgToServer' = bgToServer
    BY <1>1, <2>1, UnchangedKeeps DEF protocolVars
  <2>2. CASE bgToServer' = [bgToServer EXCEPT ![c][s] = Append(@, m)]
    BY <1>1, <2>2, RequestKeeps
  <2> QED  BY <2>1, <2>2
<1>3. ProcessOK' /\ ClocksTyped'
  <2>1. CASE UNCHANGED appToBg
    <3>1. ProcessOK'
      BY <1>1, <2>1, ClocksStay
    <3>2. ClocksTyped'
      BY <1>1, <2>1 DEF ClocksTyped, ThreadsOf
    <3> QED  BY <3>1, <3>2
  <2>2. ASSUME NEW t \in Threads, NextFromApp(c, t, "RowRequest")
        PROVE  ProcessOK' /\ ClocksTyped'
    <3>1. AdvancesNumbered'
      BY <1>1, <2>2, AdvancesMove DEF ProcessOK
    <3>2. ProcessClocks'
      BY <1>1, ProcessClocksStay DEF ProcessOK
    <3>3. ClocksTyped'
      BY <1>1, <2>2, ClocksTypedAfter DEF ClocksTyped
    <3> QED  BY <3>1, <3>2, <3>3 DEF ProcessOK
  <2> QED  BY <2>1, <2>2
<1>4. ThreadsBounded'
  BY <1>1 DEF ThreadsBounded
<1> QED  BY <1>2, <1>3, <1>4 DEF SharedInv

\* The worker of c sends its oplogs, with the process' next clock or without.
LEMMA SharedAfterOpLogs ==
  ASSUME SharedInv, NEW c \in Clients, NEW t \in Threads, NEW isClock \in BOOLEAN,
         NextFromApp(c, t, IF isClock THEN "BgClock" ELSE "BgSendOpLog"), SendOpLogMsgs(c, isClock),
         clientClock' = IF isClock THEN [clientClock EXCEPT ![c] = @ + 1] ELSE clientClock,
         UNCHANGED <<bgVersion, bgClock, rowRequests>>, UNCHANGED <<clock, pc, threadClocks>>
  PROVE  SharedInv'
<1>1. IInv /\ ClocksTyped /\ ProcessOK /\ ThreadsBounded
  BY DEF SharedInv
<1>2. IInv'
  BY <1>1, SendOpLogsKeeps
<1>3. ProcessClocks'
  BY <1>1, ProcessClocksStay DEF ProcessOK
<1>4. AdvancesNumbered'
  <2>1. CASE isClock
    BY <1>1, <2>1, AdvancesOfBgClock DEF ProcessOK
  <2>2. CASE ~isClock
    BY <1>1, <2>2, AdvancesMove DEF ProcessOK
  <2> QED  BY <2>1, <2>2
<1>5. ClocksTyped'
  <2>1. clientClock' \in [Clients -> Nat]
    BY <1>1 DEF ClocksTyped
  <2> QED  BY <1>1, <2>1, ClocksTypedAfter
<1>6. ThreadsBounded'
  BY <1>1 DEF ThreadsBounded
<1> QED  BY <1>2, <1>3, <1>4, <1>5, <1>6 DEF SharedInv, ProcessOK

\* A step that leaves the sleepers, the servers' clocks and the channels to the
\* workers alone.
LEMMA PushPartsStay ==
  ASSUME PushShapes, PushedInSequence, SystemClocksExact, SleepersAreNotified,
         UNCHANGED <<serverToBg, rowRequests, bgClock, serverClock, systemClock, notifying, dirty>>,
         UNCHANGED <<pc, want>>
  PROVE  PushShapes' /\ PushedInSequence' /\ SystemClocksExact' /\ SleepersAreNotified'
<1>1. PushShapes' /\ PushedInSequence' /\ SystemClocksExact'
  BY PushedStays DEF PushShapes
<1>2. SleepersAreNotified'
  BY SleepersStay
<1> QED  BY <1>1, <1>2

\* What a worker takes from the channel of a server.
LEMMA MessageTaken ==
  ASSUME PushShapes, PushedInSequence, IInv, NEW c \in Clients, NEW s \in Servers, NEW type,
         NextFromServer(c, s, type)
  PROVE  LET q  == serverToBg[s][c]
             at == serverClock[c].vec[s]
         IN  /\ Head(q).type = type
             /\ DOMAIN serverToBg' = Servers /\ \A z \in Servers : DOMAIN serverToBg'[z] = Clients
             /\ \A z \in Servers, d \in Clients : IsSeq(serverToBg'[z][d])
             /\ \A z \in Servers, d \in Clients : z # s \/ d # c => serverToBg'[z][d] = serverToBg[z][d]
             /\ at \in Nat
             /\ IF type = "PushRow" /\ Head(q).isClock
                THEN Head(q).clock = at + 1 /\ Consecutive(PushClocks(serverToBg'[s][c]), at + 1, bgClock[s].min)
                ELSE Consecutive(PushClocks(serverToBg'[s][c]), at, bgClock[s].min)
<1> DEFINE q == serverToBg[s][c]
           at == serverClock[c].vec[s]
           top == bgClock[s].min
<1>1. /\ q # << >> /\ Head(q).type = type /\ serverToBg' = [serverToBg EXCEPT ![s][c] = Tail(@)]
      /\ DOMAIN serverToBg = Servers /\ \A z \in Servers : DOMAIN serverToBg[z] = Clients
      /\ \A z \in Servers, d \in Clients : IsSeq(serverToBg[z][d])
  BY DEF NextFromServer, PushShapes
<1>2. at \in Nat /\ top \in Nat
  BY DEF PushShapes, IInv, Shapes, VectorClocks
<1>3. Consecutive(PushClocks(q), at, top)
  BY DEF PushedInSequence
<1>4. IsSeq(q) /\ IsSeq(Tail(q))
  BY <1>1, TailOfSeq
<1>5. /\ serverToBg'[s][c] = Tail(q)
      /\ \A z \in Servers, d \in Clients : z # s \/ d # c => serverToBg'[z][d] = serverToBg[z][d]
      /\ DOMAIN serverToBg' = Servers /\ \A z \in Servers : DOMAIN serverToBg'[z] = Clients
  BY <1>1
<1>6. \A z \in Servers, d \in Clients : IsSeq(serverToBg'[z][d])
  BY <1>1, <1>4, <1>5
<1> HIDE DEF q, at, top
<1>7. IF Head(q).type = "PushRow" /\ Head(q).isClock
      THEN Head(q).clock = at + 1 /\ Consecutive(PushClocks(Tail(q)), at + 1, top)
      ELSE Consecutive(PushClocks(Tail(q)), at, top)
  BY <1>1, <1>2, <1>3, <1>4, ReceivePush
<1> QED  BY <1>1, <1>2, <1>5, <1>6, <1>7 DEF q, at, top

\* A worker takes a message that carries no clock.
LEMMA NoClockTaken ==
  ASSUME PushShapes, PushedInSequence, SystemClocksExact, SleepersAreNotified, IInv,
         NEW c \in Clients, NEW s \in Servers, NEW type, NextFromServer(c, s, type),
         ~(type = "PushRow" /\ Head(serverToBg[s][c]).isClock),
         UNCHANGED <<rowRequests, bgClock, serverClock, systemClock, notifying, dirty, pc, want>>
  PROVE  PushShapes' /\ PushedInSequence' /\ SystemClocksExact' /\ SleepersAreNotified'
<1>1. /\ DOMAIN serverToBg' = Servers /\ \A z \in Servers : DOMAIN serverToBg'[z] = Clients
      /\ \A z \in Servers, d \in Clients : IsSeq(serverToBg'[z][d])
      /\ \A z \in Servers, d \in Clients : z # s \/ d # c => serverToBg'[z][d] = serverToBg[z][d]
      /\ Consecutive(PushClocks(serverToBg'[s][c]), serverClock[c].vec[s], bgClock[s].min)
  BY MessageTaken
<1>2. PushShapes'
  BY <1>1 DEF PushShapes, RowsOf
<1>3. PushedInSequence'
  <2> SUFFICES ASSUME NEW z \in Servers, NEW d \in Clients
               PROVE  Consecutive(PushClocks(serverToBg'[z][d]), serverClock[d].vec[z], bgClock[z].min)
    BY DEF PushedInSequence
  <2>1. CASE z = s /\ d = c
    BY <1>1, <2>1
  <2>2. CASE z # s \/ d # c
    <3>1. serverToBg'[z][d] = serverToBg[z][d]
      BY <1>1, <2>2
    <3> QED  BY <3>1 DEF PushedInSequence
  <2> QED  BY <2>1, <2>2
<1>4. SystemClocksExact'
  BY DEF SystemClocksExact, IsMinimum
<1>5. SleepersAreNotified'
  BY SleepersStay
<1> QED  BY <1>2, <1>3, <1>4, <1>5

\* A worker takes the next clock of a server.
LEMMA ClockTaken ==
  ASSUME PushShapes, PushedInSequence, SystemClocksExact, SleepersAreNotified, IInv,
         NEW c \in Clients, NEW s \in Servers, NextFromServer(c, s, "PushRow"),
         Head(serverToBg[s][c]).isClock, TickSystemClock(c, s, Head(serverToBg[s][c])),
         UNCHANGED <<rowRequests, bgClock, dirty, pc, want>>
  PROVE  PushShapes' /\ PushedInSequence' /\ SystemClocksExact' /\ SleepersAreNotified'
<1> DEFINE vc == serverClock[c]
           k == Head(serverToBg[s][c]).clock
           new == TickUntil(vc, s, k)
           ticks == TickUntilResult(vc, s, k) # 0
<1>1. /\ DOMAIN serverToBg' = Servers /\ \A z \in Servers : DOMAIN serverToBg'[z] = Clients
      /\ \A z \in Servers, d \in Clients : IsSeq(serverToBg'[z][d])
      /\ \A z \in Servers, d \in Clients : z # s \/ d # c => serverToBg'[z][d] = serverToBg[z][d]
      /\ k = vc.vec[s] + 1
      /\ Consecutive(PushClocks(serverToBg'[s][c]), vc.vec[s] + 1, bgClock[s].min)
  BY MessageTaken
<1>2. vc \in VectorClocks(Servers) /\ IsMinimum(vc) /\ systemClock[c] = vc.min /\ vc.min \in Nat
  BY DEF PushShapes, SystemClocksExact, VectorClocks
<1>3. /\ serverClock' = [serverClock EXCEPT ![c] = new]
      /\ systemClock' = [systemClock EXCEPT ![c] = IF ticks THEN @ + 1 ELSE @]
      /\ notifying' = [notifying EXCEPT ![c] = ticks]
      /\ ~notifying[c]
  BY DEF TickSystemClock, NextFromServer
<1> HIDE DEF k
<1>4. /\ new \in VectorClocks(Servers) /\ IsMinimum(new)
      /\ \A z \in Servers : new.vec[z] = IF z = s THEN vc.vec[s] + 1 ELSE vc.vec[z]
      /\ new.min = IF ticks THEN vc.min + 1 ELSE vc.min
  <2> HIDE DEF vc
  <2>1. k = vc.vec[s] + 1 /\ vc \in VectorClocks(Servers) /\ IsMinimum(vc)
    BY <1>1, <1>2
  <2> QED  BY <2>1, NextClock
<1> HIDE DEF vc, new, ticks
<1>5. /\ serverClock \in [Clients -> VectorClocks(Servers)] /\ systemClock \in [Clients -> Nat]
      /\ DOMAIN notifying = Clients
  BY DEF PushShapes
<1>6. PushShapes'
  BY <1>1, <1>3, <1>4, <1>5 DEF PushShapes, RowsOf
<1>7. PushedInSequence'
  <2> SUFFICES ASSUME NEW z \in Servers, NEW d \in Clients
               PROVE  Consecutive(PushClocks(serverToBg'[z][d]), serverClock'[d].vec[z], bgClock[z].min)
    BY DEF PushedInSequence
  <2>1. CASE z = s /\ d = c
    <3>1. serverClock'[d].vec[z] = vc.vec[s] + 1
      BY <1>3, <1>4, <1>5, <2>1
    <3> QED  BY <1>1, <2>1, <3>1
  <2>2. CASE z # s \/ d # c
    <3>1. serverToBg'[z][d] = serverToBg[z][d]
      BY <1>1, <2>2
    <3>2. serverClock'[d].vec[z] = serverClock[d].vec[z]
      BY <1>3, <1>4, <1>5, <2>2 DEF vc
    <3> QED  BY <3>1, <3>2 DEF PushedInSequence
  <2> QED  BY <2>1, <2>2
<1>8. SystemClocksExact'
  <2> SUFFICES ASSUME NEW d \in Clients
               PROVE  IsMinimum(serverClock'[d]) /\ systemClock'[d] = serverClock'[d].min
    BY DEF SystemClocksExact
  <2>1. CASE d = c
    BY <1>2, <1>3, <1>4, <1>5, <2>1
  <2>2. CASE d # c
    <3>1. serverClock'[d] = serverClock[d] /\ systemClock'[d] = systemClock[d]
      BY <1>3, <1>5, <2>2
    <3> QED  BY <3>1 DEF SystemClocksExact
  <2> QED  BY <2>1, <2>2
<1>9. SleepersAreNotified'
  <2> SUFFICES ASSUME NEW u \in Threads, pc[u] \in {"tested", "blocked"},
                      systemClock'[ClientOf[u]] >= want[u].clock
               PROVE  notifying'[ClientOf[u]]
    BY DEF SleepersAreNotified
  <2>1. ClientOf[u] \in Clients
    BY ThreadsAssumption
  <2>2. CASE ClientOf[u] = c /\ ticks
    BY <1>3, <1>5, <2>2
  <2>3. CASE ~(ClientOf[u] = c /\ ticks)
    <3>1. systemClock'[ClientOf[u]] = systemClock[ClientOf[u]]
      BY <1>3, <1>5, <2>1, <2>3
    <3>2. notifying[ClientOf[u]]
      BY <3>1 DEF SleepersAreNotified
    <3> QED  BY <1>3, <1>5, <2>1, <3>2
  <2> QED  BY <2>2, <2>3
<1> QED  BY <1>6, <1>7, <1>8, <1>9

\* notify_all: of the threads of c none is about to sleep, as that takes the
\* mutex, and those that sleep wake up.
LEMMA NotifyAllKeeps ==
  ASSUME PushInv, NEW c \in Clients, NotifyAll(c)
  PROVE  PushInv'
<1>1. SharedInv /\ ClocksTyped /\ PushShapes /\ PushedInSequence /\ SystemClocksExact /\ SleepersAreNotified
  BY DEF PushInv, SharedInv
<1>2. /\ MutexFree(c) /\ notifying' = [notifying EXCEPT ![c] = FALSE]
      /\ pc' = [t \in Threads |-> IF ClientOf[t] = c /\ pc[t] = "blocked" THEN "woken" ELSE pc[t]]
      /\ UNCHANGED <<want, serverToBg, rowRequests, bgClock, serverClock, systemClock, dirty>>
      /\ UNCHANGED <<clock, threadClocks, appToBg>> /\ UNCHANGED protocolVars
  BY DEF NotifyAll, MayNotify, clientVars, bgVars, serverVars, channelVars, protocolVars
<1>3. SharedInv'
  <2>1. /\ pc' = [u \in Threads |-> pc'[u]]
        /\ \A u \in Threads : /\ pc'[u] = "tick" <=> pc[u] = "tick"
                              /\ pc'[u] = "clock" => pc[u] = "clock"
    BY <1>2
  <2> QED  BY <1>1, <1>2, <2>1, SharedStays
<1>4. PushShapes' /\ PushedInSequence' /\ SystemClocksExact'
  <2>1. PushShapes'
    BY <1>1, <1>2 DEF PushShapes, RowsOf
  <2>2. PushedInSequence'
    BY <1>1, <1>2 DEF PushedInSequence
  <2>3. SystemClocksExact'
    BY <1>1, <1>2 DEF SystemClocksExact, IsMinimum
  <2> QED  BY <2>1, <2>2, <2>3
<1>5. SleepersAreNotified'
  <2> SUFFICES ASSUME NEW u \in Threads, pc'[u] \in {"tested", "blocked"},
                      systemClock[ClientOf[u]] >= want[u].clock
               PROVE  notifying'[ClientOf[u]]
    BY <1>2 DEF SleepersAreNotified
  <2>1. pc[u] = "tested" => u \notin ThreadsOf(c)
    BY <1>2 DEF MutexFree
  <2>2. ClientOf[u] # c /\ pc[u] \in {"tested", "blocked"}
    BY <1>2, <2>1 DEF ThreadsOf
  <2>3. notifying[ClientOf[u]]
    BY <1>1, <2>2 DEF SleepersAreNotified
  <2> QED  BY <1>1, <1>2, <2>2, <2>3 DEF PushShapes
<1> QED  BY <1>1, <1>3, <1>4, <1>5 DEF PushInv

\* Workers keep the invariant.
LEMMA BgKeepsPush ==
  ASSUME PushInv, NEW c \in Clients, PushBgNext(c)
  PROVE  PushInv'
<1>1. /\ SharedInv /\ ClocksTyped /\ IInv
      /\ PushShapes /\ PushedInSequence /\ SystemClocksExact /\ SleepersAreNotified
  BY DEF PushInv, SharedInv
<1>2. ASSUME NEW t \in Threads, PushRowRequestAnswered(c, t) PROVE PushInv'
  <2>1. /\ NextFromApp(c, t, "RowRequest") /\ bgToServer' = bgToServer
        /\ UNCHANGED <<version, clientClock, bgVersion, bgClock, rowRequests>>
        /\ UNCHANGED <<clock, pc, threadClocks>>
        /\ UNCHANGED <<serverToBg, serverClock, systemClock, notifying, dirty, want>>
    BY <1>2 DEF PushRowRequestAnswered, NextFromThread, threadVars, clientVars, bgVars, serverVars, clockVars
  <2>2. SharedInv'
    <3>1. OpLogAck(0).type # "OpLog"
      BY DEF OpLogAck
    <3> QED  BY <1>1, <2>1, <3>1, SharedAfterMessage
  <2> QED  BY <1>1, <2>1, <2>2, PushPartsStay DEF PushInv
<1>3. ASSUME NEW t \in Threads, PushRowRequestForwarded(c, t) PROVE PushInv'
  <2> DEFINE msg == Head(appToBg[t])
             s == ServerOf[msg.row]
             m == RowRequest(msg.row, msg.clock)
  <2>1. /\ NextFromApp(c, t, "RowRequest")
        /\ bgToServer' \in {bgToServer, [bgToServer EXCEPT ![c][s] = Append(@, m)]}
        /\ UNCHANGED <<version, clientClock, bgVersion, bgClock, rowRequests>>
        /\ UNCHANGED <<clock, pc, threadClocks>>
        /\ UNCHANGED <<serverToBg, serverClock, systemClock, notifying, dirty, want>>
    BY <1>3 DEF PushRowRequestForwarded, NextFromThread, threadVars, clientVars, serverVars, pushVars, clockVars
  <2>2. m.type # "OpLog"
    BY DEF RowRequest
  <2> HIDE DEF m, s
  <2>3. SharedInv'
    BY <1>1, <2>1, <2>2, SharedAfterMessage
  <2> QED  BY <1>1, <2>1, <2>3, PushPartsStay DEF PushInv
<1>4. ASSUME NEW t \in Threads, PushHandleBgClock(c, t) \/ PushHandleBgSendOpLog(c, t) PROVE PushInv'
  <2>1. PICK isClock \in BOOLEAN :
          /\ NextFromApp(c, t, IF isClock THEN "BgClock" ELSE "BgSendOpLog") /\ SendOpLogMsgs(c, isClock)
          /\ clientClock' = IF isClock THEN [clientClock EXCEPT ![c] = @ + 1] ELSE clientClock
          /\ UNCHANGED <<bgVersion, bgClock, rowRequests>>
          /\ UNCHANGED <<clock, pc, threadClocks>>
          /\ UNCHANGED <<serverToBg, serverClock, systemClock, notifying, dirty, want>>
    <3>1. CASE PushHandleBgClock(c, t)
      BY <3>1 DEF PushHandleBgClock, PushSendOpLogs, NextFromThread, threadVars, serverVars, pushVars, clockVars
    <3>2. CASE PushHandleBgSendOpLog(c, t)
      BY <3>2 DEF PushHandleBgSendOpLog, PushSendOpLogs, NextFromThread, threadVars, serverVars, pushVars, clockVars
    <3> QED  BY <1>4, <3>1, <3>2
  <2>2. SharedInv'
    BY <1>1, <2>1, SharedAfterOpLogs
  <2> QED  BY <1>1, <2>1, <2>2, PushPartsStay DEF PushInv
<1>5. ASSUME NEW s \in Servers, PushHandleReply(c, s) PROVE PushInv'
  <2> DEFINE reply == Head(serverToBg[s][c])
             again == Mgr!ClockToRequest(mgr[c], reply.row, reply.clock)
             m == RowRequest(reply.row, again)
             z == ServerOf[reply.row]
  <2>1. /\ NextFromServer(c, s, "RowReply")
        /\ bgToServer' \in {bgToServer, [bgToServer EXCEPT ![c][z] = Append(@, m)]}
        /\ UNCHANGED <<version, clientClock, bgVersion, bgClock, rowRequests>>
        /\ UNCHANGED <<clock, pc, threadClocks, appToBg>>
        /\ UNCHANGED <<serverClock, systemClock, notifying, dirty, want>>
    BY <1>5, Zenon DEF PushHandleReply, threadVars, serverVars, clockVars
  <2>2. m.type # "OpLog"
    BY DEF RowRequest
  <2> HIDE DEF m, z
  <2>3. SharedInv'
    BY <1>1, <2>1, <2>2, SharedAfterMessage
  <2> QED  BY <1>1, <2>1, <2>3, NoClockTaken DEF PushInv
<1>6. ASSUME NEW s \in Servers, HandleServerPushRow(c, s) PROVE PushInv'
  <2> DEFINE msg == Head(serverToBg[s][c])
  <2>1. /\ NextFromServer(c, s, "PushRow")
        /\ IF msg.isClock THEN TickSystemClock(c, s, msg) ELSE UNCHANGED <<serverClock, systemClock, notifying>>
        /\ bgToServer' = bgToServer
        /\ UNCHANGED <<version, clientClock, bgVersion, bgClock, rowRequests>>
        /\ UNCHANGED <<clock, pc, threadClocks, appToBg>>
        /\ UNCHANGED <<dirty, want>>
    BY <1>6 DEF HandleServerPushRow, threadVars, serverVars, clockVars
  <2> HIDE DEF msg
  <2>2. SharedInv'
    <3>1. OpLogAck(0).type # "OpLog"
      BY DEF OpLogAck
    <3> QED  BY <1>1, <2>1, <3>1, SharedAfterMessage
  <2>3. CASE msg.isClock
    BY <1>1, <2>1, <2>2, <2>3, ClockTaken DEF PushInv, msg
  <2>4. CASE ~msg.isClock
    BY <1>1, <2>1, <2>2, <2>4, NoClockTaken DEF PushInv, msg
  <2> QED  BY <2>3, <2>4
<1>7. ASSUME NEW s \in Servers, HandleServerOpLogAck(c, s) PROVE PushInv'
  <2>1. /\ NextFromServer(c, s, "OpLogAck") /\ bgToServer' = bgToServer
        /\ UNCHANGED <<version, clientClock, bgVersion, bgClock, rowRequests>>
        /\ UNCHANGED <<clock, pc, threadClocks, appToBg>>
        /\ UNCHANGED <<serverClock, systemClock, notifying, dirty, want>>
    BY <1>7 DEF HandleServerOpLogAck, threadVars, clientVars, serverVars, pushVars, clockVars
  <2>2. SharedInv'
    <3>1. OpLogAck(0).type # "OpLog"
      BY DEF OpLogAck
    <3> QED  BY <1>1, <2>1, <3>1, SharedAfterMessage
  <2> QED  BY <1>1, <2>1, <2>2, NoClockTaken DEF PushInv
<1> QED  BY <1>2, <1>3, <1>4, <1>5, <1>6, <1>7, NotifyAllKeeps DEF PushBgNext

-----------------------------------------------------------------------------
(* Servers.                                                                *)

\* Servers handle oplogs as in SSP, but for what they send.
LEMMA PushOpLogIsHandled == \A s, c : PushHandleOpLog(s, c) => OpLogHandled(s, c)
<1> SUFFICES ASSUME NEW s, NEW c, PushHandleOpLog(s, c) PROVE OpLogHandled(s, c)
  OBVIOUS
<1> DEFINE msg == Head(bgToServer[c][s])
           clocks == ClockUntil(s, c, msg)
           changed == Changed(s, msg)
<1>1. /\ NextFromBg(s, c, "OpLog") /\ ApplyOpLogUpdateVersion(s, c, msg)
      /\ bgClock' = [bgClock EXCEPT ![s] = clocks]
      /\ UNCHANGED <<version, clientClock>>
  BY DEF PushHandleOpLog, bgVars
<1>2. CASE ClockChanges(s, c, msg)
  <2>1. ReplyAndPush(s, clocks.min, changed)
    BY <1>2 DEF PushHandleOpLog
  <2> HIDE DEF msg, clocks, changed
  <2>2. rowRequests' = [rowRequests EXCEPT ![s][clocks.min] = NoRequests]
    BY <2>1, Zenon DEF ReplyAndPush
  <2> QED  BY <1>1, <1>2, <2>2 DEF OpLogHandled, msg, clocks
<1>3. CASE ~ClockChanges(s, c, msg)
  <2>1. rowRequests' = rowRequests
    BY <1>3 DEF PushHandleOpLog
  <2> QED  BY <1>1, <1>3, <2>1 DEF OpLogHandled
<1> QED  BY <1>2, <1>3

\* The replies to the requests for a clock.
LEMMA RepliesOf ==
  ASSUME PushShapes, NEW s \in Servers, NEW d \in Clients, NEW k \in 0 .. MaxClock
  PROVE  LET q == FulfilledReplies(s, k, d)
         IN  IsSeq(q) /\ \A i \in DOMAIN q : q[i].type # "PushRow" /\ q[i].version = bgVersion'[s][d]
<1> DEFINE rows == rowRequests[s][k][d]
           n == Len(rows)
           q == FulfilledReplies(s, k, d)
           reply(i) == Reply(rows[i], k, bgVersion'[s][d], table'[s][rows[i]])
<1>1. IsSeq(rows)
  BY DEF PushShapes
<1>2. n \in Nat /\ DOMAIN rows = 1 .. n
  BY <1>1, AppendToSeq
<1>3. q = [i \in DOMAIN rows |-> reply(i)]
  BY DEF FulfilledReplies, FulfilledRowRequests
<1>4. \A i : reply(i).type = "RowReply" /\ reply(i).version = bgVersion'[s][d]
  BY DEF Reply
<1> HIDE DEF n, rows, q, reply
<1>5. q = [i \in 1 .. n |-> q[i]] /\ \A i \in 1 .. n : q[i] = reply(i)
  BY <1>2, <1>3
<1>6. IsSeq(q) /\ DOMAIN q = 1 .. n
  BY <1>2, <1>5, ListIsSeq
<1> QED  BY <1>4, <1>5, <1>6 DEF q

\* A server's minimum stays within the bound on clocks.
LEMMA MinimumsBounded ==
  ASSUME SharedInv, NEW s \in Servers
  PROVE  bgClock[s].min \in 0 .. MaxClock
<1>1. bgClock[s] \in VectorClocks(Clients) /\ IsMinimum(bgClock[s])
  BY DEF SharedInv, IInv, Shapes, ServerClocksExact
<1>2. PICK d \in Clients : bgClock[s].vec[d] = bgClock[s].min
  BY <1>1 DEF IsMinimum, VectorClocks
<1>3. bgClock[s].vec[d] <= clientClock[d]
  BY DEF SharedInv, IInv, MessagesInSequence, Consecutive
<1>4. clientClock[d] <= MaxClock /\ clientClock[d] \in Nat
  BY WorkersAreBounded DEF SharedInv, ThreadsBounded, ClocksBounded, ClocksTyped
<1>5. bgClock[s].min \in Nat /\ MaxClock \in Nat
  BY <1>1, BoundsAssumption DEF VectorClocks
<1> QED  BY <1>2, <1>3, <1>4, <1>5

\* MinimumsBounded, after a step.
LEMMA MinimumsBoundedNext ==
  (SharedInv => \A s \in Servers : bgClock[s].min \in 0 .. MaxClock)'
<1>1. SharedInv => \A s \in Servers : bgClock[s].min \in 0 .. MaxClock
  BY MinimumsBounded
<1> QED  BY <1>1, PTL

\* Servers keep what SSP and SSPPush share.
LEMMA ServerKeepsShared ==
  ASSUME SharedInv, NEW s \in Servers, NEW c \in Clients,
         RowRequestBuffered(s, c) \/ PushRowRequestReplied(s, c) \/ PushHandleOpLog(s, c)
  PROVE  SharedInv'
<1>1. IInv /\ ClocksTyped /\ ProcessOK /\ ThreadsBounded
  BY DEF SharedInv
<1>2. IInv'
  BY <1>1, HandleRequestKeeps, HandleOpLogKeeps, PushOpLogIsHandled DEF PushRowRequestReplied
<1>3. UNCHANGED <<clock, pc, threadClocks, clientClock, appToBg>>
  BY Zenon DEF RowRequestBuffered, PushRowRequestReplied, RowRequestReplied, PushHandleOpLog,
         threadVars, clientVars, bgVars
<1>4. ProcessOK'
  BY <1>1, <1>3, ClocksStay
<1>5. ClocksTyped' /\ ThreadsBounded'
  BY <1>1, <1>3 DEF ClocksTyped, ThreadsOf, ThreadsBounded
<1> QED  BY <1>2, <1>4, <1>5 DEF SharedInv

\* A server whose minimum stays sends workers messages that carry no clock.
LEMMA MinimumStays ==
  ASSUME PushShapes, PushedInSequence, SystemClocksExact, SleepersAreNotified,
         NEW s \in Servers, NEW c \in Clients, NEW m, m.type # "PushRow",
         serverToBg' \in {serverToBg, [serverToBg EXCEPT ![s][c] = Append(@, m)]},
         \A z \in Servers : bgClock'[z].min = bgClock[z].min,
         \A z \in Servers, k \in 0 .. MaxClock, d \in Clients : IsSeq(rowRequests'[z][k][d]),
         DOMAIN dirty' = Servers, \A z \in Servers : dirty'[z] \subseteq RowsOf(z),
         UNCHANGED <<pc, want, serverClock, systemClock, notifying>>
  PROVE  PushShapes' /\ PushedInSequence' /\ SystemClocksExact' /\ SleepersAreNotified'
<1> DEFINE q == serverToBg[s][c]
<1>1. IsSeq(q) /\ IsSeq(Append(q, m))
  BY AppendToSeq DEF PushShapes
<1>2. PushClocks(Append(q, m)) = PushClocks(q)
  BY <1>1, SendNoClock
<1>3. /\ DOMAIN serverToBg' = Servers /\ \A z \in Servers : DOMAIN serverToBg'[z] = Clients
      /\ \A z \in Servers, d \in Clients :
           \/ serverToBg'[z][d] = serverToBg[z][d]
           \/ z = s /\ d = c /\ serverToBg'[z][d] = Append(q, m)
  <2>1. DOMAIN serverToBg = Servers /\ \A z \in Servers : DOMAIN serverToBg[z] = Clients
    BY DEF PushShapes
  <2>2. CASE serverToBg' = serverToBg
    BY <2>1, <2>2
  <2>3. CASE serverToBg' = [serverToBg EXCEPT ![s][c] = Append(@, m)]
    BY <2>1, <2>3
  <2> QED  BY <2>2, <2>3
<1>4. \A z \in Servers, d \in Clients : PushClocks(serverToBg'[z][d]) = PushClocks(serverToBg[z][d])
  BY <1>2, <1>3
<1>5. \A z \in Servers, d \in Clients : IsSeq(serverToBg'[z][d])
  <2>1. \A z \in Servers, d \in Clients : IsSeq(serverToBg[z][d])
    BY DEF PushShapes
  <2> HIDE DEF q
  <2> QED  BY <1>1, <1>3, <2>1
<1>6. PushShapes'
  BY <1>3, <1>5 DEF PushShapes, RowsOf
<1>7. PushedInSequence'
  BY <1>4 DEF PushedInSequence
<1>8. SystemClocksExact'
  BY DEF SystemClocksExact, IsMinimum
<1>9. SleepersAreNotified'
  BY SleepersStay
<1> QED  BY <1>6, <1>7, <1>8, <1>9

\* A server handles a row request.
LEMMA RequestKeepsPush ==
  ASSUME PushInv, NEW s \in Servers, NEW c \in Clients,
         \/ RowRequestBuffered(s, c) /\ UNCHANGED pushVars
         \/ PushRowRequestReplied(s, c)
  PROVE  PushInv'
<1>1. /\ SharedInv /\ IInv
      /\ PushShapes /\ PushedInSequence /\ SystemClocksExact /\ SleepersAreNotified
  BY DEF PushInv, SharedInv
<1>2. SharedInv'
  BY <1>1, ServerKeepsShared
<1>3. /\ UNCHANGED <<bgClock, pc, want, serverClock, systemClock, notifying, dirty>>
      /\ DOMAIN dirty' = Servers /\ \A z \in Servers : dirty'[z] \subseteq RowsOf(z)
  BY <1>1, Zenon DEF RowRequestBuffered, PushRowRequestReplied, RowRequestReplied, threadVars, serverVars,
              pushVars, clockVars, PushShapes
<1>4. \A z \in Servers, k \in 0 .. MaxClock, d \in Clients : IsSeq(rowRequests'[z][k][d])
  <2>1. CASE RowRequestBuffered(s, c)
    <3> DEFINE msg == Head(bgToServer[c][s])
               at == msg.clock
    <3>1. rowRequests' = [rowRequests EXCEPT ![s][at][c] = Append(@, msg.row)]
      BY <2>1, Zenon DEF RowRequestBuffered
    <3> HIDE DEF msg, at
    <3>2. ASSUME NEW z \in Servers, NEW k \in 0 .. MaxClock, NEW d \in Clients
          PROVE  IsSeq(rowRequests'[z][k][d])
      <4>1. IsSeq(rowRequests[z][k][d])
        BY <1>1 DEF PushShapes
      <4>2. IsSeq(Append(rowRequests[z][k][d], msg.row))
        BY <4>1, AppendToSeq
      <4>3. rowRequests'[z][k][d] \in {rowRequests[z][k][d], Append(rowRequests[z][k][d], msg.row)}
        BY <1>1, <3>1 DEF IInv, Shapes
      <4> QED  BY <4>1, <4>2, <4>3
    <3> QED  BY <3>2
  <2>2. CASE UNCHANGED rowRequests
    BY <1>1, <2>2 DEF PushShapes
  <2> QED  BY <2>1, <2>2 DEF PushRowRequestReplied, RowRequestReplied, serverVars
<1>5. PICK m : /\ m.type # "PushRow"
               /\ serverToBg' \in {serverToBg, [serverToBg EXCEPT ![s][c] = Append(@, m)]}
  <2>1. CASE RowRequestBuffered(s, c)
    <3>1. OpLogAck(0).type # "PushRow" /\ serverToBg' = serverToBg
      BY <2>1, Zenon DEF RowRequestBuffered, OpLogAck
    <3> QED  BY <3>1
  <2>2. CASE RowRequestReplied(s, c)
    <3> DEFINE r == Head(bgToServer[c][s]).row
               m == Reply(r, bgClock[s].min, bgVersion[s][c], table[s][r])
    <3>1. serverToBg' = [serverToBg EXCEPT ![s][c] = Append(@, m)]
      BY <2>2 DEF RowRequestReplied
    <3>2. m.type # "PushRow"
      BY DEF Reply
    <3> HIDE DEF m
    <3> QED  BY <3>1, <3>2
  <2> QED  BY <2>1, <2>2 DEF PushRowRequestReplied
<1>6. PushShapes' /\ PushedInSequence' /\ SystemClocksExact' /\ SleepersAreNotified'
  BY <1>1, <1>3, <1>4, <1>5, MinimumStays
<1> QED  BY <1>2, <1>6 DEF PushInv

\* What a server whose minimum moves sends a worker: replies, then pushes, the
\* last with the next clock.
LEMMA MovesOn ==
  ASSUME PushShapes, PushedInSequence, NEW s \in Servers, NEW d \in Clients,
         NEW k \in 0 .. MaxClock, k = bgClock[s].min + 1, bgClock[s].min \in Nat,
         serverClock[d].vec[s] \in Nat, NEW rows, IsFiniteSet(rows)
  PROVE  LET q == serverToBg[s][d] \o FulfilledReplies(s, k, d) \o PushMsgs(s, d, k, rows)
         IN  IsSeq(q) /\ Consecutive(PushClocks(q), serverClock[d].vec[s], k)
<1> DEFINE q == serverToBg[s][d]
           replied == FulfilledReplies(s, k, d)
           pushed == PushMsgs(s, d, k, rows)
           low == serverClock[d].vec[s]
           high == bgClock[s].min
<1>1. IsSeq(q) /\ Consecutive(PushClocks(q), low, high)
  BY DEF PushShapes, PushedInSequence
<1>2. IsSeq(replied) /\ \A i \in DOMAIN replied : replied[i].type # "PushRow"
  BY RepliesOf
<1>3. /\ IsSeq(pushed) /\ Len(pushed) # 0 /\ pushed[Len(pushed)].clock = k
      /\ \A i \in DOMAIN pushed : pushed[i].type = "PushRow" /\ pushed[i].isClock = (i = Len(pushed))
  BY PushesOf
<1>4. low \in Int /\ high \in Int /\ k = high + 1
  OBVIOUS
<1> HIDE DEF q, replied, pushed, low, high
<1>5. IsSeq(q \o replied) /\ PushClocks(q \o replied) = PushClocks(q)
  BY <1>1, <1>2, ConcatToSeq, SendNoClocks
<1> DEFINE p == q \o replied
<1>6. IsSeq(p) /\ Consecutive(PushClocks(p), low, high)
  BY <1>1, <1>5
<1> HIDE DEF p
<1>7. IsSeq(p \o pushed) /\ Consecutive(PushClocks(p \o pushed), low, high + 1)
  BY <1>3, <1>4, <1>6, ConcatToSeq, SendPushes
<1> QED  BY <1>4, <1>7 DEF p, q, replied, pushed, low

\* A server handles an oplog.
LEMMA OpLogKeepsPush ==
  ASSUME PushInv, NEW s \in Servers, NEW c \in Clients, PushHandleOpLog(s, c)
  PROVE  PushInv'
<1> DEFINE msg == Head(bgToServer[c][s])
           clocks == ClockUntil(s, c, msg)
           k == clocks.min
           changed == Changed(s, msg)
           rows(d) == {r \in changed : d \in subscribed'[s][r]}
<1>1. /\ SharedInv /\ IInv
      /\ PushShapes /\ PushedInSequence /\ SystemClocksExact /\ SleepersAreNotified
  BY DEF PushInv, SharedInv
<1>2. SharedInv'
  BY <1>1, ServerKeepsShared
<1>3. /\ bgClock' = [bgClock EXCEPT ![s] = clocks]
      /\ UNCHANGED <<pc, want, serverClock, systemClock, notifying>>
      /\ DOMAIN bgClock = Servers /\ bgClock[s].min \in Nat
  BY <1>1 DEF PushHandleOpLog, threadVars, clockVars, IInv, Shapes, VectorClocks
<1>4. k = IF ClockChanges(s, c, msg) THEN bgClock[s].min + 1 ELSE bgClock[s].min
  BY <1>1, ClocksOfOpLog DEF PushHandleOpLog
<1>5. changed \subseteq RowsOf(s) /\ IsFiniteSet(changed)
  <2>1. changed \subseteq RowsOf(s) /\ RowsOf(s) \subseteq Rows
    BY <1>1 DEF Changed, PushShapes, RowsOf
  <2> QED  BY <2>1, PushAssumption, FS_Subset
<1>6. CASE ClockChanges(s, c, msg)
  <2>1. /\ rowRequests' = [rowRequests EXCEPT ![s][k] = NoRequests]
        /\ dirty' = [dirty EXCEPT ![s] = {r \in changed : subscribed'[s][r] = {}}]
        /\ serverToBg' = [serverToBg EXCEPT ![s] = [d \in Clients |->
             serverToBg[s][d] \o FulfilledReplies(s, k, d) \o PushMsgs(s, d, k, rows(d))]]
    BY <1>6, Zenon DEF PushHandleOpLog, ReplyAndPush
  <2>2. k = bgClock[s].min + 1 /\ k \in 0 .. MaxClock
    <3>1. bgClock'[s].min = k
      BY <1>3
    <3> QED  BY <1>2, <1>4, <1>6, <3>1, MinimumsBoundedNext
  <2>3. \A d \in Clients : IsFiniteSet(rows(d))
    BY <1>5, FS_Subset
  <2> DEFINE after(d) == serverToBg[s][d] \o FulfilledReplies(s, k, d) \o PushMsgs(s, d, k, rows(d))
  <2>4. ASSUME NEW d \in Clients
        PROVE  IsSeq(after(d)) /\ Consecutive(PushClocks(after(d)), serverClock[d].vec[s], k)
    <3>1. serverClock[d].vec[s] \in Nat
      BY <1>1 DEF PushShapes, VectorClocks
    <3>2. IsFiniteSet(rows(d))
      BY <2>3
    <3> HIDE DEF k, rows
    <3> QED  BY <1>1, <1>3, <2>2, <3>1, <3>2, MovesOn
  <2>5. /\ rowRequests' = [rowRequests EXCEPT ![s][k] = NoRequests]
        /\ serverToBg' = [serverToBg EXCEPT ![s] = [d \in Clients |-> after(d)]]
        /\ DOMAIN dirty' = Servers /\ \A z \in Servers : dirty'[z] \subseteq RowsOf(z)
    BY <1>1, <1>5, <2>1 DEF PushShapes
  <2>6. bgClock'[s].min = k /\ \A z \in Servers \ {s} : bgClock'[z].min = bgClock[z].min
    BY <1>3
  <2> HIDE DEF after, k, changed, rows
  <2>7. /\ DOMAIN serverToBg' = Servers /\ \A z \in Servers : DOMAIN serverToBg'[z] = Clients
        /\ \A d \in Clients : serverToBg'[s][d] = after(d)
        /\ \A z \in Servers \ {s} : serverToBg'[z] = serverToBg[z]
    BY <1>1, <2>5 DEF PushShapes
  <2>8. \A z \in Servers, j \in 0 .. MaxClock, d \in Clients : IsSeq(rowRequests'[z][j][d])
    <3> SUFFICES ASSUME NEW z \in Servers, NEW j \in 0 .. MaxClock, NEW d \in Clients
                 PROVE  IsSeq(rowRequests'[z][j][d])
      OBVIOUS
    <3>1. NoRequests[d] = << >>
      BY DEF NoRequests
    <3>2. CASE z = s /\ j = k
      <4>1. rowRequests'[z][j] = NoRequests
        BY <1>1, <2>5, <3>2 DEF IInv, Shapes
      <4> QED  BY <3>1, <4>1, EmptyIsSeq
    <3>3. CASE ~(z = s /\ j = k)
      <4>1. rowRequests'[z][j] = rowRequests[z][j]
        BY <1>1, <2>5, <3>3 DEF IInv, Shapes
      <4> QED  BY <1>1, <4>1 DEF PushShapes
    <3> QED  BY <3>2, <3>3
  <2>9. PushShapes'
    <3>1. \A z \in Servers, d \in Clients : IsSeq(serverToBg'[z][d])
      BY <1>1, <2>4, <2>7 DEF PushShapes
    <3> QED  BY <1>1, <1>3, <2>5, <2>7, <2>8, <3>1 DEF PushShapes, RowsOf
  <2>10. PushedInSequence'
    <3> SUFFICES ASSUME NEW z \in Servers, NEW d \in Clients
                 PROVE  Consecutive(PushClocks(serverToBg'[z][d]), serverClock[d].vec[z], bgClock'[z].min)
      BY <1>3 DEF PushedInSequence
    <3>1. CASE z = s
      BY <2>4, <2>6, <2>7, <3>1
    <3>2. CASE z # s
      <4>1. serverToBg'[z][d] = serverToBg[z][d] /\ bgClock'[z].min = bgClock[z].min
        BY <2>6, <2>7, <3>2
      <4> QED  BY <1>1, <4>1 DEF PushedInSequence
    <3> QED  BY <3>1, <3>2
  <2>11. SystemClocksExact'
    BY <1>1, <1>3 DEF SystemClocksExact, IsMinimum
  <2>12. SleepersAreNotified'
    BY <1>1, <1>3, SleepersStay
  <2> QED  BY <1>2, <2>9, <2>10, <2>11, <2>12 DEF PushInv
<1>7. CASE ~ClockChanges(s, c, msg)
  <2> DEFINE ack == OpLogAck(msg.version)
  <2>1. /\ serverToBg' = [serverToBg EXCEPT ![s][c] = Append(@, ack)]
        /\ dirty' = [dirty EXCEPT ![s] = changed] /\ UNCHANGED rowRequests
    BY <1>7 DEF PushHandleOpLog
  <2>2. ack.type # "PushRow"
    BY DEF OpLogAck
  <2>3. \A z \in Servers : bgClock'[z].min = bgClock[z].min
    BY <1>3, <1>4, <1>7
  <2> HIDE DEF ack, changed, k, clocks
  <2>4. DOMAIN dirty' = Servers /\ \A z \in Servers : dirty'[z] \subseteq RowsOf(z)
    BY <1>1, <1>5, <2>1 DEF PushShapes
  <2>5. \A z \in Servers, j \in 0 .. MaxClock, d \in Clients : IsSeq(rowRequests'[z][j][d])
    BY <1>1, <2>1 DEF PushShapes
  <2>6. PushShapes' /\ PushedInSequence' /\ SystemClocksExact' /\ SleepersAreNotified'
    BY <1>1, <1>3, <2>1, <2>2, <2>3, <2>4, <2>5, MinimumStays
  <2> QED  BY <1>2, <2>6 DEF PushInv
<1> QED  BY <1>6, <1>7

-----------------------------------------------------------------------------
(* The theorems.                                                           *)

\* Every step keeps the invariant.
LEMMA PushStepKeeps == PushInv /\ [PushNext]_allVars => PushInv'
<1> SUFFICES ASSUME PushInv, [PushNext]_allVars PROVE PushInv'
  OBVIOUS
<1>1. CASE UNCHANGED allVars
  <2>1. SharedInv /\ PushShapes /\ PushedInSequence /\ SystemClocksExact /\ SleepersAreNotified
    BY DEF PushInv
  <2>2. /\ UNCHANGED protocolVars /\ UNCHANGED <<clock, threadClocks, appToBg, pc, want>>
        /\ UNCHANGED <<serverToBg, rowRequests, bgClock, serverClock, systemClock, notifying, dirty>>
    BY <1>1 DEF allVars, vars, pushVars, clockVars, threadVars, clientVars, bgVars, serverVars,
                channelVars, protocolVars
  <2>3. pc = [u \in Threads |-> pc[u]]
    BY <2>1 DEF SharedInv, ClocksTyped
  <2>4. SharedInv'
    BY <2>1, <2>2, <2>3, SharedStays
  <2> QED  BY <2>1, <2>2, <2>4, PushPartsStay DEF PushInv
<1>2. ASSUME NEW s \in Servers, PushServerNext(s) PROVE PushInv'
  BY <1>2, RequestKeepsPush, OpLogKeepsPush DEF PushServerNext
<1> QED  BY <1>1, <1>2, ThreadKeepsPush, BgKeepsPush DEF PushNext

\* The invariant always holds.
LEMMA PushInvHolds == PushSpec => []PushInv
BY PushInitEstablishes, PushStepKeeps, PTL DEF PushSpec

\* The system clock of SSPPush is what its name says: although the worker
\* counts it one up for each push that moves the minimum of its servers'
\* clocks and never looks at the minimum, all servers have pushed exactly that
\* clock, whatever replies, pushes and requests came in between.
THEOREM SystemClockIsTheMinimum == PushSpec => []SystemClocksExact
BY PushInvHolds, PTL DEF PushInv

\* So no thread sleeps through the clock it waits for, for any number of
\* processes, threads, servers and rows: the mutex keeps the worker from
\* notifying between the test and the wait, and the count cannot lag.
THEOREM NobodySleeps == PushSpec => []NobodySleepsThroughTheClock
<1>1. PushInv => NobodySleepsThroughTheClock
  <2> SUFFICES ASSUME PushInv, NEW t \in Threads, pc[t] = "blocked",
                      \A s \in Servers : serverClock[ClientOf[t]].vec[s] >= want[t].clock
               PROVE  notifying[ClientOf[t]]
    BY DEF NobodySleepsThroughTheClock
  <2> DEFINE c == ClientOf[t]
  <2>1. c \in Clients
    BY ThreadsAssumption
  <2>2. /\ serverClock[c] \in VectorClocks(Servers) /\ IsMinimum(serverClock[c])
        /\ systemClock[c] = serverClock[c].min
    BY <2>1 DEF PushInv, PushShapes, SystemClocksExact
  <2>3. PICK s \in Servers : serverClock[c].vec[s] = serverClock[c].min
    BY <2>2 DEF IsMinimum, VectorClocks
  <2>4. systemClock[c] >= want[t].clock
    BY <2>2, <2>3
  <2> QED  BY <2>4 DEF PushInv, SleepersAreNotified
<1> QED  BY <1>1, PushInvHolds, PTL

\* As in SSP, each version and each clock of a worker arrives once and in
\* order, for any interleaving of clocks, flushes and requests ahead of time.
THEOREM PushedMessagesStayInSequence == PushSpec => []MessagesInSequence
BY PushInvHolds, PTL DEF PushInv, SharedInv, IInv

\* As in SSP, no request is left behind in the buffer of a server whose minimum
\* has passed it.
THEOREM PushPassesNoRequestOver == PushSpec => []BufferedRequestsWaitForTheFuture
BY PushInvHolds, PTL DEF PushInv, SharedInv, IInv

-----------------------------------------------------------------------------
(* Versions and words.                                                     *)

\* What % leaves.
LEMMA WordsDivide ==
  ASSUME NEW x \in Int
  PROVE  /\ Mgr!Word(x) \in 0 .. VersionModulus - 1
         /\ x \div VersionModulus \in Int
         /\ x = VersionModulus * (x \div VersionModulus) + Mgr!Word(x)
BY PushAssumption DEF Mgr!Word

\* One quotient and one remainder only.
LEMMA OneQuotient ==
  ASSUME NEW n \in Nat \ {0}, NEW p \in Int, NEW q \in Int,
         NEW r \in 0 .. n - 1, NEW u \in 0 .. n - 1, n * p + r = n * q + u
  PROVE  p = q /\ r = u
<1>1. n * (p - q) = u - r
  BY Z3
<1>2. ~ (p - q >= 1) /\ ~ (p - q <= -1)
  BY <1>1, Z3
<1> QED  BY <1>1, <1>2, Z3

\* The word of a number that is written by quotient and remainder.
LEMMA WordOf ==
  ASSUME NEW q \in Int, NEW r \in 0 .. VersionModulus - 1
  PROVE  Mgr!Word(VersionModulus * q + r) = r
<1> DEFINE x == VersionModulus * q + r
           p == x \div VersionModulus
           u == Mgr!Word(x)
<1>1. x \in Int /\ VersionModulus \in Nat \ {0}
  BY PushAssumption
<1> HIDE DEF x
<1>2. u \in 0 .. VersionModulus - 1 /\ p \in Int /\ x = VersionModulus * p + u
  BY <1>1, WordsDivide
<1> HIDE DEF u, p
<1>3. u = r
  BY <1>1, <1>2, OneQuotient DEF x
<1> QED  BY <1>3 DEF u, x

\* The words of the versions shortly before v.
LEMMA WordsBefore ==
  ASSUME NEW v \in Int, NEW j \in 0 .. VersionModulus - 1
  PROVE  Mgr!Word(v - j) = IF j <= Mgr!Word(v) THEN Mgr!Word(v) - j
                           ELSE Mgr!Word(v) - j + VersionModulus
<1> DEFINE q == v \div VersionModulus
           r == Mgr!Word(v)
<1>1. /\ r \in 0 .. VersionModulus - 1 /\ q \in Int /\ v = VersionModulus * q + r
      /\ VersionModulus \in Nat \ {0}
  BY WordsDivide, PushAssumption
<1> HIDE DEF q, r
<1>2. CASE j <= r
  <2>1. v - j = VersionModulus * q + (r - j) /\ r - j \in 0 .. VersionModulus - 1
    BY <1>1, <1>2
  <2> QED  BY <1>1, <1>2, <2>1, WordOf DEF r
<1>3. CASE ~(j <= r)
  <2>1. /\ r - j + VersionModulus \in 0 .. VersionModulus - 1
        /\ v - j = VersionModulus * (q - 1) + (r - j + VersionModulus)
    BY <1>1, <1>3
  <2>2. q - 1 \in Int
    BY <1>1
  <2> QED  BY <1>1, <1>3, <2>1, <2>2, WordOf DEF r
<1> QED  BY <1>2, <1>3 DEF r

\* A number of a word that is not its last one is moved by as many as the word.
LEMMA WordOfSum ==
  ASSUME NEW x \in Int, NEW d \in Int
  PROVE  Mgr!Word(Mgr!Word(x) + d) = Mgr!Word(x + d)
<1> DEFINE q == x \div VersionModulus
           r == Mgr!Word(x)
           p == (r + d) \div VersionModulus
           u == Mgr!Word(r + d)
<1>1. /\ r \in 0 .. VersionModulus - 1 /\ q \in Int /\ x = VersionModulus * q + r
      /\ VersionModulus \in Nat \ {0}
  BY WordsDivide, PushAssumption
<1>2. r + d \in Int
  BY <1>1
<1>3. u \in 0 .. VersionModulus - 1 /\ p \in Int /\ r + d = VersionModulus * p + u
  BY <1>2, WordsDivide
<1> HIDE DEF q, r, p, u
<1>4. x + d = VersionModulus * (q + p) + u /\ q + p \in Int
  BY <1>1, <1>3
<1>5. Mgr!Word(x + d) = u
  BY <1>3, <1>4, WordOf
<1> QED  BY <1>5 DEF u, r

-----------------------------------------------------------------------------
(* What a manager knows of versions.  acked is the version each server has *)
(* acknowledged, and lo the lowest of them, as numbers; v is the last      *)
(* version that was sent.                                                  *)

IsLowest(acked, lo) == (\A z \in Servers : lo <= acked[z]) /\ (\E z \in Servers : acked[z] = lo)

Window(acked, lo, v) ==
  /\ acked \in [Servers -> Int] /\ lo \in Int /\ v \in Int
  /\ IsLowest(acked, lo)
  /\ \A z \in Servers : acked[z] <= v

VersionsOf(acked, lo, v) ==
  [of |-> [z \in Servers |-> Mgr!Word(acked[z])], min |-> Mgr!Word(lo), upper |-> Mgr!Word(v)]

\* Min finds the least element.
LEMMA LeastIs ==
  ASSUME NEW S \in SUBSET Int, NEW k \in S, \A j \in S : k <= j
  PROVE  Mgr!Min(S) = k
<1>1. \A j \in S : (\A i \in S : j <= i) => j = k
  OBVIOUS
<1> QED  BY <1>1 DEF Mgr!Min

\* There is a lowest version after an acknowledgement.
LEMMA LowestExists ==
  ASSUME NEW acked \in [Servers -> Int], NEW lo \in Int, \A z \in Servers : lo <= acked[z]
  PROVE  \E low \in Int : low >= lo /\ IsLowest(acked, low)
<1> DEFINE S == {acked[z] - lo : z \in Servers}
<1>1. S \in SUBSET Nat /\ S # {}
  BY PushAssumption
<1>2. PICK k \in S : \A j \in S : k <= j
  <2> HIDE DEF S
  <2> QED  BY <1>1, NatHasLeast
<1>3. PICK z \in Servers : k = acked[z] - lo
  OBVIOUS
<1>4. \A y \in Servers : k <= acked[y] - lo
  BY <1>2
<1>5. k \in Nat
  BY <1>1
<1>6. IsLowest(acked, lo + k) /\ lo + k >= lo /\ lo + k \in Int
  BY <1>3, <1>4, <1>5 DEF IsLowest
<1> QED  BY <1>6

\* How words of outstanding versions compare.
LEMMA WordsInWindow ==
  ASSUME NEW v \in Int, NEW x \in Int, NEW lo \in Int, lo <= x, x <= v, v - lo < VersionModulus
  PROVE  /\ Mgr!Word(x) = IF v - x <= Mgr!Word(v) THEN Mgr!Word(v) - (v - x)
                          ELSE Mgr!Word(v) - (v - x) + VersionModulus
         /\ Mgr!Word(v) \in 0 .. VersionModulus - 1 /\ VersionModulus \in Nat
         /\ v - x \in 0 .. VersionModulus - 1
<1>1. VersionModulus \in Nat /\ v - x \in 0 .. VersionModulus - 1
  BY PushAssumption
<1>2. v - (v - x) = x
  OBVIOUS
<1> QED  BY <1>1, <1>2, WordsBefore, WordsDivide

\* The word of the last version determines how long before it a word was.
LEMMA OneDistance ==
  ASSUME NEW n \in Nat, NEW u \in 0 .. n - 1, NEW v \in Int, NEW x \in Int, NEW y \in Int,
         v - x \in 0 .. n - 1, v - y \in 0 .. n - 1,
         (IF v - x <= u THEN u - (v - x) ELSE u - (v - x) + n)
           = (IF v - y <= u THEN u - (v - y) ELSE u - (v - y) + n)
  PROVE  x = y
OBVIOUS

\* Outstanding versions with the same word are the same.
LEMMA WordsDiffer ==
  ASSUME NEW v \in Int, NEW lo \in Int, v - lo < VersionModulus,
         NEW x \in lo .. v, NEW y \in lo .. v, Mgr!Word(x) = Mgr!Word(y)
  PROVE  x = y
<1> DEFINE u == Mgr!Word(v)
           a == Mgr!Word(x)
           b == Mgr!Word(y)
<1>1. x \in Int /\ y \in Int /\ lo <= x /\ x <= v /\ lo <= y /\ y <= v /\ a = b
  OBVIOUS
<1>2. /\ u \in 0 .. VersionModulus - 1 /\ VersionModulus \in Nat
      /\ a = IF v - x <= u THEN u - (v - x) ELSE u - (v - x) + VersionModulus
      /\ v - x \in 0 .. VersionModulus - 1
  BY <1>1, WordsInWindow
<1>3. /\ b = IF v - y <= u THEN u - (v - y) ELSE u - (v - y) + VersionModulus
      /\ v - y \in 0 .. VersionModulus - 1
  BY <1>1, WordsInWindow
<1> HIDE DEF u, a, b
<1> QED  BY <1>1, <1>2, <1>3, OneDistance

\* The minimum that SetServerVersion finds anew is the word of the lowest
\* version, whether the versions have wrapped around or not.
LEMMA LowestWord ==
  ASSUME NEW acked, NEW low, NEW v, Window(acked, low, v), v - low < VersionModulus,
         NEW old \in Int, old <= low, v - old < VersionModulus, old # v,
         NEW words, words = {Mgr!Word(acked[z]) : z \in Servers}
  PROVE  /\ Mgr!Word(old) < Mgr!Word(v) => Mgr!Min(words) = Mgr!Word(low)
         /\ ~(Mgr!Word(old) < Mgr!Word(v)) => Mgr!Oldest(words, Mgr!Word(v)) = Mgr!Word(low)
<1> DEFINE W(x) == Mgr!Word(x)
           wrapped == {w \in words : w > Mgr!Word(v)}
           u == Mgr!Word(v)
<1>1. /\ acked \in [Servers -> Int] /\ low \in Int /\ v \in Int /\ VersionModulus \in Nat
      /\ \A z \in Servers : low <= acked[z] /\ acked[z] <= v
      /\ low <= v
  BY PushAssumption DEF Window, IsLowest
<1>2. PICK y \in Servers : acked[y] = low
  BY DEF Window, IsLowest
<1>3. /\ u \in 0 .. VersionModulus - 1
      /\ \A x \in Int : old <= x /\ x <= v =>
           /\ W(x) = IF v - x <= u THEN u - (v - x) ELSE u - (v - x) + VersionModulus
           /\ v - x \in 0 .. VersionModulus - 1
  <2>1. \A x \in Int : old <= x /\ x <= v =>
           /\ W(x) = IF v - x <= u THEN u - (v - x) ELSE u - (v - x) + VersionModulus
           /\ v - x \in 0 .. VersionModulus - 1
    BY <1>1, WordsInWindow
  <2> QED  BY <1>1, <2>1, WordsDivide
<1>4. words \in SUBSET Int /\ W(low) \in words /\ wrapped \in SUBSET Int
  <2>1. \A z \in Servers : Mgr!Word(acked[z]) \in Int
    BY <1>1, WordsDivide
  <2> QED  BY <1>2, <2>1
<1>5. \A w \in words : \E x \in Int : w = W(x) /\ low <= x /\ x <= v
  BY <1>1
<1>6. words # {}
  BY <1>4
<1> HIDE DEF W, u
<1>7. \A x \in Int : low <= x /\ x <= v =>
        /\ W(x) = IF v - x <= u THEN u - (v - x) ELSE u - (v - x) + VersionModulus
        /\ v - x \in 0 .. VersionModulus - 1
  BY <1>1, <1>3
<1>8. CASE v - low <= u
  <2>1. \A w \in words : W(low) <= w /\ ~(w > u)
    BY <1>1, <1>3, <1>5, <1>7, <1>8
  <2>2. Mgr!Min(words) = W(low)
    BY <1>4, <2>1, LeastIs
  <2>3. wrapped = {}
    BY <2>1 DEF u
  <2> QED  BY <2>2, <2>3 DEF Mgr!Oldest, W, u
<1>9. CASE ~(v - low <= u)
  <2>1. ~(W(old) < u)
    BY <1>1, <1>3, <1>9
  <2>2. W(low) \in wrapped
    <3>1. W(low) > u
      BY <1>1, <1>7, <1>9, <1>3
    <3> QED  BY <1>4, <3>1 DEF u
  <2>3. \A w \in wrapped : W(low) <= w
    <3> SUFFICES ASSUME NEW w \in wrapped PROVE W(low) <= w
      OBVIOUS
    <3>1. w \in words /\ w > u
      BY DEF u
    <3>2. PICK x \in Int : w = W(x) /\ low <= x /\ x <= v
      BY <1>5, <3>1
    <3> QED  BY <1>1, <1>3, <1>7, <1>9, <3>1, <3>2
  <2> HIDE DEF wrapped
  <2>4. Mgr!Min(wrapped) = W(low) /\ wrapped # {}
    BY <1>4, <2>2, <2>3, LeastIs
  <2> QED  BY <2>1, <2>4 DEF Mgr!Oldest, W, u, wrapped
<1> QED  BY <1>8, <1>9

\* SetServerVersion keeps track of the versions that the servers acknowledged
\* and of the lowest of them, and finds the minimum anew exactly if it moves.
LEMMA VersionIsSet ==
  ASSUME NEW acked, NEW lo, NEW v, Window(acked, lo, v), v - lo < VersionModulus,
         NEW s \in Servers, NEW x \in Int, acked[s] <= x, x <= v,
         NEW low \in Int, IsLowest([acked EXCEPT ![s] = x], low)
  PROVE  LET vers == VersionsOf(acked, lo, v)
         IN  /\ Window([acked EXCEPT ![s] = x], low, v) /\ lo <= low
             /\ Mgr!SetServerVersion(vers, s, Mgr!Word(x)) = VersionsOf([acked EXCEPT ![s] = x], low, v)
             /\ ~Mgr!RaisesMin(vers, s, Mgr!Word(x)) => low = lo
<1> DEFINE vers == VersionsOf(acked, lo, v)
           new == [acked EXCEPT ![s] = x]
           w == Mgr!Word(x)
           raises == Mgr!RaisesMin(vers, s, w)
           of == [vers.of EXCEPT ![s] = w]
           words == {of[z] : z \in DOMAIN of}
<1>1. /\ acked \in [Servers -> Int] /\ lo \in Int /\ v \in Int
      /\ \A z \in Servers : lo <= acked[z] /\ acked[z] <= v
  BY DEF Window, IsLowest
<1>2. /\ new \in [Servers -> Int] /\ new[s] = x /\ \A z \in Servers \ {s} : new[z] = acked[z]
      /\ \A z \in Servers : lo <= new[z] /\ new[z] <= v
  BY <1>1
<1>3. IsLowest(new, low) /\ lo <= low
  BY <1>2 DEF IsLowest
<1>4. Window(new, low, v)
  BY <1>1, <1>2, <1>3 DEF Window
<1>5. /\ vers.of = [z \in Servers |-> Mgr!Word(acked[z])]
      /\ vers.min = Mgr!Word(lo) /\ vers.upper = Mgr!Word(v)
  BY DEF VersionsOf
<1>6. of = [z \in Servers |-> Mgr!Word(new[z])] /\ words = {Mgr!Word(new[z]) : z \in Servers}
  <2>1. of = [z \in Servers |-> Mgr!Word(new[z])]
    BY <1>1, <1>5
  <2> QED  BY <2>1
<1>7. \A z \in Servers : Mgr!Word(acked[z]) = Mgr!Word(lo) <=> acked[z] = lo
  <2> SUFFICES ASSUME NEW z \in Servers PROVE Mgr!Word(acked[z]) = Mgr!Word(lo) => acked[z] = lo
    OBVIOUS
  <2>1. acked[z] \in lo .. v /\ lo \in lo .. v
    BY <1>1
  <2> QED  BY <1>1, <2>1, WordsDiffer
<1>8. Mgr!Word(acked[s]) = w <=> acked[s] = x
  <2>1. acked[s] \in lo .. v /\ x \in lo .. v
    BY <1>1
  <2> QED  BY <1>1, <2>1, WordsDiffer
<1>9. raises <=> acked[s] # x /\ acked[s] = lo /\ \A z \in Servers \ {s} : acked[z] # lo
  BY <1>5, <1>7, <1>8 DEF Mgr!RaisesMin, Mgr!IsUniqueMin
<1> DEFINE after == Mgr!SetServerVersion(vers, s, w)
<1>10. /\ after = [of |-> after.of, min |-> after.min, upper |-> after.upper]
       /\ after.of = of /\ after.upper = Mgr!Word(v)
       /\ ~raises => after.min = Mgr!Word(lo)
       /\ raises /\ Mgr!Word(lo) < Mgr!Word(v) => after.min = Mgr!Min(words)
       /\ raises /\ ~(Mgr!Word(lo) < Mgr!Word(v)) => after.min = Mgr!Oldest(words, Mgr!Word(v))
  <2> DEFINE min == IF ~raises THEN vers.min
                    ELSE IF vers.min < vers.upper THEN Mgr!Min(words) ELSE Mgr!Oldest(words, vers.upper)
  <2>1. after = [vers EXCEPT !.of = of, !.min = min]
    <3> HIDE DEF vers, w
    <3> QED  BY DEF Mgr!SetServerVersion
  <2> HIDE DEF of, min
  <2>2. after = [[of |-> vers.of, min |-> vers.min, upper |-> vers.upper] EXCEPT !.of = of, !.min = min]
    BY <2>1 DEF VersionsOf
  <2> HIDE DEF vers, after
  <2>3. /\ after = [of |-> after.of, min |-> after.min, upper |-> after.upper]
        /\ after.of = of /\ after.upper = vers.upper /\ after.min = min
    BY <2>2
  <2> HIDE DEF raises, words
  <2> QED  BY <1>5, <2>3 DEF min
<1> HIDE DEF vers, new, raises, of, words, w, after
<1>11. after.min = Mgr!Word(low) => after = VersionsOf(new, low, v)
  BY <1>6, <1>10 DEF VersionsOf
<1>12. CASE raises
  <2>1. v - low < VersionModulus /\ lo # v
    BY <1>1, <1>3, <1>9, <1>12, PushAssumption
  <2>2. lo \in Int /\ lo <= low /\ v - lo < VersionModulus
    BY <1>1, <1>3
  <2>3. after.min = Mgr!Word(low)
    BY <1>4, <1>6, <1>10, <1>12, <2>1, <2>2, LowestWord
  <2> QED  BY <1>3, <1>4, <1>11, <1>12, <2>3 DEF vers, new, w, raises, after
<1>13. CASE ~raises
  <2>1. \E z \in Servers : new[z] = lo
    <3>1. CASE acked[s] = x
      BY <1>2, <3>1 DEF Window, IsLowest
    <3>2. CASE acked[s] # x
      <4>1. PICK z \in Servers : acked[z] = lo
        BY DEF Window, IsLowest
      <4> QED  BY <1>2, <1>9, <1>13, <3>2, <4>1
    <3> QED  BY <3>1, <3>2
  <2>2. low = lo
    BY <1>1, <1>2, <1>3, <2>1 DEF IsLowest
  <2>3. after.min = Mgr!Word(low)
    BY <1>10, <1>13, <2>2
  <2> QED  BY <1>3, <1>4, <1>11, <2>2, <2>3 DEF vers, new, w, raises, after
<1> QED  BY <1>12, <1>13

\* Removable compares the words of outstanding versions as their numbers.
LEMMA RemovableIs ==
  ASSUME NEW acked, NEW low \in Int, NEW lo \in Int, NEW v \in Int, v - lo < VersionModulus,
         lo <= low, low <= v, NEW x \in Int, lo <= x, x <= v
  PROVE  Mgr!Removable(VersionsOf(acked, low, v), Mgr!Word(x)) <=> x <= low
<1> DEFINE u == Mgr!Word(v)
           a == Mgr!Word(x)
           b == Mgr!Word(low)
           vers == VersionsOf(acked, low, v)
<1>1. /\ u \in 0 .. VersionModulus - 1 /\ VersionModulus \in Nat
      /\ a = IF v - x <= u THEN u - (v - x) ELSE u - (v - x) + VersionModulus
      /\ v - x \in 0 .. VersionModulus - 1
  BY WordsInWindow
<1>2. /\ b = IF v - low <= u THEN u - (v - low) ELSE u - (v - low) + VersionModulus
      /\ v - low \in 0 .. VersionModulus - 1
  BY WordsInWindow
<1>3. vers.min = b /\ vers.upper = u
  BY DEF VersionsOf
<1>4. Mgr!Removable(vers, a) <=> IF b > u THEN a > u /\ a <= b ELSE a > u \/ a <= b
  BY <1>3 DEF Mgr!Removable
<1> HIDE DEF u, a, b, vers
<1>5. (IF b > u THEN a > u /\ a <= b ELSE a > u \/ a <= b) <=> x <= low
  BY <1>1, <1>2
<1> QED  BY <1>4, <1>5 DEF u, a, b, vers

-----------------------------------------------------------------------------
(* The manager.                                                            *)

\* It keeps the oplogs of the versions after the lowest acknowledged one.
Remembers(m, acked, lo, v) ==
  /\ Window(acked, lo, v)
  /\ m.versions = VersionsOf(acked, lo, v)
  /\ IsSeq(m.oplogs) /\ Len(m.oplogs) = v - lo
  /\ \A i \in 1 .. v - lo : m.oplogs[i].version = Mgr!Word(lo + i)

\* Max finds the greatest element.
LEMMA GreatestIs ==
  ASSUME NEW k \in Nat
  PROVE  Mgr!Max(0 .. k) = k
<1>1. k \in 0 .. k /\ \A j \in 0 .. k : k >= j
  OBVIOUS
<1>2. \A j \in 0 .. k : (\A i \in 0 .. k : j >= i) => j = k
  OBVIOUS
<1> QED  BY <1>1, <1>2 DEF Mgr!Max

\* What SubSeq leaves of a list when the first n elements go.
LEMMA WithoutFirst ==
  ASSUME NEW q, IsSeq(q), NEW n \in 0 .. Len(q)
  PROVE  /\ IsSeq(SubSeq(q, n + 1, Len(q))) /\ Len(SubSeq(q, n + 1, Len(q))) = Len(q) - n
         /\ \A i \in 1 .. Len(q) - n : SubSeq(q, n + 1, Len(q))[i] = q[n + i]
         /\ SubSeq(q, 1, Len(q)) = q
<1> DEFINE S == {q[i] : i \in DOMAIN q}
           t == SubSeq(q, n + 1, Len(q))
<1>1. q \in Seq(S) /\ Len(q) \in Nat /\ DOMAIN q = 1 .. Len(q)
  BY LenProperties DEF IsSeq
<1>2. \A i \in n + 1 .. Len(q) : q[i] \in S
  BY <1>1
<1>3. SubSeq(q, 1, Len(q)) = q
  <2> HIDE DEF S
  <2> QED  BY <1>1, SubSeqFull
<1> HIDE DEF S
<1>4. /\ t \in Seq(S) /\ Len(t) = Len(q) - n
      /\ \A i \in 1 .. Len(q) - n : t[i] = q[n + i]
  <2>1. n + 1 \in Int /\ Len(q) \in Int
    BY <1>1
  <2>2. /\ t \in Seq(S) /\ Len(t) = IF n + 1 <= Len(q) THEN Len(q) - (n + 1) + 1 ELSE 0
        /\ \A i \in 1 .. Len(q) - (n + 1) + 1 : t[i] = q[(n + 1) + i - 1]
    BY <1>2, <2>1, SubSeqProperties
  <2> HIDE DEF t
  <2>3. /\ Len(q) - (n + 1) + 1 = Len(q) - n
        /\ (IF n + 1 <= Len(q) THEN Len(q) - (n + 1) + 1 ELSE 0) = Len(q) - n
    <3> DEFINE k == Len(q)
    <3>1. k \in Nat /\ n \in Int /\ n <= k
      BY <1>1
    <3> HIDE DEF k
    <3>2. k - (n + 1) + 1 = k - n /\ (IF n + 1 <= k THEN k - (n + 1) + 1 ELSE 0) = k - n
      BY <3>1
    <3> QED  BY <3>1, <3>2, Zenon DEF k
  <2>4. t \in Seq(S) /\ Len(t) = Len(q) - n
    BY <2>2, <2>3, Zenon
  <2>5. ASSUME NEW i \in 1 .. Len(q) - n PROVE t[i] = q[n + i]
    <3>1. t[i] = q[(n + 1) + i - 1]
      BY <2>2, <2>3, Zenon
    <3>2. (n + 1) + i - 1 = n + i
      OBVIOUS
    <3> QED  BY <3>1, <3>2
  <2> QED  BY <2>4, <2>5
<1>5. IsSeq(t)
  <2> HIDE DEF t
  <2>1. t = [i \in 1 .. Len(q) - n |-> t[i]] /\ Len(q) - n \in Nat
    BY <1>1, <1>4, LenProperties
  <2> QED  BY <2>1, ListIsSeq
<1> QED  BY <1>3, <1>4, <1>5

\* How many of the oldest oplogs may go.
MayGo(log, vers) == {n \in 0 .. Len(log) : \A i \in 1 .. n : Mgr!Removable(vers, log[i].version)}

\* How many oplogs an acknowledgement makes superfluous.
LEMMA Superfluous ==
  ASSUME NEW log, NEW acked, NEW lo \in Int, NEW low \in Int, NEW v \in Int,
         lo <= low, low <= v, v - lo < VersionModulus,
         \A i \in 1 .. v - lo : log[i].version = Mgr!Word(lo + i),
         Len(log) = v - lo
  PROVE  MayGo(log, VersionsOf(acked, low, v)) = 0 .. low - lo
<1> DEFINE vers == VersionsOf(acked, low, v)
           P(n) == \A i \in 1 .. n : Mgr!Removable(vers, log[i].version)
<1>1. \A i \in 1 .. v - lo : Mgr!Removable(vers, log[i].version) <=> lo + i <= low
  <2> SUFFICES ASSUME NEW i \in 1 .. v - lo PROVE Mgr!Removable(vers, log[i].version) <=> lo + i <= low
    OBVIOUS
  <2>1. lo + i \in Int /\ lo <= lo + i /\ lo + i <= v /\ log[i].version = Mgr!Word(lo + i)
    OBVIOUS
  <2> QED  BY <2>1, RemovableIs
<1> HIDE DEF vers
<1>2. \A n \in 0 .. v - lo : (\A i \in 1 .. n : Mgr!Removable(vers, log[i].version)) <=> n <= low - lo
  <2> SUFFICES ASSUME NEW n \in 0 .. v - lo
               PROVE  (\A i \in 1 .. n : Mgr!Removable(vers, log[i].version)) <=> n <= low - lo
    OBVIOUS
  <2>1. \A i \in 1 .. n : Mgr!Removable(vers, log[i].version) <=> lo + i <= low
    BY <1>1
  <2>2. n > 0 => n \in 1 .. n
    OBVIOUS
  <2>3. ASSUME n <= low - lo PROVE \A i \in 1 .. n : Mgr!Removable(vers, log[i].version)
    BY <2>1, <2>3
  <2>4. ASSUME \A i \in 1 .. n : Mgr!Removable(vers, log[i].version), n > 0 PROVE n <= low - lo
    <3>1. lo + n <= low
      BY <2>1, <2>2, <2>4
    <3> QED  BY <3>1
  <2> QED  BY <2>3, <2>4
<1>3. \A n \in 0 .. v - lo : P(n) <=> n <= low - lo
  BY <1>2
<1>4. MayGo(log, vers) = {n \in 0 .. v - lo : P(n)}
  BY DEF MayGo
<1> HIDE DEF P, vers
<1>5. {n \in 0 .. v - lo : P(n)} = 0 .. low - lo
  BY <1>3
<1> QED  BY <1>4, <1>5 DEF vers

\* An acknowledgement moves the version of its server, and the oplogs up to the
\* lowest version go.
LEMMA AcknowledgementKeeps ==
  ASSUME NEW m, {"oplogs", "versions"} \subseteq DOMAIN m,
         NEW acked, NEW lo, NEW v, Remembers(m, acked, lo, v), v - lo < VersionModulus,
         NEW s \in Servers, NEW x \in Int, acked[s] <= x, x <= v,
         NEW low \in Int, IsLowest([acked EXCEPT ![s] = x], low)
  PROVE  LET new == Mgr!ServerAcknowledgeVersion(m, s, Mgr!Word(x))
         IN  /\ DOMAIN new = DOMAIN m
             /\ Remembers(new, [acked EXCEPT ![s] = x], low, v)
             /\ lo <= low /\ new.oplogs = SubSeq(m.oplogs, low - lo + 1, v - lo)
<1> DEFINE w == Mgr!Word(x)
           now == [acked EXCEPT ![s] = x]
           vers == Mgr!SetServerVersion(m.versions, s, w)
           raises == Mgr!RaisesMin(m.versions, s, w)
           S == MayGo(m.oplogs, vers)
           oplogs == IF raises THEN SubSeq(m.oplogs, Mgr!Max(S) + 1, Len(m.oplogs)) ELSE m.oplogs
           new == Mgr!ServerAcknowledgeVersion(m, s, w)
<1>1. /\ Window(acked, lo, v) /\ m.versions = VersionsOf(acked, lo, v)
      /\ IsSeq(m.oplogs) /\ Len(m.oplogs) = v - lo
      /\ \A i \in 1 .. v - lo : m.oplogs[i].version = Mgr!Word(lo + i)
      /\ lo \in Int /\ v \in Int
  BY DEF Remembers, Window
<1>2. /\ Window(now, low, v) /\ lo <= low
      /\ vers = VersionsOf(now, low, v)
      /\ ~raises => low = lo
  <2>1. /\ Window(now, low, v) /\ lo <= low
        /\ Mgr!SetServerVersion(VersionsOf(acked, lo, v), s, w) = VersionsOf(now, low, v)
        /\ ~Mgr!RaisesMin(VersionsOf(acked, lo, v), s, w) => low = lo
    BY <1>1, VersionIsSet
  <2> QED  BY <1>1, <2>1
<1>3. low <= v
  BY <1>2 DEF Window, IsLowest
<1>4. new = [[m EXCEPT !.versions = vers] EXCEPT !.oplogs = oplogs]
  <2> HIDE DEF w
  <2> QED  BY DEF Mgr!ServerAcknowledgeVersion, MayGo
<1> HIDE DEF new, vers, oplogs, raises, S, now
<1>5. DOMAIN new = DOMAIN m /\ new.versions = vers /\ new.oplogs = oplogs
  BY <1>4
<1>6. S = 0 .. low - lo
  BY <1>1, <1>2, <1>3, Superfluous DEF S
<1>7. Mgr!Max(S) = low - lo
  BY <1>1, <1>2, <1>6, GreatestIs
<1>8. oplogs = SubSeq(m.oplogs, low - lo + 1, v - lo)
  <2>1. CASE raises
    BY <1>1, <1>7, <2>1 DEF oplogs
  <2>2. CASE ~raises
    <3>1. low - lo + 1 = 1 /\ 0 \in 0 .. Len(m.oplogs)
      BY <1>1, <1>2, <1>3, <2>2
    <3>2. SubSeq(m.oplogs, 1, Len(m.oplogs)) = m.oplogs
      BY <1>1, <3>1, WithoutFirst
    <3> QED  BY <1>1, <2>2, <3>1, <3>2 DEF oplogs
  <2> QED  BY <2>1, <2>2
<1>9. /\ IsSeq(oplogs) /\ Len(oplogs) = v - low
      /\ \A i \in 1 .. v - low : oplogs[i].version = Mgr!Word(low + i)
  <2> DEFINE n == low - lo
             q == m.oplogs
  <2>1. n \in 0 .. Len(q) /\ Len(q) - n = v - low /\ oplogs = SubSeq(q, n + 1, Len(q))
    BY <1>1, <1>2, <1>3, <1>8
  <2>2. \A i \in 1 .. v - low : n + i \in 1 .. v - lo /\ lo + (n + i) = low + i
    BY <1>1, <1>2, <1>3
  <2> HIDE DEF n
  <2>3. IsSeq(oplogs) /\ Len(oplogs) = v - low /\ \A i \in 1 .. v - low : oplogs[i] = q[n + i]
    <3> HIDE DEF q
    <3>1. IsSeq(q)
      BY <1>1 DEF q
    <3> QED  BY <2>1, <3>1, WithoutFirst
  <2>4. \A i \in 1 .. v - low : oplogs[i].version = Mgr!Word(low + i)
    BY <1>1, <2>2, <2>3
  <2> QED  BY <2>3, <2>4
<1>10. Remembers(new, now, low, v)
  BY <1>2, <1>5, <1>9 DEF Remembers
<1> QED  BY <1>2, <1>5, <1>8, <1>10 DEF new, now

\* An acknowledgement decides the same wherever the versions start.
LEMMA AckFields ==
  ASSUME NEW a, NEW b, NEW s, NEW w
  PROVE  LET new == Mgr!ServerAcknowledgeVersion([oplogs |-> a, versions |-> b], s, w)
         IN  new = [oplogs |-> new.oplogs, versions |-> new.versions]
<1> DEFINE m == [oplogs |-> a, versions |-> b]
           new == Mgr!ServerAcknowledgeVersion(m, s, w)
<1>1. \E c, d : new = [[m EXCEPT !.versions = c] EXCEPT !.oplogs = d]
  <2> HIDE DEF m
  <2> QED  BY DEF Mgr!ServerAcknowledgeVersion
<1>2. PICK c, d : new = [[m EXCEPT !.versions = c] EXCEPT !.oplogs = d]
  BY <1>1
<1> HIDE DEF new
<1>3. new = [oplogs |-> new.oplogs, versions |-> new.versions]
  BY <1>2
<1> QED  BY <1>3 DEF new

-----------------------------------------------------------------------------
(* What the worker remembers and what is on its way to it.                 *)

\* The messages of a channel carry versions from low to high, in order.
Ordered(q, low, high) ==
  \A i \in DOMAIN q :
    /\ q[i].version \in Int /\ low <= q[i].version /\ q[i].version <= high
    /\ \A j \in DOMAIN q : i < j => q[i].version <= q[j].version

\* The first message leaves.
LEMMA OrderedTail ==
  ASSUME NEW q, IsSeq(q), q # << >>, NEW low \in Int, NEW high \in Int, Ordered(q, low, high)
  PROVE  /\ Head(q).version \in Int /\ low <= Head(q).version /\ Head(q).version <= high
         /\ Ordered(Tail(q), Head(q).version, high)
<1> DEFINE t == Tail(q)
<1>1. /\ Len(q) \in Nat \ {0} /\ DOMAIN q = 1 .. Len(q) /\ DOMAIN t = 1 .. Len(q) - 1
      /\ (\A i \in 1 .. Len(q) - 1 : t[i] = q[i + 1]) /\ Head(q) = q[1]
  BY TailOfSeq
<1> DEFINE n == Len(q)
<1> HIDE DEF t, n
<1>2. 1 \in DOMAIN q /\ \A i \in DOMAIN t : i + 1 \in DOMAIN q /\ 1 < i + 1 /\ t[i] = q[i + 1]
  <2>1. n \in Nat \ {0} /\ DOMAIN q = 1 .. n /\ DOMAIN t = 1 .. n - 1 /\ \A i \in 1 .. n - 1 : t[i] = q[i + 1]
    BY <1>1 DEF n
  <2> QED  BY <2>1
<1>3. \A i, j \in DOMAIN t : i < j => i + 1 < j + 1
  BY <1>1
<1> QED  BY <1>1, <1>2, <1>3 DEF Ordered, t

\* A message of the latest version comes behind.
LEMMA OrderedAppend ==
  ASSUME NEW q, IsSeq(q), NEW low \in Int, NEW high \in Int, Ordered(q, low, high),
         NEW new \in Int, low <= high, high <= new, NEW m, m.version = new
  PROVE  Ordered(Append(q, m), low, new)
<1> DEFINE a == Append(q, m)
           n == Len(q)
<1>1. /\ n \in Nat /\ DOMAIN q = 1 .. n /\ DOMAIN a = 1 .. n + 1
      /\ (\A i \in 1 .. n : a[i] = q[i]) /\ a[n + 1] = m
  BY AppendToSeq
<1> HIDE DEF a, n
<1>2. \A i \in DOMAIN a : i = n + 1 \/ i \in 1 .. n
  BY <1>1
<1> QED  BY <1>1, <1>2 DEF Ordered, a

\* Several of them.
LEMMA OrderedConcat ==
  ASSUME NEW p, IsSeq(p), NEW low \in Int, NEW high \in Int, Ordered(p, low, high),
         NEW new \in Int, low <= high, high <= new,
         NEW q, IsSeq(q), \A i \in DOMAIN q : q[i].version = new
  PROVE  Ordered(p \o q, low, new)
<1> DEFINE a == p \o q
           m == Len(p)
           n == Len(q)
<1>1. /\ m \in Nat /\ DOMAIN p = 1 .. m /\ n \in Nat /\ DOMAIN q = 1 .. n
      /\ DOMAIN a = 1 .. m + n
      /\ \A i \in 1 .. m : a[i] = p[i]
      /\ \A i \in 1 .. n : a[m + i] = q[i]
  <2> HIDE DEF a, m, n
  <2>1. a = p \o q /\ m = Len(p) /\ n = Len(q)
    BY DEF a, m, n
  <2> QED  BY <2>1, ConcatIs
<1> HIDE DEF a, m, n
<1>2. ASSUME NEW i \in DOMAIN a, i \notin 1 .. m PROVE i > m /\ a[i].version = new
  <2>1. i - m \in 1 .. n /\ m + (i - m) = i
    BY <1>1, <1>2
  <2> QED  BY <1>1, <2>1
<1>3. \A i \in DOMAIN a : i \in 1 .. m \/ a[i].version = new
  BY <1>2
<1>4. \A i \in 1 .. m : a[i].version \in Int /\ low <= a[i].version /\ a[i].version <= new
  BY <1>1 DEF Ordered
<1>5. \A i \in 1 .. m, j \in 1 .. m : i < j => a[i].version <= a[j].version
  BY <1>1 DEF Ordered
<1>6. \A i \in DOMAIN a, j \in DOMAIN a : i < j => a[i].version <= a[j].version
  <2> SUFFICES ASSUME NEW i \in DOMAIN a, NEW j \in DOMAIN a, i < j PROVE a[i].version <= a[j].version
    OBVIOUS
  <2>1. CASE j \in 1 .. m
    <3>1. i \in 1 .. m
      BY <1>1, <2>1
    <3> QED  BY <1>5, <2>1, <3>1
  <2>2. CASE j \notin 1 .. m
    BY <1>2, <1>3, <1>4, <2>2
  <2> QED  BY <2>1, <2>2
<1> QED  BY <1>3, <1>4, <1>6 DEF Ordered, a

\* What worker c remembers, by the versions its servers have acknowledged; from
\* each server come versions from there on.
Acknowledges(c, acked, lo) ==
  /\ Remembers(mgr[c], acked, lo, version[c] - 1)
  /\ \A s \in Servers : acked[s] <= bgVersion[s][c] /\ Ordered(serverToBg[s][c], acked[s], bgVersion[s][c])

OpLogsAreRemembered ==
  /\ DOMAIN mgr = Clients
  /\ \A c \in Clients : {"oplogs", "versions"} \subseteq DOMAIN mgr[c]
  /\ \A c \in Clients : \E acked, lo : Acknowledges(c, acked, lo)

\* The header of ServerVersionMgr: fewer versions than words are outstanding.
FewVersions == \A c \in Clients : Len(mgr[c].oplogs) < VersionModulus

\* Of a worker's versions none is at a server before it was sent.
LEMMA VersionsAreSent ==
  ASSUME PushInv, NEW c \in Clients
  PROVE  version[c] \in Int /\ \A s \in Servers : bgVersion[s][c] \in Int /\ bgVersion[s][c] <= version[c] - 1
BY DEF PushInv, SharedInv, IInv, Shapes, MessagesInSequence, Consecutive

-----------------------------------------------------------------------------
(* Every step keeps it so, as long as fewer versions than words are        *)
(* outstanding.                                                            *)

\* At the start nothing is outstanding.
LEMMA NothingOutstanding == PushInit => OpLogsAreRemembered
<1> SUFFICES ASSUME PushInit PROVE OpLogsAreRemembered
  OBVIOUS
<1>1. /\ mgr = [c \in Clients |-> Mgr!EmptyMgr(Rows, Servers)]
      /\ version = [c \in Clients |-> 0] /\ bgVersion = [s \in Servers |-> [c \in Clients |-> -1]]
      /\ serverToBg = [s \in Servers |-> [c \in Clients |-> << >>]]
  BY DEF PushInit, Start
<1>2. DOMAIN mgr = Clients /\ \A c \in Clients : {"oplogs", "versions"} \subseteq DOMAIN mgr[c]
  BY <1>1 DEF Mgr!EmptyMgr
<1>3. ASSUME NEW c \in Clients PROVE Acknowledges(c, [s \in Servers |-> -1], -1)
  <2> DEFINE acked == [s \in Servers |-> -1]
  <2>1. Window(acked, -1, -1)
    BY PushAssumption DEF Window, IsLowest
  <2>2. mgr[c].versions = VersionsOf(acked, -1, -1) /\ mgr[c].oplogs = << >>
    BY <1>1 DEF Mgr!EmptyMgr, Mgr!StartVersions, VersionsOf
  <2>3. version[c] - 1 = -1
    BY <1>1
  <2>4. Remembers(mgr[c], acked, -1, version[c] - 1)
    <3>1. Len(<< >>) = 0 /\ 1 .. -1 - (-1) = {}
      OBVIOUS
    <3> QED  BY <2>1, <2>2, <2>3, <3>1, EmptyIsSeq DEF Remembers
  <2>5. \A s \in Servers : acked[s] <= bgVersion[s][c] /\ Ordered(serverToBg[s][c], acked[s], bgVersion[s][c])
    BY <1>1 DEF Ordered
  <2> QED  BY <2>4, <2>5 DEF Acknowledges
<1> QED  BY <1>2, <1>3 DEF OpLogsAreRemembered

\* A step that leaves alone what the managers remember, and what it is about.
LEMMA RememberedStays ==
  ASSUME OpLogsAreRemembered, UNCHANGED <<version, bgVersion, serverToBg>>,
         DOMAIN mgr' = Clients,
         \A c \in Clients : /\ {"oplogs", "versions"} \subseteq DOMAIN mgr'[c]
                            /\ mgr'[c].oplogs = mgr[c].oplogs /\ mgr'[c].versions = mgr[c].versions
  PROVE  OpLogsAreRemembered'
<1>1. ASSUME NEW c \in Clients PROVE \E acked, lo : Acknowledges(c, acked, lo)'
  <2>1. PICK acked, lo : Acknowledges(c, acked, lo)
    BY DEF OpLogsAreRemembered
  <2>2. Acknowledges(c, acked, lo)'
    BY <2>1 DEF Acknowledges, Remembers
  <2> QED  BY <2>2
<1> QED  BY <1>1 DEF OpLogsAreRemembered

\* The worker of c sends a version and keeps its oplog.
LEMMA OpLogIsKept ==
  ASSUME OpLogsAreRemembered, PushInv, NEW c \in Clients, NEW log,
         mgr' = [mgr EXCEPT ![c] = Mgr!AddOpLog(@, Mgr!Word(version[c]), log)],
         version' = [version EXCEPT ![c] = @ + 1], UNCHANGED <<bgVersion, serverToBg>>
  PROVE  OpLogsAreRemembered'
<1>1. /\ DOMAIN mgr = Clients /\ DOMAIN version = Clients
      /\ \A d \in Clients : {"oplogs", "versions"} \subseteq DOMAIN mgr[d]
  BY DEF OpLogsAreRemembered, PushInv, SharedInv, IInv, Shapes
<1> DEFINE m == mgr[c]
           entry == [version |-> Mgr!Word(version[c]), updates |-> log]
<1>2. /\ DOMAIN mgr'[c] = DOMAIN m /\ mgr'[c].oplogs = Append(m.oplogs, entry)
      /\ mgr'[c].versions = Mgr!IncVersionUpperBound(m.versions)
      /\ version'[c] = version[c] + 1
      /\ \A d \in Clients \ {c} : mgr'[d] = mgr[d] /\ version'[d] = version[d]
  BY <1>1 DEF Mgr!AddOpLog
<1>3. DOMAIN mgr' = Clients /\ \A d \in Clients : {"oplogs", "versions"} \subseteq DOMAIN mgr'[d]
  BY <1>1, <1>2
<1> HIDE DEF m, entry
<1>4. \E acked, lo : Acknowledges(c, acked, lo)'
  <2>1. PICK acked, lo : Acknowledges(c, acked, lo)
    BY DEF OpLogsAreRemembered
  <2> DEFINE v == version[c] - 1
  <2>2. /\ Window(acked, lo, v) /\ m.versions = VersionsOf(acked, lo, v)
        /\ IsSeq(m.oplogs) /\ Len(m.oplogs) = v - lo
        /\ \A i \in 1 .. v - lo : m.oplogs[i].version = Mgr!Word(lo + i)
        /\ v \in Int /\ lo \in Int /\ version[c] = v + 1 /\ version'[c] - 1 = v + 1
    BY <1>2, <2>1, VersionsAreSent DEF Acknowledges, Remembers, Window, m
  <2>3. entry.version = Mgr!Word(v + 1)
    BY <2>2 DEF entry
  <2> HIDE DEF v
  <2>4. Window(acked, lo, v + 1)
    BY <2>2 DEF Window
  <2>5. mgr'[c].versions = VersionsOf(acked, lo, v + 1)
    <3>1. Mgr!Word(Mgr!Word(v) + 1) = Mgr!Word(v + 1)
      BY <2>2, WordOfSum
    <3>2. Mgr!IncVersionUpperBound(VersionsOf(acked, lo, v)) = VersionsOf(acked, lo, v + 1)
      <4> DEFINE a == [z \in Servers |-> Mgr!Word(acked[z])]
                 b == Mgr!Word(lo)
                 e == Mgr!Word(v)
                 u == Mgr!Word(v + 1)
                 r == Mgr!IncVersionUpperBound(VersionsOf(acked, lo, v))
      <4>1. r = [[of |-> a, min |-> b, upper |-> e] EXCEPT !.upper = u]
        BY <3>1 DEF Mgr!IncVersionUpperBound, VersionsOf
      <4> HIDE DEF a, b, e, u, r
      <4>2. r = [of |-> r.of, min |-> r.min, upper |-> r.upper] /\ r.of = a /\ r.min = b /\ r.upper = u
        BY <4>1
      <4>3. r = [of |-> a, min |-> b, upper |-> u]
        BY <4>2
      <4> QED  BY <4>3 DEF a, b, u, r, VersionsOf
    <3> QED  BY <1>2, <2>2, <3>2
  <2>6. /\ IsSeq(mgr'[c].oplogs) /\ Len(mgr'[c].oplogs) = v + 1 - lo
        /\ \A i \in 1 .. v + 1 - lo : mgr'[c].oplogs[i].version = Mgr!Word(lo + i)
    <3> DEFINE q == m.oplogs
               a == Append(q, entry)
               n == v - lo
    <3>1. IsSeq(q) /\ Len(q) = n /\ n \in Nat /\ mgr'[c].oplogs = a
      <4>1. Len(q) \in Nat
        BY <2>2, AppendToSeq
      <4> QED  BY <1>2, <2>2, <4>1
    <3>2. /\ IsSeq(a) /\ DOMAIN a = 1 .. n + 1
          /\ (\A i \in 1 .. n : a[i] = q[i]) /\ a[n + 1] = entry
      <4> HIDE DEF q, n
      <4> QED  BY <3>1, AppendToSeq
    <3>3. Len(a) = n + 1
      <4> HIDE DEF a, n
      <4> QED  BY <3>1, <3>2, AppendToSeq
    <3>4. lo + (n + 1) = v + 1 /\ n + 1 = v + 1 - lo
      BY <2>2
    <3>5. \A i \in 1 .. n : q[i].version = Mgr!Word(lo + i)
      BY <2>2
    <3> HIDE DEF q, a, n
    <3>6. \A i \in 1 .. n + 1 : a[i].version = Mgr!Word(lo + i)
      <4>1. a[n + 1].version = Mgr!Word(lo + (n + 1))
        BY <2>3, <3>2, <3>4
      <4>2. \A i \in 1 .. n + 1 : i \in 1 .. n \/ i = n + 1
        BY <3>1
      <4> QED  BY <3>2, <3>5, <4>1, <4>2
    <3> QED  BY <3>1, <3>2, <3>3, <3>4, <3>6
  <2>7. Remembers(mgr'[c], acked, lo, version'[c] - 1)
    BY <2>2, <2>4, <2>5, <2>6 DEF Remembers
  <2>8. Acknowledges(c, acked, lo)'
    BY <2>1, <2>7 DEF Acknowledges
  <2> QED  BY <2>8
<1>5. ASSUME NEW d \in Clients, d # c PROVE \E acked, lo : Acknowledges(d, acked, lo)'
  <2>1. PICK acked, lo : Acknowledges(d, acked, lo)
    BY DEF OpLogsAreRemembered
  <2>2. Acknowledges(d, acked, lo)'
    BY <1>2, <1>5, <2>1 DEF Acknowledges
  <2> QED  BY <2>2
<1> QED  BY <1>3, <1>4, <1>5 DEF OpLogsAreRemembered

\* The worker of c takes a message of s, and forgets what all have acknowledged.
LEMMA MessageIsAcknowledged ==
  ASSUME OpLogsAreRemembered, PushInv, FewVersions, NEW c \in Clients, NEW s \in Servers, NEW type,
         NextFromServer(c, s, type), UNCHANGED <<version, bgVersion>>,
         DOMAIN mgr' = Clients, \A d \in Clients \ {c} : mgr'[d] = mgr[d],
         LET new == Acknowledged(c, s, Head(serverToBg[s][c]))
         IN  /\ DOMAIN mgr'[c] = DOMAIN new
             /\ mgr'[c].oplogs = new.oplogs /\ mgr'[c].versions = new.versions
  PROVE  OpLogsAreRemembered'
<1> DEFINE q == serverToBg[s][c]
           new == Acknowledged(c, s, Head(q))
           v == version[c] - 1
<1>1. PICK acked, lo : Acknowledges(c, acked, lo)
  BY DEF OpLogsAreRemembered
<1>2. /\ q # << >> /\ serverToBg' = [serverToBg EXCEPT ![s][c] = Tail(@)] /\ IsSeq(q)
      /\ DOMAIN serverToBg = Servers /\ \A z \in Servers : DOMAIN serverToBg[z] = Clients
  BY DEF NextFromServer, PushInv, PushShapes
<1>3. /\ serverToBg'[s][c] = Tail(q)
      /\ \A z \in Servers, d \in Clients : z # s \/ d # c => serverToBg'[z][d] = serverToBg[z][d]
  BY <1>2
<1>4. /\ Remembers(mgr[c], acked, lo, v) /\ Window(acked, lo, v)
      /\ \A z \in Servers : acked[z] <= bgVersion[z][c] /\ Ordered(serverToBg[z][c], acked[z], bgVersion[z][c])
      /\ Len(mgr[c].oplogs) = v - lo
  BY <1>1 DEF Acknowledges, Remembers
<1>5. v \in Int /\ \A z \in Servers : bgVersion[z][c] \in Int /\ bgVersion[z][c] <= v
  BY VersionsAreSent
<1>6. /\ acked \in [Servers -> Int] /\ lo \in Int /\ (\A z \in Servers : lo <= acked[z])
      /\ v - lo < VersionModulus
  BY <1>4 DEF Window, IsLowest, FewVersions
<1> HIDE DEF q, v
<1>7. PICK x \in Int : /\ x = Head(q).version /\ acked[s] <= x /\ x <= bgVersion[s][c]
                       /\ Ordered(Tail(q), x, bgVersion[s][c])
  <2>1. acked[s] \in Int /\ bgVersion[s][c] \in Int /\ Ordered(q, acked[s], bgVersion[s][c])
    BY <1>4, <1>5, <1>6 DEF q
  <2> QED  BY <1>2, <2>1, OrderedTail
<1> DEFINE now == [acked EXCEPT ![s] = x]
<1>8. /\ now \in [Servers -> Int] /\ now[s] = x /\ (\A z \in Servers \ {s} : now[z] = acked[z])
      /\ \A z \in Servers : lo <= now[z]
  BY <1>6, <1>7
<1>9. PICK low \in Int : IsLowest(now, low)
  BY <1>6, <1>8, LowestExists
<1>10. x <= v
  BY <1>5, <1>7
<1>11. {"oplogs", "versions"} \subseteq DOMAIN mgr[c] /\ DOMAIN mgr = Clients
  BY DEF OpLogsAreRemembered
<1>12. new = Mgr!ServerAcknowledgeVersion(mgr[c], s, Mgr!Word(x))
  BY <1>7 DEF Acknowledged, q
<1>13. DOMAIN new = DOMAIN mgr[c] /\ Remembers(new, now, low, v)
  <2>1. /\ DOMAIN Mgr!ServerAcknowledgeVersion(mgr[c], s, Mgr!Word(x)) = DOMAIN mgr[c]
        /\ Remembers(Mgr!ServerAcknowledgeVersion(mgr[c], s, Mgr!Word(x)), now, low, v)
    <3> DEFINE m == mgr[c]
    <3>1. /\ {"oplogs", "versions"} \subseteq DOMAIN m /\ Remembers(m, acked, lo, v)
          /\ v - lo < VersionModulus /\ x \in Int /\ acked[s] <= x /\ x <= v /\ low \in Int
      BY <1>4, <1>6, <1>7, <1>9, <1>10, <1>11
    <3> HIDE DEF m
    <3> QED  BY <1>9, <3>1, AcknowledgementKeeps DEF m
  <2> QED  BY <1>12, <2>1
<1>14. Remembers(mgr'[c], now, low, v) /\ {"oplogs", "versions"} \subseteq DOMAIN mgr'[c]
  <2>1. DOMAIN mgr'[c] = DOMAIN new /\ mgr'[c].oplogs = new.oplogs /\ mgr'[c].versions = new.versions
    BY DEF q
  <2> HIDE DEF new
  <2> QED  BY <1>11, <1>13, <2>1 DEF Remembers
<1>15. Acknowledges(c, now, low)'
  <2>1. \A z \in Servers : now[z] <= bgVersion[z][c] /\ Ordered(serverToBg'[z][c], now[z], bgVersion[z][c])
    <3> SUFFICES ASSUME NEW z \in Servers
                 PROVE  now[z] <= bgVersion[z][c] /\ Ordered(serverToBg'[z][c], now[z], bgVersion[z][c])
      OBVIOUS
    <3>1. CASE z = s
      BY <1>3, <1>7, <1>8, <3>1
    <3>2. CASE z # s
      <4>1. now[z] = acked[z] /\ serverToBg'[z][c] = serverToBg[z][c]
        BY <1>3, <1>8, <3>2
      <4> QED  BY <1>4, <4>1
    <3> QED  BY <3>1, <3>2
  <2>2. version'[c] - 1 = v /\ bgVersion' = bgVersion
    BY DEF v
  <2> HIDE DEF now
  <2> QED  BY <1>14, <2>1, <2>2 DEF Acknowledges
<1>16. ASSUME NEW d \in Clients, d # c PROVE \E a, l : Acknowledges(d, a, l)'
  <2>1. PICK a, l : Acknowledges(d, a, l)
    BY DEF OpLogsAreRemembered
  <2>2. Acknowledges(d, a, l)'
    BY <1>3, <1>16, <2>1 DEF Acknowledges
  <2> QED  BY <2>2
<1>17. \A d \in Clients : {"oplogs", "versions"} \subseteq DOMAIN mgr'[d]
  BY <1>14 DEF OpLogsAreRemembered
<1> QED  BY <1>15, <1>16, <1>17 DEF OpLogsAreRemembered

\* Servers apply versions and send messages of the version they have applied.
LEMMA ServersSendInOrder ==
  ASSUME OpLogsAreRemembered, PushInv, UNCHANGED <<mgr, version>>,
         \A z \in Servers, d \in Clients :
           /\ bgVersion'[z][d] \in Int /\ bgVersion[z][d] <= bgVersion'[z][d]
           /\ \/ serverToBg'[z][d] = serverToBg[z][d]
              \/ \E m : m.version = bgVersion'[z][d] /\ serverToBg'[z][d] = Append(serverToBg[z][d], m)
              \/ \E p, q : /\ IsSeq(p) /\ \A i \in DOMAIN p : p[i].version = bgVersion'[z][d]
                           /\ IsSeq(q) /\ \A i \in DOMAIN q : q[i].version = bgVersion'[z][d]
                           /\ serverToBg'[z][d] = serverToBg[z][d] \o p \o q
  PROVE  OpLogsAreRemembered'
<1>1. ASSUME NEW d \in Clients PROVE \E acked, lo : Acknowledges(d, acked, lo)'
  <2>1. PICK acked, lo : Acknowledges(d, acked, lo)
    BY DEF OpLogsAreRemembered
  <2>2. ASSUME NEW z \in Servers
        PROVE  acked[z] <= bgVersion'[z][d] /\ Ordered(serverToBg'[z][d], acked[z], bgVersion'[z][d])
    <3> DEFINE q == serverToBg[z][d]
               low == acked[z]
               high == bgVersion[z][d]
               new == bgVersion'[z][d]
    <3>1. /\ IsSeq(q) /\ low \in Int /\ high \in Int /\ low <= high /\ Ordered(q, low, high)
          /\ new \in Int /\ high <= new
      BY <2>1, VersionsAreSent DEF Acknowledges, Remembers, Window, PushInv, PushShapes
    <3>2. \/ serverToBg'[z][d] = q
          \/ \E m : m.version = new /\ serverToBg'[z][d] = Append(q, m)
          \/ \E p, r : /\ IsSeq(p) /\ \A i \in DOMAIN p : p[i].version = new
                       /\ IsSeq(r) /\ \A i \in DOMAIN r : r[i].version = new
                       /\ serverToBg'[z][d] = q \o p \o r
      OBVIOUS
    <3> DEFINE after == serverToBg'[z][d]
    <3> HIDE DEF q, low, high, new, after
    <3>3. Ordered(after, low, new)
      <4>1. CASE after = q
        BY <3>1, <4>1 DEF Ordered
      <4>2. CASE \E m : m.version = new /\ after = Append(q, m)
        BY <3>1, <4>2, OrderedAppend
      <4>3. ASSUME NEW p, IsSeq(p), \A i \in DOMAIN p : p[i].version = new,
                   NEW r, IsSeq(r), \A i \in DOMAIN r : r[i].version = new, after = q \o p \o r
            PROVE  Ordered(after, low, new)
        <5> DEFINE a == q \o p
        <5>1. IsSeq(a) /\ Ordered(a, low, new)
          BY <3>1, <4>3, ConcatToSeq, OrderedConcat
        <5>2. low <= new /\ after = a \o r
          BY <3>1, <4>3
        <5> HIDE DEF a
        <5> QED  BY <3>1, <4>3, <5>1, <5>2, OrderedConcat
      <4> QED  BY <3>2, <4>1, <4>2, <4>3 DEF after
    <3> QED  BY <3>1, <3>3 DEF low, new, high, after
  <2>3. Acknowledges(d, acked, lo)'
    BY <2>1, <2>2 DEF Acknowledges
  <2> QED  BY <2>3
<1> QED  BY <1>1 DEF OpLogsAreRemembered

\* A request leaves alone what a manager remembers.
LEMMA RequestRemembersNothing ==
  ASSUME NEW m, {"oplogs", "versions"} \subseteq DOMAIN m, NEW r, NEW t, NEW k, NEW b, NEW new,
         new = Mgr!AddRowRequest(m, r, t, k, b)
  PROVE  DOMAIN new = DOMAIN m /\ new.oplogs = m.oplogs /\ new.versions = m.versions
BY DEF Mgr!AddRowRequest

\* So does the reply to it.
LEMMA ReplyRemembersNothing ==
  ASSUME NEW m, {"oplogs", "versions"} \subseteq DOMAIN m, NEW r, NEW k, NEW new,
         new = Mgr!InformReply(m, r, k)
  PROVE  DOMAIN new = DOMAIN m /\ new.oplogs = m.oplogs /\ new.versions = m.versions
<1> DEFINE left == Mgr!RemoveSatisfied(m, r, k)
<1>1. DOMAIN left = DOMAIN m /\ left.oplogs = m.oplogs /\ left.versions = m.versions
  BY DEF Mgr!RemoveSatisfied
<1>2. new = left \/ new = [left EXCEPT !.pending[r][1].sent = TRUE]
  BY DEF Mgr!InformReply
<1> HIDE DEF left
<1> QED  BY <1>1, <1>2

\* Workers keep what they remember right.
LEMMA WorkersRemember ==
  ASSUME OpLogsAreRemembered, PushInv, FewVersions, NEW c \in Clients, PushBgNext(c)
  PROVE  OpLogsAreRemembered'
<1>1. DOMAIN mgr = Clients /\ \A d \in Clients : {"oplogs", "versions"} \subseteq DOMAIN mgr[d]
  BY DEF OpLogsAreRemembered
<1>2. ASSUME NEW t \in Threads, PushRowRequestAnswered(c, t) PROVE OpLogsAreRemembered'
  <2>1. UNCHANGED <<mgr, version, bgVersion, serverToBg>>
    BY <1>2 DEF PushRowRequestAnswered, bgVars, serverVars
  <2> QED  BY <1>1, <2>1, RememberedStays
<1>3. ASSUME NEW t \in Threads, PushRowRequestForwarded(c, t) PROVE OpLogsAreRemembered'
  <2> DEFINE msg == Head(appToBg[t])
  <2>1. /\ UNCHANGED <<version, bgVersion, serverToBg>>
        /\ \E b \in StoredSent : mgr' = [mgr EXCEPT ![c] = Mgr!AddRowRequest(@, msg.row, t, msg.clock, b)]
    BY <1>3 DEF PushRowRequestForwarded, serverVars
  <2>2. PICK b \in StoredSent : mgr' = [mgr EXCEPT ![c] = Mgr!AddRowRequest(@, msg.row, t, msg.clock, b)]
    BY <2>1
  <2> HIDE DEF msg
  <2> DEFINE new == Mgr!AddRowRequest(mgr[c], msg.row, t, msg.clock, b)
  <2>3. DOMAIN new = DOMAIN mgr[c] /\ new.oplogs = mgr[c].oplogs /\ new.versions = mgr[c].versions
    <3>1. {"oplogs", "versions"} \subseteq DOMAIN mgr[c]
      BY <1>1
    <3> HIDE DEF new
    <3>2. new = Mgr!AddRowRequest(mgr[c], msg.row, t, msg.clock, b)
      BY DEF new
    <3> QED  BY <3>1, <3>2, RequestRemembersNothing
  <2>4. mgr' = [mgr EXCEPT ![c] = new]
    BY <2>2
  <2> HIDE DEF new
  <2>5. /\ DOMAIN mgr' = Clients
        /\ \A d \in Clients : /\ {"oplogs", "versions"} \subseteq DOMAIN mgr'[d]
                              /\ mgr'[d].oplogs = mgr[d].oplogs /\ mgr'[d].versions = mgr[d].versions
    BY <1>1, <2>3, <2>4
  <2> QED  BY <2>1, <2>5, RememberedStays
<1>4. ASSUME NEW t \in Threads, PushHandleBgClock(c, t) \/ PushHandleBgSendOpLog(c, t)
      PROVE  OpLogsAreRemembered'
  <2>1. /\ mgr' = [mgr EXCEPT ![c] = Mgr!AddOpLog(@, Mgr!Word(version[c]), TakenOpLog(c))]
        /\ version' = [version EXCEPT ![c] = @ + 1] /\ UNCHANGED <<bgVersion, serverToBg>>
    BY <1>4 DEF PushHandleBgClock, PushHandleBgSendOpLog, PushSendOpLogs, SendOpLogMsgs, serverVars
  <2> QED  BY <2>1, OpLogIsKept
<1>5. ASSUME NEW s \in Servers, PushHandleReply(c, s) PROVE OpLogsAreRemembered'
  <2> DEFINE reply == Head(serverToBg[s][c])
             acked == Acknowledged(c, s, reply)
             new == Mgr!InformReply(acked, reply.row, reply.clock)
  <2>1. /\ NextFromServer(c, s, "RowReply") /\ UNCHANGED <<version, bgVersion>>
        /\ mgr' = [mgr EXCEPT ![c] = new]
    BY <1>5, Zenon DEF PushHandleReply, threadVars, serverVars
  <2>2. {"oplogs", "versions"} \subseteq DOMAIN acked
    BY <1>1 DEF Acknowledged, Mgr!ServerAcknowledgeVersion
  <2> HIDE DEF acked
  <2>3. DOMAIN new = DOMAIN acked /\ new.oplogs = acked.oplogs /\ new.versions = acked.versions
    <3> HIDE DEF new
    <3>1. new = Mgr!InformReply(acked, reply.row, reply.clock)
      BY DEF new
    <3> QED  BY <2>2, <3>1, ReplyRemembersNothing
  <2> HIDE DEF new
  <2>4. /\ DOMAIN mgr' = Clients /\ \A d \in Clients \ {c} : mgr'[d] = mgr[d]
        /\ DOMAIN mgr'[c] = DOMAIN acked
        /\ mgr'[c].oplogs = acked.oplogs /\ mgr'[c].versions = acked.versions
    BY <1>1, <2>1, <2>3
  <2> QED  BY <2>1, <2>4, MessageIsAcknowledged DEF acked
<1>6. ASSUME NEW s \in Servers, HandleServerPushRow(c, s) \/ HandleServerOpLogAck(c, s)
      PROVE  OpLogsAreRemembered'
  <2> DEFINE new == Acknowledged(c, s, Head(serverToBg[s][c]))
  <2>1. /\ \E type : NextFromServer(c, s, type)
        /\ UNCHANGED <<version, bgVersion>> /\ mgr' = [mgr EXCEPT ![c] = new]
    BY <1>6 DEF HandleServerPushRow, HandleServerOpLogAck, threadVars, serverVars
  <2> HIDE DEF new
  <2>2. /\ DOMAIN mgr' = Clients /\ (\A d \in Clients \ {c} : mgr'[d] = mgr[d]) /\ mgr'[c] = new
    BY <1>1, <2>1
  <2> QED  BY <2>1, <2>2, MessageIsAcknowledged DEF new
<1>7. CASE NotifyAll(c)
  <2>1. UNCHANGED <<mgr, version, bgVersion, serverToBg>>
    BY <1>7 DEF NotifyAll, bgVars, serverVars, channelVars
  <2> QED  BY <1>1, <2>1, RememberedStays
<1> QED  BY <1>2, <1>3, <1>4, <1>5, <1>6, <1>7 DEF PushBgNext

\* Servers keep it right.
LEMMA ServersLetRemember ==
  ASSUME OpLogsAreRemembered, PushInv, NEW s \in Servers, PushServerNext(s)
  PROVE  OpLogsAreRemembered'
<1>1. /\ PushShapes /\ SharedInv /\ IInv /\ DOMAIN bgVersion = Servers
      /\ \A z \in Servers : DOMAIN bgVersion[z] = Clients
      /\ \A z \in Servers, d \in Clients : bgVersion[z][d] \in Int
      /\ DOMAIN serverToBg = Servers /\ \A z \in Servers : DOMAIN serverToBg[z] = Clients
  BY DEF PushInv, SharedInv, IInv, Shapes, PushShapes
<1>2. DOMAIN mgr = Clients /\ \A d \in Clients : {"oplogs", "versions"} \subseteq DOMAIN mgr[d]
  BY DEF OpLogsAreRemembered
<1>3. ASSUME NEW c \in Clients, RowRequestBuffered(s, c), UNCHANGED pushVars PROVE OpLogsAreRemembered'
  <2>1. UNCHANGED <<mgr, version, bgVersion, serverToBg>>
    BY <1>3, Zenon DEF RowRequestBuffered, bgVars
  <2> QED  BY <1>2, <2>1, RememberedStays
<1>4. ASSUME NEW c \in Clients, PushRowRequestReplied(s, c) PROVE OpLogsAreRemembered'
  <2> DEFINE msg == Head(bgToServer[c][s])
             m == Reply(msg.row, bgClock[s].min, bgVersion[s][c], table[s][msg.row])
  <2>1. /\ UNCHANGED <<mgr, version, bgVersion>>
        /\ serverToBg' = [serverToBg EXCEPT ![s][c] = Append(@, m)]
    BY <1>4 DEF PushRowRequestReplied, RowRequestReplied, bgVars, serverVars
  <2>2. m.version = bgVersion'[s][c]
    BY <2>1 DEF Reply
  <2> HIDE DEF m
  <2>3. \A z \in Servers, d \in Clients :
          \/ serverToBg'[z][d] = serverToBg[z][d]
          \/ \E n : n.version = bgVersion'[z][d] /\ serverToBg'[z][d] = Append(serverToBg[z][d], n)
    BY <1>1, <2>1, <2>2
  <2> QED  BY <1>1, <2>1, <2>3, ServersSendInOrder
<1>5. ASSUME NEW c \in Clients, PushHandleOpLog(s, c) PROVE OpLogsAreRemembered'
  <2> DEFINE msg == Head(bgToServer[c][s])
             k == ClockUntil(s, c, msg).min
             changed == Changed(s, msg)
             rows(d) == {r \in changed : d \in subscribed'[s][r]}
  <2>1. /\ NextFromBg(s, c, "OpLog") /\ bgVersion' = [bgVersion EXCEPT ![s][c] = msg.version]
        /\ UNCHANGED <<mgr, version>>
    BY <1>5 DEF PushHandleOpLog, ApplyOpLogUpdateVersion, bgVars
  <2>2. msg.version = bgVersion[s][c] + 1
    <3> DEFINE q == bgToServer[c][s]
    <3>1. /\ q # << >> /\ Head(q).type = "OpLog" /\ IsSeq(q)
          /\ bgVersion[s][c] \in Int /\ version[c] - 1 \in Int
          /\ Consecutive(Versions(q), bgVersion[s][c], version[c] - 1)
      BY <1>1, <2>1 DEF IInv, Shapes, MessagesInSequence, NextFromBg
    <3> HIDE DEF q
    <3> QED  BY <3>1, ReceiveVersion DEF q
  <2> HIDE DEF msg, k, changed
  <2>3. \A z \in Servers, d \in Clients : bgVersion'[z][d] \in Int /\ bgVersion[z][d] <= bgVersion'[z][d]
    BY <1>1, <2>1, <2>2
  <2>4. bgVersion'[s][c] = msg.version
    BY <1>1, <2>1
  <2>5. CASE ClockChanges(s, c, msg)
    <3>1. serverToBg' = [serverToBg EXCEPT ![s] = [d \in Clients |->
            serverToBg[s][d] \o FulfilledReplies(s, k, d) \o PushMsgs(s, d, k, rows(d))]]
      BY <1>5, <2>5 DEF PushHandleOpLog, ReplyAndPush, msg, k, changed
    <3>2. k \in 0 .. MaxClock
      <4>1. SharedInv'
        BY <1>1, <1>5, ServerKeepsShared
      <4>2. bgClock' = [bgClock EXCEPT ![s] = ClockUntil(s, c, msg)] /\ DOMAIN bgClock = Servers
        BY <1>1, <1>5 DEF PushHandleOpLog, IInv, Shapes, msg
      <4>3. bgClock'[s].min = k
        BY <4>2 DEF k
      <4> QED  BY <4>1, <4>3, MinimumsBoundedNext
    <3>3. IsFiniteSet(changed)
      <4>1. changed \subseteq Rows
        BY <1>1 DEF Changed, PushShapes, RowsOf, changed
      <4> QED  BY <4>1, PushAssumption, FS_Subset
    <3>4. ASSUME NEW d \in Clients
          PROVE  \E p, q : /\ IsSeq(p) /\ \A i \in DOMAIN p : p[i].version = bgVersion'[s][d]
                           /\ IsSeq(q) /\ \A i \in DOMAIN q : q[i].version = bgVersion'[s][d]
                           /\ serverToBg'[s][d] = serverToBg[s][d] \o p \o q
      <4> DEFINE p == FulfilledReplies(s, k, d)
                 q == PushMsgs(s, d, k, rows(d))
      <4>1. IsSeq(p) /\ \A i \in DOMAIN p : p[i].version = bgVersion'[s][d]
        BY <1>1, <3>2, RepliesOf
      <4>2. IsFiniteSet(rows(d))
        BY <3>3, FS_Subset
      <4> HIDE DEF rows
      <4>3. IsSeq(q) /\ \A i \in DOMAIN q : q[i].version = bgVersion'[s][d]
        BY <4>2, PushesOf
      <4>4. serverToBg'[s][d] = serverToBg[s][d] \o p \o q
        BY <1>1, <3>1
      <4> HIDE DEF p, q
      <4> QED  BY <4>1, <4>3, <4>4
    <3>5. \A z \in Servers, d \in Clients : z # s => serverToBg'[z][d] = serverToBg[z][d]
      BY <1>1, <3>1
    <3>6. \A z \in Servers, d \in Clients :
            \/ serverToBg'[z][d] = serverToBg[z][d]
            \/ \E p, q : /\ IsSeq(p) /\ \A i \in DOMAIN p : p[i].version = bgVersion'[z][d]
                         /\ IsSeq(q) /\ \A i \in DOMAIN q : q[i].version = bgVersion'[z][d]
                         /\ serverToBg'[z][d] = serverToBg[z][d] \o p \o q
      <4> SUFFICES ASSUME NEW z \in Servers, NEW d \in Clients, serverToBg'[z][d] # serverToBg[z][d]
                   PROVE  \E p, q : /\ IsSeq(p) /\ \A i \in DOMAIN p : p[i].version = bgVersion'[z][d]
                                    /\ IsSeq(q) /\ \A i \in DOMAIN q : q[i].version = bgVersion'[z][d]
                                    /\ serverToBg'[z][d] = serverToBg[z][d] \o p \o q
        OBVIOUS
      <4>1. z = s
        BY <3>5
      <4> QED  BY <3>4, <4>1
    <3> QED  BY <2>1, <2>3, <3>6, ServersSendInOrder
  <2>6. CASE ~ClockChanges(s, c, msg)
    <3> DEFINE m == OpLogAck(msg.version)
    <3>1. serverToBg' = [serverToBg EXCEPT ![s][c] = Append(@, m)]
      BY <1>5, <2>6 DEF PushHandleOpLog, msg
    <3>2. m.version = bgVersion'[s][c]
      BY <2>4 DEF OpLogAck
    <3> HIDE DEF m
    <3>3. \A z \in Servers, d \in Clients :
            \/ serverToBg'[z][d] = serverToBg[z][d]
            \/ \E n : n.version = bgVersion'[z][d] /\ serverToBg'[z][d] = Append(serverToBg[z][d], n)
      BY <1>1, <3>1, <3>2
    <3> QED  BY <2>1, <2>3, <3>3, ServersSendInOrder
  <2> QED  BY <2>5, <2>6
<1> QED  BY <1>3, <1>4, <1>5 DEF PushServerNext

\* Every step keeps it right as long as few versions are outstanding.
LEMMA StepsRemember ==
  PushInv /\ FewVersions /\ OpLogsAreRemembered /\ [PushNext]_allVars => OpLogsAreRemembered'
<1> SUFFICES ASSUME PushInv, FewVersions, OpLogsAreRemembered, [PushNext]_allVars
             PROVE  OpLogsAreRemembered'
  OBVIOUS
<1>1. DOMAIN mgr = Clients /\ \A d \in Clients : {"oplogs", "versions"} \subseteq DOMAIN mgr[d]
  BY DEF OpLogsAreRemembered
<1>2. CASE UNCHANGED allVars
  <2>1. UNCHANGED <<mgr, version, bgVersion, serverToBg>>
    BY <1>2 DEF allVars, vars, bgVars, serverVars, channelVars
  <2> QED  BY <1>1, <2>1, RememberedStays
<1>3. ASSUME NEW t \in Threads, PushThreadNext(t) PROVE OpLogsAreRemembered'
  <2>1. UNCHANGED <<mgr, version, bgVersion, serverToBg>>
    BY <1>3, ThreadLeaves DEF PushInv, protocolVars
  <2> QED  BY <1>1, <2>1, RememberedStays
<1> QED  BY <1>2, <1>3, WorkersRemember, ServersLetRemember DEF PushNext

\* In a run in which never as many versions as words are outstanding.
LEMMA RememberedHolds == PushSpec /\ []FewVersions => []OpLogsAreRemembered
BY PushInvHolds, NothingOutstanding, StepsRemember, PTL DEF PushSpec

-----------------------------------------------------------------------------
(* What the worker keeps, and what it decides.                             *)

\* The words of the last version and of the lowest are as far apart as they.
LEMMA WordOfDistance ==
  ASSUME NEW v \in Int, NEW lo \in Int, v - lo \in 0 .. VersionModulus - 1
  PROVE  Mgr!Word(Mgr!Word(v) - Mgr!Word(lo)) = v - lo
<1> DEFINE j == v - lo
           a == Mgr!Word(v)
           b == Mgr!Word(lo)
<1>1. /\ a \in 0 .. VersionModulus - 1 /\ VersionModulus \in Nat /\ j \in 0 .. VersionModulus - 1
      /\ b = IF j <= a THEN a - j ELSE a - j + VersionModulus
  <2>1. lo <= lo /\ lo <= v /\ v - lo < VersionModulus
    BY PushAssumption
  <2> QED  BY <2>1, WordsInWindow
<1> HIDE DEF j, a, b
<1>2. a - b = VersionModulus * 0 + j \/ a - b = VersionModulus * (-1) + j
  BY <1>1
<1>3. Mgr!Word(VersionModulus * 0 + j) = j /\ Mgr!Word(VersionModulus * (-1) + j) = j
  <2>1. 0 \in Int /\ -1 \in Int
    OBVIOUS
  <2> QED  BY <1>1, <2>1, WordOf
<1>4. Mgr!Word(a - b) = j
  BY <1>2, <1>3
<1> QED  BY <1>4 DEF j, a, b

\* What a worker remembers is what the servers have not acknowledged.
LEMMA RememberedIsKept ==
  PushInv /\ FewVersions /\ OpLogsAreRemembered => KeptOpLogsAreUnacknowledged
<1> SUFFICES ASSUME PushInv, FewVersions, OpLogsAreRemembered, NEW c \in Clients
             PROVE  /\ mgr[c].versions.upper = Mgr!Word(version[c] - 1)
                    /\ Len(mgr[c].oplogs) = Mgr!Word(mgr[c].versions.upper - mgr[c].versions.min)
                    /\ \A i \in DOMAIN mgr[c].oplogs :
                         mgr[c].oplogs[i].version = Mgr!Word(version[c] - Len(mgr[c].oplogs) + i - 1)
                    /\ \A s \in Servers : \A i \in DOMAIN serverToBg[s][c] :
                         version[c] - 1 - serverToBg[s][c][i].version <= Len(mgr[c].oplogs)
  BY DEF KeptOpLogsAreUnacknowledged
<1> DEFINE log == mgr[c].oplogs
           vers == mgr[c].versions
           v == version[c] - 1
<1>1. PICK acked, lo : Acknowledges(c, acked, lo)
  BY DEF OpLogsAreRemembered
<1>2. /\ vers = VersionsOf(acked, lo, v) /\ IsSeq(log) /\ Len(log) = v - lo
      /\ \A i \in 1 .. v - lo : log[i].version = Mgr!Word(lo + i)
      /\ acked \in [Servers -> Int] /\ lo \in Int /\ v \in Int
      /\ \A s \in Servers : lo <= acked[s] /\ acked[s] <= v
      /\ \A s \in Servers : Ordered(serverToBg[s][c], acked[s], bgVersion[s][c])
  BY <1>1 DEF Acknowledges, Remembers, Window, IsLowest
<1>3. /\ version[c] \in Int /\ version[c] = v + 1 /\ Len(log) < VersionModulus
  BY VersionsAreSent DEF FewVersions
<1> HIDE DEF log, vers, v
<1>4. Len(log) \in Nat /\ DOMAIN log = 1 .. Len(log)
  BY <1>2, AppendToSeq
<1>5. vers.upper = Mgr!Word(v) /\ vers.min = Mgr!Word(lo)
  BY <1>2 DEF VersionsOf
<1>6. Len(log) = Mgr!Word(vers.upper - vers.min)
  <2>1. v - lo \in 0 .. VersionModulus - 1
    BY <1>2, <1>3, <1>4, PushAssumption
  <2> QED  BY <1>2, <1>5, <2>1, WordOfDistance
<1>7. ASSUME NEW i \in DOMAIN log PROVE log[i].version = Mgr!Word(version[c] - Len(log) + i - 1)
  <2>1. i \in 1 .. v - lo /\ lo + i = version[c] - Len(log) + i - 1
    BY <1>2, <1>3, <1>4
  <2> QED  BY <1>2, <2>1
<1>8. ASSUME NEW s \in Servers, NEW i \in DOMAIN serverToBg[s][c]
      PROVE  version[c] - 1 - serverToBg[s][c][i].version <= Len(log)
  <2>1. serverToBg[s][c][i].version \in Int /\ acked[s] <= serverToBg[s][c][i].version
    BY <1>2 DEF Ordered
  <2>2. acked[s] \in Int /\ lo <= acked[s]
    BY <1>2
  <2> QED  BY <1>2, <1>3, <2>1, <2>2
<1>9. vers.upper = Mgr!Word(version[c] - 1)
  BY <1>5 DEF v
<1> QED  BY <1>6, <1>7, <1>8, <1>9 DEF log, vers

\* The manager as if d more versions had been sent before remembers the same.
LEMMA RotatedRemembers ==
  ASSUME NEW m, NEW acked, NEW lo, NEW v, Remembers(m, acked, lo, v), NEW d \in Int
  PROVE  Remembers(Rotated(m, d), [z \in Servers |-> acked[z] + d], lo + d, v + d)
<1> DEFINE more == [z \in Servers |-> acked[z] + d]
           new == Rotated(m, d)
<1>1. /\ Window(acked, lo, v) /\ m.versions = VersionsOf(acked, lo, v)
      /\ IsSeq(m.oplogs) /\ Len(m.oplogs) = v - lo
      /\ \A i \in 1 .. v - lo : m.oplogs[i].version = Mgr!Word(lo + i)
      /\ acked \in [Servers -> Int] /\ lo \in Int /\ v \in Int
      /\ \A z \in Servers : lo <= acked[z] /\ acked[z] <= v
  BY DEF Remembers, Window, IsLowest
<1>2. PICK y \in Servers : acked[y] = lo
  BY <1>1 DEF Window, IsLowest
<1>3. Window(more, lo + d, v + d)
  BY <1>1, <1>2 DEF Window, IsLowest
<1>4. new.versions = VersionsOf(more, lo + d, v + d)
  <2>1. /\ m.versions.of = [z \in Servers |-> Mgr!Word(acked[z])]
        /\ m.versions.min = Mgr!Word(lo) /\ m.versions.upper = Mgr!Word(v)
    BY <1>1 DEF VersionsOf
  <2>2. \A x \in Int : Mgr!Word(Mgr!Word(x) + d) = Mgr!Word(x + d)
    BY WordOfSum
  <2>3. [z \in Servers |-> Mgr!Word(m.versions.of[z] + d)] = [z \in Servers |-> Mgr!Word(more[z])]
    BY <1>1, <2>1, <2>2
  <2>4. Mgr!Word(m.versions.min + d) = Mgr!Word(lo + d) /\ Mgr!Word(m.versions.upper + d) = Mgr!Word(v + d)
    BY <1>1, <2>1, <2>2
  <2> HIDE DEF more
  <2> QED  BY <2>3, <2>4 DEF Rotated, VersionsOf
<1>5. /\ IsSeq(new.oplogs) /\ Len(new.oplogs) = (v + d) - (lo + d)
      /\ \A i \in 1 .. (v + d) - (lo + d) : new.oplogs[i].version = Mgr!Word((lo + d) + i)
  <2> DEFINE q == m.oplogs
             r == new.oplogs
             n == v - lo
  <2>1. n \in Nat /\ DOMAIN q = 1 .. n /\ \A i \in 1 .. n : q[i].version = Mgr!Word(lo + i)
    <3>1. Len(q) \in Nat /\ DOMAIN q = 1 .. Len(q)
      BY <1>1, AppendToSeq
    <3> QED  BY <1>1, <3>1
  <2>2. r = [i \in DOMAIN q |-> [version |-> Mgr!Word(q[i].version + d)]]
    BY DEF Rotated
  <2>3. (v + d) - (lo + d) = n
    BY <1>1
  <2>4. \A i \in 1 .. n : lo + i \in Int /\ (lo + i) + d = (lo + d) + i
    BY <1>1
  <2> HIDE DEF q, r, n
  <2>5. r = [i \in 1 .. n |-> r[i]] /\ \A i \in 1 .. n : r[i].version = Mgr!Word(q[i].version + d)
    BY <2>1, <2>2
  <2>6. IsSeq(r) /\ Len(r) = n
    BY <2>1, <2>5, ListIsSeq
  <2>7. ASSUME NEW i \in 1 .. n PROVE r[i].version = Mgr!Word((lo + d) + i)
    <3>1. r[i].version = Mgr!Word(Mgr!Word(lo + i) + d)
      BY <2>1, <2>5
    <3>2. lo + i \in Int /\ (lo + i) + d = (lo + d) + i
      BY <2>4
    <3>3. Mgr!Word(Mgr!Word(lo + i) + d) = Mgr!Word((lo + i) + d)
      BY <3>2, WordOfSum
    <3> QED  BY <3>1, <3>2, <3>3
  <2> QED  BY <2>3, <2>6, <2>7 DEF r
<1> HIDE DEF new, more
<1>6. Remembers(new, more, lo + d, v + d)
  BY <1>3, <1>4, <1>5 DEF Remembers
<1> QED  BY <1>6 DEF new, more

\* The elements that are left of an oplog list, renamed.
LEMMA RotatedRest ==
  ASSUME NEW q, IsSeq(q), NEW n \in 0 .. Len(q), NEW d \in Int, NEW p,
         p = [i \in DOMAIN q |-> [version |-> Mgr!Word(q[i].version + d)]],
         NEW rest, rest = SubSeq(q, n + 1, Len(q)),
         NEW after, after = SubSeq(p, n + 1, Len(p))
  PROVE  after = [i \in DOMAIN rest |-> [version |-> Mgr!Word(rest[i].version + d)]]
<1> DEFINE l == Len(q)
           W(e) == [version |-> Mgr!Word(e.version + d)]
<1>1. l \in Nat /\ DOMAIN q = 1 .. l /\ n \in 0 .. l
  BY AppendToSeq
<1>2. p = [i \in 1 .. l |-> p[i]] /\ \A i \in 1 .. l : p[i] = W(q[i])
  BY <1>1
<1> HIDE DEF W, l
<1>3. IsSeq(p) /\ Len(p) = l
  BY <1>1, <1>2, ListIsSeq
<1>4. IsSeq(rest) /\ Len(rest) = l - n /\ \A i \in 1 .. l - n : rest[i] = q[n + i]
  BY WithoutFirst DEF l
<1>5. IsSeq(after) /\ Len(after) = l - n /\ \A i \in 1 .. l - n : after[i] = p[n + i]
  <2>1. n \in 0 .. Len(p)
    BY <1>1, <1>3
  <2>2. IsSeq(after) /\ Len(after) = Len(p) - n /\ \A i \in 1 .. Len(p) - n : after[i] = p[n + i]
    BY <1>3, <2>1, WithoutFirst
  <2> QED  BY <1>3, <2>2
<1>6. DOMAIN rest = 1 .. l - n
  BY <1>4, AppendToSeq
<1>7. \A i \in 1 .. l - n : after[i] = W(rest[i])
  <2>1. \A i \in 1 .. l - n : n + i \in 1 .. l
    BY <1>1
  <2> QED  BY <1>2, <1>4, <1>5, <2>1
<1>8. after = [i \in 1 .. l - n |-> after[i]]
  <2> DEFINE S == {after[i] : i \in DOMAIN after}
  <2>1. after \in Seq(S)
    BY <1>5 DEF IsSeq
  <2> HIDE DEF S
  <2> QED  BY <1>5, <2>1, LenProperties
<1>9. after = [i \in 1 .. l - n |-> W(rest[i])]
  BY <1>7, <1>8
<1> QED  BY <1>6, <1>9 DEF W

\* Wherever among the words the versions start, an acknowledgement decides the
\* same.
LEMMA RotatedDecides ==
  ASSUME NEW m, {"oplogs", "versions"} \subseteq DOMAIN m, NEW acked, NEW lo, NEW v,
         Remembers(m, acked, lo, v), v - lo < VersionModulus,
         NEW s \in Servers, NEW x \in Int, acked[s] <= x, x <= v, NEW d \in Int
  PROVE  Mgr!ServerAcknowledgeVersion(Rotated(m, d), s, Mgr!Word(Mgr!Word(x) + d))
           = Rotated(Mgr!ServerAcknowledgeVersion(m, s, Mgr!Word(x)), d)
<1> DEFINE now == [acked EXCEPT ![s] = x]
           new == Mgr!ServerAcknowledgeVersion(m, s, Mgr!Word(x))
           r == Rotated(m, d)
           more == [z \in Servers |-> acked[z] + d]
           moreNow == [z \in Servers |-> now[z] + d]
           after == Mgr!ServerAcknowledgeVersion(r, s, Mgr!Word(x + d))
<1>1. /\ acked \in [Servers -> Int] /\ lo \in Int /\ v \in Int
      /\ (\A z \in Servers : lo <= acked[z] /\ acked[z] <= v)
      /\ IsSeq(m.oplogs) /\ Len(m.oplogs) = v - lo
  BY DEF Remembers, Window, IsLowest
<1>2. /\ now \in [Servers -> Int] /\ now[s] = x /\ (\A z \in Servers \ {s} : now[z] = acked[z])
      /\ \A z \in Servers : lo <= now[z] /\ now[z] <= v
  BY <1>1
<1>3. PICK low \in Int : low >= lo /\ IsLowest(now, low)
  <2> HIDE DEF now
  <2> QED  BY <1>1, <1>2, LowestExists
<1>4. /\ Remembers(new, now, low, v) /\ lo <= low
      /\ new.oplogs = SubSeq(m.oplogs, low - lo + 1, v - lo)
  <2>1. IsLowest([acked EXCEPT ![s] = x], low)
    BY <1>3
  <2> HIDE DEF now, new
  <2>2. /\ Remembers(Mgr!ServerAcknowledgeVersion(m, s, Mgr!Word(x)), [acked EXCEPT ![s] = x], low, v)
        /\ lo <= low
        /\ Mgr!ServerAcknowledgeVersion(m, s, Mgr!Word(x)).oplogs = SubSeq(m.oplogs, low - lo + 1, v - lo)
    BY <2>1, AcknowledgementKeeps
  <2> QED  BY <2>2 DEF now, new
<1>5. Remembers(r, more, lo + d, v + d)
  BY <1>1, RotatedRemembers
<1>6. Remembers(Rotated(new, d), moreNow, low + d, v + d)
  <2> HIDE DEF new, now
  <2> QED  BY <1>4, RotatedRemembers
<1>7. [more EXCEPT ![s] = x + d] = moreNow
  BY <1>1, <1>2
<1>8. IsLowest(moreNow, low + d)
  BY <1>6 DEF Remembers, Window
<1>9. /\ Remembers(after, moreNow, low + d, v + d)
      /\ after.oplogs = SubSeq(r.oplogs, low - lo + 1, v - lo)
  <2> DEFINE k == lo + d
             u == v + d
             y == x + d
             h == low + d
  <2>1. {"oplogs", "versions"} \subseteq DOMAIN r
    BY DEF Rotated
  <2>2. /\ y \in Int /\ h \in Int /\ u - k < VersionModulus /\ more[s] <= y /\ y <= u
        /\ h - k + 1 = low - lo + 1 /\ u - k = v - lo
    BY <1>1, <1>3
  <2>3. Remembers(r, more, k, u) /\ IsLowest([more EXCEPT ![s] = y], h)
    BY <1>5, <1>7, <1>8
  <2> HIDE DEF k, u, y, h, r, more, now, moreNow
  <2>4. /\ Remembers(Mgr!ServerAcknowledgeVersion(r, s, Mgr!Word(y)), [more EXCEPT ![s] = y], h, u)
        /\ Mgr!ServerAcknowledgeVersion(r, s, Mgr!Word(y)).oplogs = SubSeq(r.oplogs, h - k + 1, u - k)
    BY <2>1, <2>2, <2>3, AcknowledgementKeeps
  <2> QED  BY <1>7, <2>2, <2>4 DEF h, u, y
<1>10. after.versions = Rotated(new, d).versions
  <2> HIDE DEF after, new, moreNow
  <2> QED  BY <1>6, <1>9 DEF Remembers
<1>11. after.oplogs = Rotated(new, d).oplogs
  <2> DEFINE q == m.oplogs
             n == low - lo
             p == r.oplogs
  <2>1. IsSeq(q) /\ n \in 0 .. Len(q) /\ v - lo = Len(q)
    <3>1. low <= v
      BY <1>2, <1>3 DEF IsLowest
    <3> QED  BY <1>1, <1>3, <3>1
  <2>2. p = [i \in DOMAIN q |-> [version |-> Mgr!Word(q[i].version + d)]]
    BY DEF Rotated
  <2>3. Len(p) = v - lo
    <3>1. Len(p) = (v + d) - (lo + d)
      BY <1>5 DEF Remembers
    <3> QED  BY <1>1, <3>1
  <2>4. new.oplogs = SubSeq(q, n + 1, Len(q)) /\ after.oplogs = SubSeq(p, n + 1, Len(p))
    BY <1>4, <1>9, <2>1, <2>3
  <2> HIDE DEF q, n, p, after, new
  <2>5. after.oplogs = [i \in DOMAIN new.oplogs |-> [version |-> Mgr!Word(new.oplogs[i].version + d)]]
    BY <2>1, <2>2, <2>4, RotatedRest
  <2> QED  BY <2>5 DEF Rotated
<1>12. after = [oplogs |-> after.oplogs, versions |-> after.versions]
  <2>1. r = [oplogs |-> r.oplogs, versions |-> r.versions]
    BY DEF Rotated
  <2> DEFINE a == r.oplogs
             b == r.versions
             w == Mgr!Word(x + d)
  <2> HIDE DEF r, a, b, w
  <2>2. r = [oplogs |-> a, versions |-> b]
    BY <2>1 DEF a, b
  <2>3. LET g == Mgr!ServerAcknowledgeVersion([oplogs |-> a, versions |-> b], s, w)
        IN  g = [oplogs |-> g.oplogs, versions |-> g.versions]
    BY AckFields
  <2>4. after = Mgr!ServerAcknowledgeVersion([oplogs |-> a, versions |-> b], s, w)
    BY <2>2 DEF w
  <2> HIDE DEF after
  <2> QED  BY <2>3, <2>4
<1>13. Rotated(new, d) = [oplogs |-> Rotated(new, d).oplogs, versions |-> Rotated(new, d).versions]
  <2> HIDE DEF new
  <2> QED  BY DEF Rotated
<1>14. after = Rotated(new, d)
  <2> HIDE DEF after, new
  <2> QED  BY <1>10, <1>11, <1>12, <1>13
<1>15. Mgr!Word(Mgr!Word(x) + d) = Mgr!Word(x + d)
  BY WordOfSum
<1> QED  BY <1>14, <1>15

\* What a worker remembers decides the same wherever its versions start.
LEMMA RememberedSurvives ==
  PushInv /\ FewVersions /\ OpLogsAreRemembered => VersionsSurviveWrapAround
<1> SUFFICES ASSUME PushInv, FewVersions, OpLogsAreRemembered,
                    NEW c \in Clients, NEW s \in Servers, serverToBg[s][c] # << >>,
                    NEW d \in Words \ {0}
             PROVE  Mgr!ServerAcknowledgeVersion(Rotated(mgr[c], d), s,
                                                 Mgr!Word(Mgr!Word(Head(serverToBg[s][c]).version) + d))
                      = Rotated(Mgr!ServerAcknowledgeVersion(mgr[c], s,
                                                             Mgr!Word(Head(serverToBg[s][c]).version)), d)
  BY DEF VersionsSurviveWrapAround
<1> DEFINE q == serverToBg[s][c]
           m == mgr[c]
           v == version[c] - 1
           x == Head(q).version
<1>1. PICK acked, lo : Acknowledges(c, acked, lo)
  BY DEF OpLogsAreRemembered
<1>2. /\ Remembers(m, acked, lo, v) /\ acked[s] \in Int /\ Len(m.oplogs) = v - lo
      /\ Ordered(q, acked[s], bgVersion[s][c])
  BY <1>1 DEF Acknowledges, Remembers, Window
<1>3. bgVersion[s][c] \in Int /\ bgVersion[s][c] <= v /\ v \in Int
  BY VersionsAreSent
<1>4. IsSeq(q) /\ q # << >>
  BY DEF PushInv, PushShapes
<1>5. {"oplogs", "versions"} \subseteq DOMAIN m /\ v - lo < VersionModulus /\ d \in Int
  BY <1>2, PushAssumption DEF OpLogsAreRemembered, FewVersions, Words
<1> HIDE DEF q, m, v
<1>6. x \in Int /\ acked[s] <= x /\ x <= v
  <2>1. x \in Int /\ acked[s] <= x /\ x <= bgVersion[s][c]
    BY <1>2, <1>3, <1>4, OrderedTail
  <2> QED  BY <1>2, <1>3, <2>1
<1> HIDE DEF x
<1>7. Mgr!ServerAcknowledgeVersion(Rotated(m, d), s, Mgr!Word(Mgr!Word(x) + d))
        = Rotated(Mgr!ServerAcknowledgeVersion(m, s, Mgr!Word(x)), d)
  BY <1>2, <1>5, <1>6, RotatedDecides
<1> QED  BY <1>7 DEF q, m, x

\* KeptOpLogsAreUnacknowledged: as long as fewer versions than words are
\* outstanding, the worker keeps exactly the oplogs that some server has not
\* acknowledged (ServerAcknowledgeVersion, OpLogIterInit).
THEOREM KeptOpLogs == PushSpec /\ []FewVersions => []KeptOpLogsAreUnacknowledged
BY PushInvHolds, RememberedHolds, RememberedIsKept, PTL

\* VersionsSurviveWrapAround: as long as fewer versions than words are
\* outstanding, the next acknowledgement is decided the same wherever among the
\* 32-bit words the versions start (the header of ServerVersionMgr).
THEOREM WrapAroundIsHarmless == PushSpec /\ []FewVersions => []VersionsSurviveWrapAround
BY PushInvHolds, RememberedHolds, RememberedSurvives, PTL

-----------------------------------------------------------------------------
(* What a manager holds.                                                   *)

\* A manager has these fields and no other.
ManagerOK(m) ==
  /\ m = [pending |-> m.pending, oplogs |-> m.oplogs, versions |-> m.versions]
  /\ IsPushMgr(m)

\* The manager's operators on a row's list are those of SSP.
LEMMA BehindOf ==
  ASSUME NEW m, NEW r, NEW k
  PROVE  Mgr!Base!Behind(m, r, k) = Behind(m, r, k)
BY DEF Mgr!Base!Behind, Behind, Mgr!Base!Max, Max

\* So is the one that a reply needs.
LEMMA SatisfiedOf ==
  ASSUME NEW m, NEW r, NEW k
  PROVE  Mgr!Satisfied(m, r, k) = Satisfied(m, r, k)
BY DEF Mgr!Satisfied, Mgr!Base!Satisfied, Satisfied, Mgr!Base!Max, Max

\* The list of a row's requests.
LEMMA RequestsAreList ==
  ASSUME NEW m, ManagerOK(m), NEW r \in Rows
  PROVE  LET q == m.pending[r]
         IN  /\ q \in Seq(PushRequest) /\ Len(q) \in Nat /\ DOMAIN q = 1 .. Len(q)
             /\ \A i \in 1 .. Len(q) : q[i] \in PushRequest
<1>1. m.pending[r] \in Seq(PushRequest)
  BY DEF ManagerOK, IsPushMgr
<1> QED  BY <1>1, LenProperties, ElementOfSeq

\* n is m with request e of row r at position at.
PushRequested(m, n, r, at, e) ==
  LET q == m.pending[r]
  IN  /\ ManagerOK(n)
      /\ at \in 1 .. Len(q) + 1 /\ Len(q) \in Nat /\ DOMAIN q = 1 .. Len(q)
      /\ \A x \in Rows \ {r} : n.pending[x] = m.pending[x]
      /\ DOMAIN n.pending[r] = 1 .. Len(q) + 1
      /\ \A i \in 1 .. Len(q) + 1 :
           n.pending[r][i] = IF i < at THEN q[i] ELSE IF i = at THEN e ELSE q[i - 1]

\* AddRowRequest puts the request into its place.
LEMMA PushAddRowRequestFacts ==
  ASSUME NEW m, ManagerOK(m), NEW r \in Rows, NEW t \in Threads, NEW k \in Nat, NEW b \in BOOLEAN
  PROVE  PushRequested(m, Mgr!AddRowRequest(m, r, t, k, b), r, Behind(m, r, k) + 1,
                       [thread |-> t, clock |-> k, sent |-> b])
<1> DEFINE n == Mgr!AddRowRequest(m, r, t, k, b)
           q == m.pending[r]
           at == Behind(m, r, k) + 1
           e == [thread |-> t, clock |-> k, sent |-> b]
           new == InsertAt(q, at, e)
           lists == [m.pending EXCEPT ![r] = new]
           l == [pending |-> lists, oplogs |-> m.oplogs, versions |-> m.versions]
<1>1. /\ q \in Seq(PushRequest) /\ Len(q) \in Nat /\ DOMAIN q = 1 .. Len(q)
      /\ at \in 1 .. Len(q) + 1
  BY RequestsAreList, BehindIsPlace
<1>2. e \in PushRequest
  BY DEF PushRequest
<1>3. n = [m EXCEPT !.pending[r] = InsertAt(@, at, e)]
  BY BehindOf DEF Mgr!AddRowRequest, InsertAt, Mgr!InsertAt
<1> HIDE DEF e, at, n
<1>4. /\ new \in Seq(PushRequest) /\ Len(new) = Len(q) + 1
      /\ \A i \in 1 .. Len(q) + 1 :
           new[i] = IF i < at THEN q[i] ELSE IF i = at THEN e ELSE q[i - 1]
  <2> HIDE DEF q
  <2>1. q \in Seq(PushRequest) /\ at \in 1 .. Len(q) + 1 /\ e \in PushRequest
    BY <1>1, <1>2
  <2> QED  BY <2>1, InsertAtPosition
<1>5. DOMAIN new = 1 .. Len(q) + 1
  <2> HIDE DEF new, q
  <2> QED  BY <1>4, LenProperties
<1>6. m = [pending |-> m.pending, oplogs |-> m.oplogs, versions |-> m.versions]
  BY DEF ManagerOK
<1>7. n = [m EXCEPT !.pending[r] = new]
  BY <1>3
<1> HIDE DEF new
<1>8. n = l
  BY <1>6, <1>7
<1>9. lists \in [Rows -> Seq(PushRequest)]
  BY <1>4 DEF ManagerOK, IsPushMgr
<1>10. lists[r] = new /\ \A x \in Rows \ {r} : lists[x] = m.pending[x]
  BY DEF ManagerOK, IsPushMgr
<1> HIDE DEF lists
<1>11. ManagerOK(l) /\ l.pending = lists
  BY <1>9 DEF ManagerOK, IsPushMgr
<1> HIDE DEF l
<1> QED  BY <1>1, <1>4, <1>5, <1>8, <1>10, <1>11 DEF PushRequested, n, at, e

\* n is m without the first d requests of row r; again is the clock for which
\* the next one is sent, or -1.
PushAnswered(m, n, r, d, again) ==
  LET q == m.pending[r]
  IN  /\ ManagerOK(n)
      /\ d \in 0 .. Len(q) /\ Len(q) \in Nat /\ DOMAIN q = 1 .. Len(q)
      /\ \A x \in Rows \ {r} : n.pending[x] = m.pending[x]
      /\ DOMAIN n.pending[r] = 1 .. Len(q) - d
      /\ \A i \in 1 .. Len(q) - d : n.pending[r][i].thread = q[d + i].thread
      /\ again = -1 \/ again \in Nat

\* InformReply takes away what the reply satisfies.
LEMMA PushInformReplyFacts ==
  ASSUME NEW m, ManagerOK(m), NEW r \in Rows, NEW k \in Nat
  PROVE  PushAnswered(m, Mgr!InformReply(m, r, k), r, Len(Satisfied(m, r, k)),
                      Mgr!ClockToRequest(m, r, k))
<1> DEFINE q == m.pending[r]
           d == Len(Satisfied(m, r, k))
           rest == SubSeq(q, d + 1, Len(q))
           left == Mgr!RemoveSatisfied(m, r, k)
           asked == [rest EXCEPT ![1].sent = TRUE]
           lists == [m.pending EXCEPT ![r] = rest]
           n == Mgr!InformReply(m, r, k)
           again == Mgr!ClockToRequest(m, r, k)
<1>1. /\ d \in 0 .. Len(q) /\ Len(q) \in Nat /\ DOMAIN q = 1 .. Len(q)
      /\ q \in Seq(PushRequest) /\ \A i \in 1 .. Len(q) : q[i] \in PushRequest
  <2>1. q \in Seq(PushRequest) /\ Len(q) \in Nat /\ DOMAIN q = 1 .. Len(q)
        /\ \A i \in 1 .. Len(q) : q[i] \in PushRequest
    BY RequestsAreList
  <2>2. \A e \in PushRequest : e.clock \in Nat
    BY DEF PushRequest
  <2>3. d \in 0 .. Len(q)
    BY <2>1, <2>2, SatisfiedIsHead
  <2> QED  BY <2>1, <2>3
<1>2. /\ DOMAIN m.pending = Rows
      /\ m = [pending |-> m.pending, oplogs |-> m.oplogs, versions |-> m.versions]
  BY DEF ManagerOK, IsPushMgr
<1>3. left = [m EXCEPT !.pending = lists]
  BY <1>2, SatisfiedOf DEF Mgr!RemoveSatisfied
<1>4. n = IF left.pending[r] # << >> /\ ~left.pending[r][1].sent
          THEN [left EXCEPT !.pending[r][1].sent = TRUE] ELSE left
  BY DEF Mgr!InformReply, Mgr!NeedsRequest, Mgr!Base!NeedsRequest
<1>5. again = IF left.pending[r] # << >> /\ ~left.pending[r][1].sent
              THEN left.pending[r][1].clock ELSE -1
  BY DEF Mgr!ClockToRequest, Mgr!NeedsRequest, Mgr!Base!NeedsRequest
<1> HIDE DEF left, n, again, d
<1>6. /\ rest \in Seq(PushRequest) /\ Len(rest) = Len(q) - d /\ DOMAIN rest = 1 .. Len(q) - d
      /\ \A i \in 1 .. Len(q) - d : rest[i] = q[d + i] /\ rest[i] \in PushRequest
  <2> HIDE DEF q, rest
  <2>1. IsSeq(q)
    BY <1>1, SeqParts
  <2>2. /\ IsSeq(rest) /\ Len(rest) = Len(q) - d
        /\ \A i \in 1 .. Len(q) - d : rest[i] = q[d + i]
    BY <1>1, <2>1, WithoutFirst, Zenon DEF rest
  <2>3. \A i \in 1 .. Len(q) - d : d + i \in 1 .. Len(q)
    BY <1>1
  <2>4. \A i \in 1 .. Len(q) - d : rest[i] \in PushRequest
    BY <1>1, <2>2, <2>3
  <2>5. rest \in Seq(PushRequest)
    BY <1>1, <2>2, <2>4, IsASeq DEF IsSeq
  <2> QED  BY <2>2, <2>4, <2>5, LenProperties
<1> HIDE DEF rest, q
<1>7. /\ lists \in [Rows -> Seq(PushRequest)] /\ lists[r] = rest
      /\ \A x \in Rows \ {r} : lists[x] = m.pending[x]
  BY <1>6 DEF ManagerOK, IsPushMgr
<1> HIDE DEF lists
<1>8. left = [pending |-> lists, oplogs |-> m.oplogs, versions |-> m.versions]
  BY <1>2, <1>3
<1> SUFFICES PushAnswered(m, n, r, d, again)
  BY DEF n, d, again
<1> DEFINE with(p) == [pending |-> p, oplogs |-> m.oplogs, versions |-> m.versions]
<1>9. ASSUME NEW p \in [Rows -> Seq(PushRequest)] PROVE ManagerOK(with(p))
  BY DEF ManagerOK, IsPushMgr
<1>10. CASE ~(rest # << >> /\ ~rest[1].sent)
  <2>1. n = with(lists) /\ again = -1
    BY <1>4, <1>5, <1>7, <1>8, <1>10
  <2>2. ManagerOK(with(lists)) /\ with(lists).pending = lists
    BY <1>7, <1>9
  <2> HIDE DEF with
  <2> QED  BY <1>1, <1>6, <1>7, <2>1, <2>2 DEF PushAnswered, q
<1>11. CASE rest # << >> /\ ~rest[1].sent
  <2> DEFINE p == [lists EXCEPT ![r] = asked]
  <2>1. again = rest[1].clock /\ n = [left EXCEPT !.pending[r][1].sent = TRUE]
    BY <1>4, <1>5, <1>7, <1>8, <1>11
  <2>2. n = with(p)
    BY <1>7, <1>8, <2>1
  <2>3. 1 \in 1 .. Len(q) - d
    BY <1>1, <1>6, <1>11, EmptySeq
  <2>4. rest[1] \in PushRequest /\ rest[1].clock \in Nat
    BY <1>6, <2>3 DEF PushRequest
  <2>5. [rest[1] EXCEPT !.sent = TRUE] \in PushRequest
    BY <2>4 DEF PushRequest
  <2>6. /\ asked \in Seq(PushRequest) /\ DOMAIN asked = 1 .. Len(q) - d
        /\ \A i \in 1 .. Len(q) - d : asked[i].thread = rest[i].thread
    <3>1. asked = [rest EXCEPT ![1] = [rest[1] EXCEPT !.sent = TRUE]]
      BY <1>6, <2>3
    <3>2. [rest[1] EXCEPT !.sent = TRUE].thread = rest[1].thread
      BY <2>4 DEF PushRequest
    <3>3. asked \in Seq(PushRequest)
      BY <1>6, <2>3, <2>5, <3>1, ExceptSeq
    <3> QED  BY <1>6, <2>3, <3>1, <3>2, <3>3
  <2> HIDE DEF asked
  <2>7. /\ p \in [Rows -> Seq(PushRequest)] /\ p[r] = asked
        /\ \A x \in Rows \ {r} : p[x] = m.pending[x]
    BY <1>7, <2>6
  <2> HIDE DEF p
  <2>8. ManagerOK(with(p)) /\ with(p).pending = p
    BY <1>9, <2>7
  <2> HIDE DEF with
  <2> QED  BY <1>1, <1>6, <2>1, <2>2, <2>4, <2>6, <2>7, <2>8 DEF PushAnswered, q
<1> QED  BY <1>10, <1>11

\* The least of some words.
LEMMA LeastWord ==
  ASSUME NEW S \in SUBSET Words, S # {}
  PROVE  Mgr!Min(S) \in Words
<1>1. S \in SUBSET Nat /\ S \in SUBSET Int
  BY PushAssumption DEF Words
<1>2. PICK k \in S : \A j \in S : k <= j
  BY <1>1, NatHasLeast
<1>3. Mgr!Min(S) = k
  BY <1>1, <1>2, LeastIs
<1> QED  BY <1>2, <1>3

\* What SetServerVersion makes of the versions.
LEMMA SetVersionTypes ==
  ASSUME NEW v \in [of : [Servers -> Words], min : Words, upper : Words], NEW s \in Servers, NEW w \in Words
  PROVE  Mgr!SetServerVersion(v, s, w) \in [of : [Servers -> Words], min : Words, upper : Words]
<1> DEFINE of    == [v.of EXCEPT ![s] = w]
           words == {of[z] : z \in DOMAIN of}
           wrapped == {x \in words : x > v.upper}
           min == IF ~Mgr!RaisesMin(v, s, w) THEN v.min
                  ELSE IF v.min < v.upper THEN Mgr!Min(words)
                  ELSE Mgr!Oldest(words, v.upper)
<1>1. v.of \in [Servers -> Words] /\ v.min \in Words /\ v.upper \in Words
      /\ v = [of |-> v.of, min |-> v.min, upper |-> v.upper]
  OBVIOUS
<1>2. of \in [Servers -> Words]
  BY <1>1
<1>3. words \in SUBSET Words /\ words # {}
  BY <1>2
<1>4. Mgr!Min(words) \in Words
  <2> HIDE DEF words
  <2> QED  BY <1>3, LeastWord
<1>5. Mgr!Oldest(words, v.upper) \in Words
  <2>1. wrapped # {} => Mgr!Min(wrapped) \in Words
    <3>1. wrapped \in SUBSET Words
      BY <1>3
    <3> HIDE DEF wrapped
    <3> QED  BY <3>1, LeastWord
  <2>2. Mgr!Oldest(words, v.upper) = IF wrapped # {} THEN Mgr!Min(wrapped) ELSE Mgr!Min(words)
    BY DEF Mgr!Oldest
  <2> QED  BY <1>4, <2>1, <2>2
<1>6. min \in Words
  <2> HIDE DEF words
  <2> QED  BY <1>1, <1>4, <1>5
<1>7. Mgr!SetServerVersion(v, s, w) = [v EXCEPT !.of = of, !.min = min]
  BY DEF Mgr!SetServerVersion
<1> HIDE DEF of, min
<1>8. Mgr!SetServerVersion(v, s, w) = [of |-> of, min |-> min, upper |-> v.upper]
  BY <1>1, <1>7
<1> QED  BY <1>1, <1>2, <1>6, <1>8

\* The versions of sent oplogs are words.
LEMMA WordTypes == \A x \in Int : Mgr!Word(x) \in Words
BY WordsDivide DEF Words

\* AddOpLog keeps the types, and the requests.
LEMMA PushAddOpLogFacts ==
  ASSUME NEW m, ManagerOK(m), NEW x \in Int, NEW updates \in Updates
  PROVE  LET n == Mgr!AddOpLog(m, Mgr!Word(x), updates)
         IN  ManagerOK(n) /\ n.pending = m.pending
<1> DEFINE v == m.versions
           new == [version |-> Mgr!Word(x), updates |-> updates]
           upper == Mgr!Word(v.upper + 1)
           n == [pending |-> m.pending, oplogs |-> Append(m.oplogs, new),
                 versions |-> [of |-> v.of, min |-> v.min, upper |-> upper]]
<1>1. /\ m = [pending |-> m.pending, oplogs |-> m.oplogs, versions |-> m.versions]
      /\ m.pending \in [Rows -> Seq(PushRequest)]
      /\ m.oplogs \in Seq([version : Words, updates : Updates])
      /\ v \in [of : [Servers -> Words], min : Words, upper : Words]
  BY DEF ManagerOK, IsPushMgr
<1>2. new \in [version : Words, updates : Updates]
  BY WordTypes
<1>3. upper \in Words
  <2>1. v.upper + 1 \in Int
    BY <1>1, PushAssumption DEF Words
  <2> QED  BY <2>1, WordTypes
<1>4. v = [of |-> v.of, min |-> v.min, upper |-> v.upper] /\ v.of \in [Servers -> Words] /\ v.min \in Words
  BY <1>1
<1>5. Mgr!AddOpLog(m, Mgr!Word(x), updates)
        = [m EXCEPT !.oplogs = Append(@, new), !.versions = [@ EXCEPT !.upper = upper]]
  BY DEF Mgr!AddOpLog, Mgr!IncVersionUpperBound
<1> HIDE DEF v, new, upper
<1>6. [v EXCEPT !.upper = upper] = [of |-> v.of, min |-> v.min, upper |-> upper]
  BY <1>4
<1>7. Mgr!AddOpLog(m, Mgr!Word(x), updates) = n
  BY <1>1, <1>5, <1>6 DEF v
<1>8. Append(m.oplogs, new) \in Seq([version : Words, updates : Updates])
  BY <1>1, <1>2, AppendProperties
<1>9. ManagerOK(n) /\ n.pending = m.pending
  BY <1>1, <1>3, <1>4, <1>8 DEF ManagerOK, IsPushMgr
<1> QED  BY <1>7, <1>9

\* ServerAcknowledgeVersion keeps the types, and the requests.
LEMMA AcknowledgeFacts ==
  ASSUME NEW m, ManagerOK(m), NEW s \in Servers, NEW x \in Int
  PROVE  LET n == Mgr!ServerAcknowledgeVersion(m, s, Mgr!Word(x))
         IN  ManagerOK(n) /\ n.pending = m.pending
<1> DEFINE w == Mgr!Word(x)
           vers == Mgr!SetServerVersion(m.versions, s, w)
           raises == Mgr!RaisesMin(m.versions, s, w)
           S == MayGo(m.oplogs, vers)
           top == Mgr!Max(S)
           oplogs == IF raises THEN SubSeq(m.oplogs, top + 1, Len(m.oplogs)) ELSE m.oplogs
           M == [version : Words, updates : Updates]
           n == [pending |-> m.pending, oplogs |-> oplogs, versions |-> vers]
<1>1. /\ m = [pending |-> m.pending, oplogs |-> m.oplogs, versions |-> m.versions]
      /\ m.pending \in [Rows -> Seq(PushRequest)]
      /\ m.oplogs \in Seq(M)
      /\ m.versions \in [of : [Servers -> Words], min : Words, upper : Words]
  BY DEF ManagerOK, IsPushMgr
<1>2. vers \in [of : [Servers -> Words], min : Words, upper : Words]
  <2>1. w \in Words
    BY WordTypes
  <2> HIDE DEF w
  <2> QED  BY <1>1, <2>1, SetVersionTypes
<1>3. Mgr!ServerAcknowledgeVersion(m, s, w) = [[m EXCEPT !.versions = vers] EXCEPT !.oplogs = oplogs]
  <2> HIDE DEF w
  <2> QED  BY DEF Mgr!ServerAcknowledgeVersion, MayGo
<1> HIDE DEF vers, raises, w, M
<1>4. top \in 0 .. Len(m.oplogs)
  <2>1. Len(m.oplogs) \in Nat
    BY <1>1, LenProperties
  <2>2. S \in SUBSET (0 .. Len(m.oplogs)) /\ 0 \in S
    BY <2>1 DEF MayGo
  <2> HIDE DEF S
  <2>3. Max(S) \in S
    BY <2>1, <2>2, MaxOfBounded
  <2>4. Mgr!Max(S) = Max(S)
    BY DEF Mgr!Max, Max
  <2> QED  BY <2>2, <2>3, <2>4
<1> HIDE DEF top
<1>5. oplogs \in Seq(M)
  <2>1. Len(m.oplogs) \in Nat /\ \A i \in 1 .. Len(m.oplogs) : m.oplogs[i] \in M
    BY <1>1, LenProperties, ElementOfSeq
  <2>2. \A i \in top + 1 .. Len(m.oplogs) : m.oplogs[i] \in M
    BY <1>4, <2>1
  <2>3. SubSeq(m.oplogs, top + 1, Len(m.oplogs)) \in Seq(M)
    BY <1>4, <2>1, <2>2, SubSeqProperties
  <2> QED  BY <1>1, <2>3
<1> HIDE DEF oplogs
<1>6. Mgr!ServerAcknowledgeVersion(m, s, w) = n
  BY <1>1, <1>3
<1>7. ManagerOK(n) /\ n.pending = m.pending
  BY <1>1, <1>2, <1>5 DEF ManagerOK, IsPushMgr, M
<1> QED  BY <1>6, <1>7 DEF w

-----------------------------------------------------------------------------
(* Types.                                                                  *)

Places == {"run", "tested", "blocked", "woken", "wait", "flush", "tick", "clock", "send"}

\* What a thread sends to its worker.
FromReader ==
  [type : {"RowRequest"}, row : Rows, clock : Nat, forced : BOOLEAN]
  \cup [type : {"BgClock", "BgSendOpLog"}]

\* The types of what SSPPush adds to the threads, to the workers and to the
\* servers.
ReadersOK ==
  /\ pc \in [Threads -> Places]
  /\ cachedClock \in [Threads -> Nat]
  /\ replies \in [Threads -> Nat]
  /\ pending \in [Threads -> 0 .. MaxAsync]
  /\ appToBg \in [Threads -> Seq(FromReader)]
  /\ \A t \in Threads : pc[t] = "wait" => want[t] # << >>

ManagersOK == DOMAIN mgr = Clients /\ \A c \in Clients : ManagerOK(mgr[c])

ChannelsOK ==
  /\ DOMAIN subscribed = Servers
  /\ \A s \in Servers : subscribed[s] \in [RowsOf(s) -> SUBSET Clients]
  /\ notifying \in [Clients -> BOOLEAN]
  /\ \A s \in Servers, c \in Clients : \A i \in DOMAIN serverToBg[s][c] :
       IsFromServer(s, serverToBg[s][c][i])

CommonOK == ThreadsOK /\ ClientsOK /\ ServersOK

PushTypes == CommonOK /\ ReadersOK /\ ManagersOK /\ ChannelsOK

\* What a thread leaves alone has its type.
LEMMA OthersStay ==
  ASSUME ManagersOK, ChannelsOK, UNCHANGED <<mgr, subscribed, notifying, serverToBg>>
  PROVE  ManagersOK' /\ ChannelsOK'
<1>1. ManagersOK'
  BY DEF ManagersOK, ManagerOK, IsPushMgr
<1>2. ChannelsOK'
  BY DEF ChannelsOK, IsFromServer
<1> QED  BY <1>1, <1>2

\* Nor do steps of others concern the threads' reading.
LEMMA ReadersStay ==
  ASSUME ReadersOK, UNCHANGED <<pc, cachedClock, replies, pending, appToBg, want>>
  PROVE  ReadersOK'
BY DEF ReadersOK

\* A thread moves on, and may send a message.
LEMMA ReaderMoves ==
  ASSUME ReadersOK, NEW t \in Threads,
         pc' = pc \/ \E p \in Places : pc' = [pc EXCEPT ![t] = p],
         appToBg' = appToBg \/ \E m \in FromReader : SendToBg(t, m),
         cachedClock' \in [Threads -> Nat],
         replies' \in [Threads -> Nat], pending' \in [Threads -> 0 .. MaxAsync],
         \A u \in Threads \ {t} : want'[u] = want[u], pc'[t] = "wait" => want'[t] # << >>
  PROVE  ReadersOK'
<1>1. pc' \in [Threads -> Places] /\ \A u \in Threads \ {t} : pc'[u] = pc[u]
  BY DEF ReadersOK
<1>2. appToBg' \in [Threads -> Seq(FromReader)]
  <2>1. ASSUME NEW m \in FromReader, SendToBg(t, m) PROVE appToBg' \in [Threads -> Seq(FromReader)]
    <3>1. Append(appToBg[t], m) \in Seq(FromReader)
      BY AppendProperties DEF ReadersOK
    <3> QED  BY <2>1, <3>1 DEF SendToBg, ReadersOK
  <2> QED  BY <2>1 DEF ReadersOK
<1> QED  BY <1>1, <1>2 DEF ReadersOK

\* A request of a thread.
LEMMA RequestIsFromReader ==
  ASSUME NEW r \in Rows, NEW k \in Nat, NEW f \in BOOLEAN
  PROVE  PushRowRequest(r, k, f) \in FromReader
BY DEF PushRowRequest, FromReader

\* Steps as in SSP.
LEMMA InheritedTypes ==
  ASSUME PushTypes, NEW t \in Threads, Inherited(t)
  PROVE  PushTypes'
<1>1. LocalStep(t) /\ UNCHANGED pushVars
  BY DEF Inherited, LocalStep
<1>2. CommonOK'
  BY <1>1, LocalTypes DEF PushTypes, CommonOK
<1>3. /\ UNCHANGED <<mgr, serverToBg, want>>
      /\ pc' = pc \/ \E p \in Places \ {"wait"} : pc' = [pc EXCEPT ![t] = p]
      /\ appToBg' = appToBg \/ \E m \in FromReader : SendToBg(t, m)
  <2> USE DEF bgVars, channelVars, Places
  <2>1. CASE \E r \in Rows : Inc(t, r) \/ ThreadInc(t, r)
    BY <2>1 DEF Inc, ThreadInc
  <2>2. CASE (\E r \in Rows : FlushRow(t, r)) \/ FlushThreadCache(t) \/ Clock(t) \/ TickThread(t)
    BY <2>2 DEF FlushRow, FlushThreadCache, Clock, TickThread
  <2>3. CASE TellBg(t)
    <3>1. [type |-> IF pc[t] = "clock" THEN "BgClock" ELSE "BgSendOpLog"] \in FromReader
      BY DEF FromReader
    <3> QED  BY <2>3, <3>1 DEF TellBg
  <2> QED  BY <1>1, <2>1, <2>2, <2>3 DEF LocalStep
<1>4. UNCHANGED <<cachedClock, replies, pending, subscribed, notifying>>
  BY <1>1 DEF pushVars, asyncVars, clockVars
<1>5. ReadersOK'
  <2>1. pc'[t] = "wait" => want'[t] # << >>
    BY <1>3 DEF PushTypes, ReadersOK
  <2>2. ReadersOK
    BY DEF PushTypes
  <2>3. /\ cachedClock' \in [Threads -> Nat]
        /\ replies' \in [Threads -> Nat] /\ pending' \in [Threads -> 0 .. MaxAsync]
    BY <1>4, <2>2 DEF ReadersOK
  <2> QED  BY <1>3, <2>1, <2>2, <2>3, ReaderMoves
<1>6. ManagersOK' /\ ChannelsOK'
  BY <1>3, <1>4, OthersStay DEF PushTypes
<1> QED  BY <1>2, <1>5, <1>6 DEF PushTypes

\* What the steps that follow leave alone.
LEMMA BeyondReaders ==
  ASSUME PushTypes, UNCHANGED <<mgr, subscribed, notifying, serverToBg>>,
         CommonOK', ReadersOK'
  PROVE  PushTypes'
BY OthersStay DEF PushTypes

\* The clock a thread wants the row for.
LEMMA WantedTypes ==
  ASSUME ThreadsOK, NEW t \in Threads, NEW r \in Rows, NEW b \in BOOLEAN
  PROVE  Wanted(t, r, b) \in [row : Rows, clock : Nat, byThread : BOOLEAN]
BY Stalest DEF Wanted

\* Steps that wait for the system clock.
LEMMA ClockCheckTypes ==
  ASSUME PushTypes, NEW t \in Threads,
         (\E r \in Rows, b \in BOOLEAN : TestSystemClock(t, r, b)) \/ WaitSystemClock(t)
  PROVE  PushTypes'
<1>1. ThreadsOK /\ ClientsOK /\ ServersOK /\ ReadersOK
  BY DEF PushTypes, CommonOK
<1>2. /\ ClientsOK' /\ ServersOK'
      /\ UNCHANGED <<mgr, subscribed, notifying, serverToBg, cachedClock, replies, pending, appToBg>>
      /\ UNCHANGED <<clock, fetches, tableVars, ghostVars>> /\ read' = NoRead
      /\ \E p \in Places \ {"wait"} : pc' = [pc EXCEPT ![t] = p]
      /\ \/ UNCHANGED want
         \/ \E w \in [row : Rows, clock : Nat, byThread : BOOLEAN] : want' = [want EXCEPT ![t] = w]
  <2> USE DEF pushVars, asyncVars, clockVars, bgVars, channelVars, Places
  <2>1. CASE WaitSystemClock(t)
    BY <1>1, <2>1, ClientsStay, ServersStay DEF WaitSystemClock
  <2>2. ASSUME NEW r \in Rows, NEW b \in BOOLEAN, TestSystemClock(t, r, b)
        PROVE  /\ ClientsOK' /\ ServersOK'
               /\ UNCHANGED <<mgr, subscribed, notifying, serverToBg, cachedClock, replies, pending, appToBg>>
               /\ UNCHANGED <<clock, fetches, tableVars, ghostVars>> /\ read' = NoRead
               /\ pc' = [pc EXCEPT ![t] = "tested"]
               /\ want' = [want EXCEPT ![t] = Wanted(t, r, b)]
    BY <1>1, <2>2, ClientsStay, ServersStay DEF TestSystemClock
  <2>3. \A r \in Rows, b \in BOOLEAN : Wanted(t, r, b) \in [row : Rows, clock : Nat, byThread : BOOLEAN]
    BY <1>1, WantedTypes
  <2> QED  BY <2>1, <2>2, <2>3
<1>3. ThreadsOK'
  <2>1. want' \in [Threads -> {<< >>} \cup [row : Rows, clock : Nat, byThread : BOOLEAN]]
    BY <1>1, <1>2 DEF ThreadsOK
  <2>2. UNCHANGED <<clock, fetches, threadIndex, threadRows, threadOplog, made, closed>> /\ read' = {}
    BY <1>2 DEF tableVars, ghostVars, NoRead
  <2> QED  BY <1>1, <2>1, <2>2 DEF ThreadsOK
<1>4. pc'[t] # "wait" /\ \A u \in Threads \ {t} : want'[u] = want[u]
  BY <1>1, <1>2 DEF ReadersOK, ThreadsOK
<1>5. ReadersOK'
  <2>1. /\ cachedClock' \in [Threads -> Nat]
        /\ replies' \in [Threads -> Nat] /\ pending' \in [Threads -> 0 .. MaxAsync]
    BY <1>1, <1>2 DEF ReadersOK
  <2> QED  BY <1>1, <1>2, <1>4, <2>1, ReaderMoves
<1> QED  BY <1>2, <1>3, <1>5, BeyondReaders DEF CommonOK

\* The thread's copy of the system clock.
LEMMA CachedClockTypes ==
  ASSUME PushTypes, PushShapes, NEW t \in Threads, NEW r, NEW b, PastClockCheck(t, r, b)
  PROVE  cachedClock' \in [Threads -> Nat]
<1>1. cachedClock \in [Threads -> Nat] /\ systemClock[ClientOf[t]] \in Nat
  BY ThreadsAssumption DEF PushTypes, ReadersOK, PushShapes
<1> QED  BY <1>1 DEF PastClockCheck

\* A Get or a ThreadGet that ends keeps the types of the threads.
LEMMA ReturnRowTypes ==
  ASSUME ThreadsOK, ClientsOK, NEW t \in Threads, NEW r \in Rows, NEW b, ReturnRow(t, r, b),
         UNCHANGED <<clock, threadIndex, threadOplog, ghostVars>>
  PROVE  ThreadsOK'
<1>1. /\ DOMAIN threadRows' = Threads
      /\ \A u \in Threads : /\ DOMAIN threadRows'[u] \subseteq Rows
                            /\ \A x \in DOMAIN threadRows'[u] : threadRows'[u][x] \in Vec
  <2>1. CASE InsertThreadRow(t, r)
    BY <2>1, InsertThreadRowTypes
  <2>2. CASE UNCHANGED threadRows
    BY <2>2 DEF ThreadsOK
  <2> QED  BY <2>1, <2>2 DEF ReturnRow
<1>2. read' \subseteq [thread : Threads, row : Rows, data : Vec]
  BY ReturnedType DEF ReturnRow, NoRead
<1>3. want' = [want EXCEPT ![t] = << >>] /\ fetches' = [fetches EXCEPT ![t] = 0]
  BY DEF ReturnRow, EndGet
<1>4. /\ want' \in [Threads -> {<< >>} \cup [row : Rows, clock : Nat, byThread : BOOLEAN]]
      /\ fetches' \in [Threads -> 0 .. 4]
  BY <1>3 DEF ThreadsOK
<1> QED  BY <1>1, <1>2, <1>4 DEF ThreadsOK, ghostVars

\* A waiting thread receives a reply.
LEMMA ReceiveReplyTypes ==
  ASSUME PushTypes, NEW t \in Threads, ReceiveReply(t)
  PROVE  /\ replies' \in [Threads -> Nat]
         /\ want[t] \in [row : Rows, clock : Nat, byThread : BOOLEAN]
<1>1. replies \in [Threads -> Nat] /\ replies[t] > 0 /\ replies' = [replies EXCEPT ![t] = @ - 1]
  BY DEF PushTypes, ReadersOK, ReceiveReply
<1>2. want[t] \in [row : Rows, clock : Nat, byThread : BOOLEAN]
  BY DEF PushTypes, CommonOK, ThreadsOK, ReadersOK, ReceiveReply
<1>3. replies[t] - 1 \in Nat
  BY <1>1
<1> QED  BY <1>1, <1>2, <1>3

\* Get and ThreadGet return.
LEMMA PushGetTypes ==
  ASSUME PushTypes, PushShapes, NEW t \in Threads,
         (\E r \in Rows, b \in BOOLEAN : PushGetCached(t, r, b)) \/ PushGetReturn(t)
  PROVE  PushTypes'
<1>1. ThreadsOK /\ ClientsOK /\ ServersOK /\ ReadersOK
  BY DEF PushTypes, CommonOK
<1>2. /\ \E r \in Rows, b \in BOOLEAN : ReturnRow(t, r, b)
      /\ UNCHANGED <<clock, threadIndex, threadOplog, clientVars, bgVars, serverVars, channelVars, ghostVars>>
      /\ UNCHANGED <<pending, subscribed, notifying>>
      /\ cachedClock' \in [Threads -> Nat] /\ replies' \in [Threads -> Nat]
  <2>1. CASE \E r \in Rows, b \in BOOLEAN : PushGetCached(t, r, b)
    <3>1. PICK r \in Rows, b \in BOOLEAN : PushGetCached(t, r, b)
      BY <2>1
    <3>2. ReturnRow(t, r, b) /\ PastClockCheck(t, r, b)
      BY <3>1 DEF PushGetCached
    <3>3. cachedClock' \in [Threads -> Nat]
      BY <3>2, CachedClockTypes
    <3>4. /\ UNCHANGED <<clock, threadIndex, threadOplog, clientVars, bgVars, serverVars, channelVars, ghostVars>>
          /\ UNCHANGED <<pending, subscribed, notifying, replies>>
      BY <3>1 DEF PushGetCached, asyncVars, clockVars
    <3>5. replies' \in [Threads -> Nat]
      BY <1>1, <3>4 DEF ReadersOK
    <3> QED  BY <3>2, <3>3, <3>4, <3>5
  <2>2. CASE PushGetReturn(t)
    <3>1. ReceiveReply(t) /\ ReturnRow(t, want[t].row, want[t].byThread)
      BY <2>2 DEF PushGetReturn
    <3>2. /\ replies' \in [Threads -> Nat]
          /\ want[t].row \in Rows /\ want[t].byThread \in BOOLEAN
      BY <3>1, ReceiveReplyTypes
    <3>3. /\ UNCHANGED <<clock, threadIndex, threadOplog, clientVars, bgVars, serverVars, channelVars, ghostVars>>
          /\ UNCHANGED <<pending, subscribed, notifying, cachedClock>>
      BY <2>2 DEF PushGetReturn, clockVars
    <3>4. cachedClock' \in [Threads -> Nat]
      BY <1>1, <3>3 DEF ReadersOK
    <3> QED  BY <3>1, <3>2, <3>3, <3>4
  <2> QED  BY <2>1, <2>2
<1>3. PICK r \in Rows, b \in BOOLEAN : ReturnRow(t, r, b)
  BY <1>2
<1>4. UNCHANGED <<mgr, serverToBg, appToBg, version, clientClock, bgToServer>>
  BY <1>2 DEF bgVars, channelVars
<1>5. ThreadsOK' /\ ClientsOK' /\ ServersOK'
  BY <1>1, <1>2, <1>3, <1>4, ReturnRowTypes, ClientsStay, ServersStay
<1>6. pc' = [pc EXCEPT ![t] = "run"] /\ \A u \in Threads \ {t} : want'[u] = want[u]
  BY <1>1, <1>3 DEF ReturnRow, EndGet, ThreadsOK
<1>7. pc'[t] # "wait" /\ "run" \in Places
  BY <1>1, <1>6 DEF ReadersOK, Places
<1>8. pending' \in [Threads -> 0 .. MaxAsync]
  BY <1>1, <1>2 DEF ReadersOK
<1>9. ReadersOK'
  BY <1>1, <1>2, <1>4, <1>6, <1>7, <1>8, ReaderMoves
<1> QED  BY <1>2, <1>4, <1>5, <1>9, BeyondReaders DEF CommonOK

\* Get and ThreadGet request a row, for the first time or again.
LEMMA PushGetAgainTypes ==
  ASSUME PushTypes, PushShapes, NEW t \in Threads,
         (\E r \in Rows, b \in BOOLEAN : PushGetRequest(t, r, b)) \/ PushGetAgain(t)
  PROVE  PushTypes'
<1>1. ThreadsOK /\ ClientsOK /\ ServersOK /\ ReadersOK
  BY DEF PushTypes, CommonOK
<1>2. /\ UNCHANGED <<clock, tableVars, clientVars, bgVars, serverVars, bgToServer, serverToBg, ghostVars>>
      /\ UNCHANGED <<pending, subscribed, notifying>> /\ read' = NoRead
      /\ cachedClock' \in [Threads -> Nat] /\ replies' \in [Threads -> Nat]
      /\ \E m \in FromReader : SendToBg(t, m)
      /\ \E n \in 0 .. 4 : fetches' = [fetches EXCEPT ![t] = n]
      /\ pc' = [pc EXCEPT ![t] = "wait"]
      /\ \E w \in [row : Rows, clock : Nat, byThread : BOOLEAN] : want' = [want EXCEPT ![t] = w]
  <2>1. CASE \E r \in Rows, b \in BOOLEAN : PushGetRequest(t, r, b)
    <3>1. PICK r \in Rows, b \in BOOLEAN : PushGetRequest(t, r, b)
      BY <2>1
    <3>2. cachedClock' \in [Threads -> Nat]
      BY <3>1, CachedClockTypes DEF PushGetRequest
    <3>3. StalestClock(t) \in Nat
      BY <1>1, Stalest
    <3>4. PushRowRequest(r, StalestClock(t), FALSE) \in FromReader
      BY <3>3, RequestIsFromReader
    <3>5. Wanted(t, r, b) \in [row : Rows, clock : Nat, byThread : BOOLEAN]
      BY <1>1, WantedTypes
    <3>6. /\ UNCHANGED <<clock, tableVars, clientVars, bgVars, serverVars, bgToServer, serverToBg, ghostVars>>
          /\ UNCHANGED <<pending, subscribed, notifying, replies>> /\ read' = NoRead
          /\ SendToBg(t, PushRowRequest(r, StalestClock(t), FALSE))
          /\ fetches' = [fetches EXCEPT ![t] = 1]
          /\ pc' = [pc EXCEPT ![t] = "wait"]
          /\ want' = [want EXCEPT ![t] = Wanted(t, r, b)]
      BY <3>1 DEF PushGetRequest, asyncVars, clockVars
    <3>7. replies' \in [Threads -> Nat]
      BY <1>1, <3>6 DEF ReadersOK
    <3>8. /\ \E m \in FromReader : SendToBg(t, m)
          /\ \E n \in 0 .. 4 : fetches' = [fetches EXCEPT ![t] = n]
          /\ \E w \in [row : Rows, clock : Nat, byThread : BOOLEAN] : want' = [want EXCEPT ![t] = w]
      <4>1. 1 \in 0 .. 4
        OBVIOUS
      <4> HIDE DEF PushRowRequest, Wanted
      <4> QED  BY <3>4, <3>5, <3>6, <4>1
    <3> QED  BY <3>2, <3>6, <3>7, <3>8
  <2>2. CASE PushGetAgain(t)
    <3>1. ReceiveReply(t)
      BY <2>2 DEF PushGetAgain
    <3>2. replies' \in [Threads -> Nat] /\ want[t] \in [row : Rows, clock : Nat, byThread : BOOLEAN]
      BY <3>1, ReceiveReplyTypes
    <3>3. PushRowRequest(want[t].row, want[t].clock, FALSE) \in FromReader
      BY <3>2, RequestIsFromReader
    <3>4. /\ UNCHANGED <<clock, tableVars, clientVars, bgVars, serverVars, bgToServer, serverToBg, ghostVars>>
          /\ UNCHANGED <<pending, subscribed, notifying, cachedClock, pc, want>> /\ read' = NoRead
          /\ SendToBg(t, PushRowRequest(want[t].row, want[t].clock, FALSE))
          /\ fetches[t] <= 3 /\ fetches' = [fetches EXCEPT ![t] = @ + 1]
      BY <2>2 DEF PushGetAgain, clockVars
    <3>5. cachedClock' \in [Threads -> Nat]
      BY <1>1, <3>4 DEF ReadersOK
    <3>6. pc' = [pc EXCEPT ![t] = "wait"] /\ want' = [want EXCEPT ![t] = want[t]]
      BY <1>1, <3>1, <3>4 DEF ReadersOK, ThreadsOK, ReceiveReply
    <3>7. fetches[t] + 1 \in 0 .. 4
      <4>1. fetches[t] \in 0 .. 4 /\ fetches[t] <= 3
        BY <1>1, <3>4 DEF ThreadsOK
      <4> QED  BY <4>1
    <3>8. \E n \in 0 .. 4 : fetches' = [fetches EXCEPT ![t] = n]
      BY <3>4, <3>7
    <3> HIDE DEF PushRowRequest
    <3> QED  BY <3>2, <3>3, <3>4, <3>5, <3>6, <3>8
  <2> QED  BY <2>1, <2>2
<1>3. UNCHANGED <<mgr, version, clientClock>>
  BY <1>2 DEF bgVars
<1>4. ClientsOK' /\ ServersOK'
  BY <1>1, <1>2, <1>3, ClientsStay, ServersStay
<1>5. ThreadsOK'
  <2>1. /\ want' \in [Threads -> {<< >>} \cup [row : Rows, clock : Nat, byThread : BOOLEAN]]
        /\ fetches' \in [Threads -> 0 .. 4]
    BY <1>1, <1>2 DEF ThreadsOK
  <2>2. UNCHANGED <<clock, threadIndex, threadRows, threadOplog, made, closed>> /\ read' = {}
    BY <1>2 DEF tableVars, ghostVars, NoRead
  <2> QED  BY <1>1, <2>1, <2>2 DEF ThreadsOK
<1>6. (\A u \in Threads \ {t} : want'[u] = want[u]) /\ want'[t] # << >>
  <2>1. << >> \notin [row : Rows, clock : Nat, byThread : BOOLEAN]
    OBVIOUS
  <2> QED  BY <1>1, <1>2, <2>1 DEF ThreadsOK
<1>7. "wait" \in Places /\ pending' \in [Threads -> 0 .. MaxAsync]
  BY <1>1, <1>2 DEF ReadersOK, Places
<1>8. ReadersOK'
  BY <1>1, <1>2, <1>6, <1>7, ReaderMoves
<1> QED  BY <1>2, <1>3, <1>4, <1>5, <1>8, BeyondReaders DEF CommonOK

\* A thread that gives up, one that asks ahead of time, and one that has all
\* its replies.
LEMMA AsyncTypes ==
  ASSUME PushTypes, NEW t \in Threads,
         \/ PushGetAbort(t) \/ WaitPendingAsyncGet(t)
         \/ \E r \in Rows, f \in BOOLEAN : GetAsync(t, r, f)
  PROVE  PushTypes'
<1>1. ThreadsOK /\ ClientsOK /\ ServersOK /\ ReadersOK
  BY DEF PushTypes, CommonOK
<1>2. /\ UNCHANGED <<threadVars, threadClocks, oplog, oplogIndex, cache, pinned, bgVars, serverVars,
                      bgToServer, serverToBg, ghostVars>>
      /\ UNCHANGED <<cachedClock, subscribed, notifying>> /\ read' = NoRead
      /\ aborted' \in [Clients -> BOOLEAN]
      /\ appToBg' = appToBg \/ \E m \in FromReader : SendToBg(t, m)
      /\ replies' \in [Threads -> Nat] /\ pending' \in [Threads -> 0 .. MaxAsync]
  <2>1. CASE PushGetAbort(t)
    <3>1. ReceiveReply(t)
      BY <2>1 DEF PushGetAbort
    <3>2. replies' \in [Threads -> Nat]
      BY <3>1, ReceiveReplyTypes
    <3>3. aborted' \in [Clients -> BOOLEAN]
      BY <1>1, <2>1 DEF PushGetAbort, ClientsOK
    <3>4. /\ UNCHANGED <<threadVars, threadClocks, oplog, oplogIndex, cache, pinned, bgVars, serverVars,
                          bgToServer, serverToBg, ghostVars>>
          /\ UNCHANGED <<cachedClock, subscribed, notifying, appToBg, pending>> /\ read' = NoRead
      BY <2>1 DEF PushGetAbort, channelVars, clockVars
    <3>5. pending' \in [Threads -> 0 .. MaxAsync]
      BY <1>1, <3>4 DEF ReadersOK
    <3> QED  BY <3>2, <3>3, <3>4, <3>5
  <2>2. CASE WaitPendingAsyncGet(t)
    <3>1. /\ UNCHANGED <<threadVars, threadClocks, oplog, oplogIndex, cache, pinned, bgVars, serverVars,
                          bgToServer, serverToBg, ghostVars>>
          /\ UNCHANGED <<cachedClock, subscribed, notifying, appToBg, aborted>> /\ read' = NoRead
          /\ replies[t] >= pending[t]
          /\ replies' = [replies EXCEPT ![t] = @ - pending[t]]
          /\ pending' = [pending EXCEPT ![t] = 0]
      BY <2>2 DEF WaitPendingAsyncGet, channelVars, clientVars, clockVars
    <3>2. replies[t] - pending[t] \in Nat
      BY <1>1, <3>1 DEF ReadersOK
    <3>3. replies' \in [Threads -> Nat]
      BY <1>1, <3>1, <3>2 DEF ReadersOK
    <3>4. 0 \in 0 .. MaxAsync
      BY PushAssumption
    <3>5. pending' \in [Threads -> 0 .. MaxAsync]
      BY <1>1, <3>1, <3>4 DEF ReadersOK
    <3>6. aborted' \in [Clients -> BOOLEAN]
      BY <1>1, <3>1 DEF ClientsOK
    <3> QED  BY <3>1, <3>3, <3>5, <3>6
  <2>3. ASSUME NEW r \in Rows, NEW f \in BOOLEAN, GetAsync(t, r, f)
        PROVE  /\ UNCHANGED <<threadVars, threadClocks, oplog, oplogIndex, cache, pinned, bgVars, serverVars,
                               bgToServer, serverToBg, ghostVars>>
               /\ UNCHANGED <<cachedClock, subscribed, notifying>> /\ read' = NoRead
               /\ aborted' \in [Clients -> BOOLEAN]
               /\ \E m \in FromReader : SendToBg(t, m)
               /\ replies' \in [Threads -> Nat] /\ pending' \in [Threads -> 0 .. MaxAsync]
    <3> DEFINE full == pending[t] = MaxAsync
    <3>1. /\ UNCHANGED <<threadVars, threadClocks, oplog, oplogIndex, cache, pinned, bgVars, serverVars,
                          bgToServer, serverToBg, ghostVars>>
          /\ UNCHANGED <<cachedClock, subscribed, notifying, aborted>> /\ read' = NoRead
          /\ SendToBg(t, PushRowRequest(r, clock[t], f))
          /\ full => replies[t] > 0
          /\ replies' = [replies EXCEPT ![t] = IF full THEN @ - 1 ELSE @]
          /\ pending' = [pending EXCEPT ![t] = IF full THEN @ ELSE @ + 1]
      BY <2>3 DEF GetAsync, clientVars, clockVars
    <3>2. PushRowRequest(r, clock[t], f) \in FromReader
      BY <1>1, RequestIsFromReader DEF ThreadsOK
    <3>3. replies[t] \in Nat /\ pending[t] \in 0 .. MaxAsync /\ MaxAsync \in Nat
      BY <1>1, PushAssumption DEF ReadersOK
    <3>4. /\ (IF full THEN replies[t] - 1 ELSE replies[t]) \in Nat
          /\ (IF full THEN pending[t] ELSE pending[t] + 1) \in 0 .. MaxAsync
      BY <3>1, <3>3
    <3> HIDE DEF full
    <3>5. replies' \in [Threads -> Nat] /\ pending' \in [Threads -> 0 .. MaxAsync]
      BY <1>1, <3>1, <3>4 DEF ReadersOK
    <3>6. aborted' \in [Clients -> BOOLEAN]
      BY <1>1, <3>1 DEF ClientsOK
    <3> HIDE DEF PushRowRequest
    <3> QED  BY <3>1, <3>2, <3>5, <3>6
  <2> QED  BY <2>1, <2>2, <2>3
<1>3. /\ UNCHANGED <<clock, pc, want, fetches, tableVars>>
      /\ UNCHANGED <<mgr, version, clientClock>>
  BY <1>2 DEF bgVars, threadVars
<1>4. ThreadsOK' /\ ServersOK'
  BY <1>1, <1>2, <1>3, ThreadsStay, ServersStay
<1>5. ClientsOK'
  BY <1>1, <1>2, <1>3 DEF ClientsOK
<1>6. cachedClock' \in [Threads -> Nat] /\ (pc'[t] = "wait" => want'[t] # << >>)
  BY <1>1, <1>2, <1>3 DEF ReadersOK
<1>7. ReadersOK'
  BY <1>1, <1>2, <1>3, <1>6, ReaderMoves
<1> QED  BY <1>2, <1>3, <1>4, <1>5, <1>7, BeyondReaders DEF CommonOK

\* Steps of threads keep the types.
LEMMA ThreadTypes ==
  ASSUME PushTypes, PushShapes, NEW t \in Threads, PushThreadNext(t)
  PROVE  PushTypes'
BY InheritedTypes, ClockCheckTypes, PushGetTypes, PushGetAgainTypes, AsyncTypes DEF PushThreadNext

\* A worker takes a message from the queue of a thread.
LEMMA FromReaderTypes ==
  ASSUME ReadersOK, NEW c \in Clients, NEW t \in Threads, NEW type, NextFromThread(c, t, type)
  PROVE  /\ appToBg' \in [Threads -> Seq(FromReader)]
         /\ Head(appToBg[t]) \in FromReader /\ Head(appToBg[t]).type = type
<1>1. /\ appToBg[t] # << >> /\ Head(appToBg[t]).type = type /\ appToBg' = [appToBg EXCEPT ![t] = Tail(@)]
      /\ appToBg[t] \in Seq(FromReader)
  BY DEF NextFromThread, NextFromApp, ReadersOK
<1>2. Tail(appToBg[t]) \in Seq(FromReader) /\ Head(appToBg[t]) \in FromReader
  BY <1>1, SeqParts
<1> QED  BY <1>1, <1>2 DEF ReadersOK

\* A row request of a thread.
LEMMA RequestOfReader ==
  ASSUME NEW m \in FromReader, m.type = "RowRequest"
  PROVE  m.row \in Rows /\ m.clock \in Nat /\ m.forced \in BOOLEAN
BY DEF FromReader

\* A step of a worker concerns the threads.
LEMMA ReadersHear ==
  ASSUME ReadersOK, UNCHANGED <<cachedClock, pending, want>>, pc' \in [Threads -> Places],
         replies' \in [Threads -> Nat], appToBg' \in [Threads -> Seq(FromReader)],
         \A t \in Threads : pc'[t] = "wait" => pc[t] = "wait"
  PROVE  ReadersOK'
BY DEF ReadersOK

\* A worker takes a message from the channel of a server.
LEMMA FromServerTypes ==
  ASSUME PushShapes, ChannelsOK, NEW c \in Clients, NEW s \in Servers, NEW type,
         NextFromServer(c, s, type)
  PROVE  /\ IsFromServer(s, Head(serverToBg[s][c])) /\ Head(serverToBg[s][c]).type = type
         /\ \A z \in Servers, d \in Clients : \A i \in DOMAIN serverToBg'[z][d] :
              IsFromServer(z, serverToBg'[z][d][i])
<1> DEFINE q == serverToBg[s][c]
<1>1. /\ IsSeq(q) /\ q # << >> /\ Head(q).type = type
      /\ serverToBg' = [serverToBg EXCEPT ![s][c] = Tail(q)]
      /\ DOMAIN serverToBg = Servers /\ \A z \in Servers : DOMAIN serverToBg[z] = Clients
  BY DEF PushShapes, NextFromServer
<1>2. \A i \in DOMAIN q : IsFromServer(s, q[i])
  BY DEF ChannelsOK
<1>3. /\ serverToBg'[s][c] = Tail(q)
      /\ \A z \in Servers, d \in Clients : z # s \/ d # c => serverToBg'[z][d] = serverToBg[z][d]
  BY <1>1
<1> HIDE DEF q
<1>4. /\ Len(q) \in Nat \ {0} /\ DOMAIN q = 1 .. Len(q) /\ Head(q) = q[1]
      /\ DOMAIN Tail(q) = 1 .. Len(q) - 1 /\ \A i \in 1 .. Len(q) - 1 : Tail(q)[i] = q[i + 1]
  BY <1>1, TailOfSeq
<1>5. IsFromServer(s, Head(q))
  BY <1>2, <1>4
<1>6. \A i \in DOMAIN Tail(q) : IsFromServer(s, Tail(q)[i])
  BY <1>2, <1>4
<1>7. ASSUME NEW z \in Servers, NEW d \in Clients, NEW i \in DOMAIN serverToBg'[z][d]
      PROVE  IsFromServer(z, serverToBg'[z][d][i])
  <2>1. CASE z = s /\ d = c
    BY <1>3, <1>6, <2>1
  <2>2. CASE z # s \/ d # c
    <3>1. serverToBg'[z][d] = serverToBg[z][d]
      BY <1>3, <2>2
    <3> QED  BY <3>1 DEF ChannelsOK
  <2> QED  BY <2>1, <2>2
<1> QED  BY <1>1, <1>5, <1>7 DEF q

\* The kinds of messages of a server.
LEMMA KindsFromServer ==
  ASSUME NEW s \in Servers, NEW m, IsFromServer(s, m)
  PROVE  /\ m.version \in Int
         /\ m.type = "RowReply" => /\ m.row \in Rows /\ ServerOf[m.row] = s
                                   /\ m.clock \in Nat /\ m.data \in Vec
         /\ m.type = "PushRow" => /\ DOMAIN m.rows \subseteq RowsOf(s)
                                  /\ \A r \in DOMAIN m.rows : m.rows[r] \in Vec
BY DEF IsFromServer, RowReplies, RowsOf

\* What is replayed on a row.
LEMMA ReplayedTypes ==
  ASSUME NEW c, NEW m, ManagerOK(m), NEW r \in Rows, NEW u \in Threads, NEW v
  PROVE  Replayed(c, m, r, u, v) \in Nat
<1> DEFINE log == m.oplogs
           old == {Mgr!Word(w) : w \in v + 1 .. version[c] - 1}
           S == {i \in DOMAIN log : log[i].version \in old}
           F == [i \in DOMAIN log |-> log[i].updates[r][u]]
<1>1. log \in Seq([version : Words, updates : Updates])
  BY DEF ManagerOK, IsPushMgr
<1> HIDE DEF log
<1>2. /\ Len(log) \in Nat /\ DOMAIN log = 1 .. Len(log)
      /\ \A i \in 1 .. Len(log) : log[i] \in [version : Words, updates : Updates]
  BY <1>1, SeqParts
<1>3. \A i \in DOMAIN log : log[i].updates[r][u] \in Nat
  BY <1>2 DEF Updates, Vec
<1>4. IsFiniteSet(S)
  <2>1. IsFiniteSet(1 .. Len(log))
    BY <1>2, FS_Interval
  <2> QED  BY <1>2, <2>1, FS_Subset
<1>5. \A i \in S : F[i] \in Nat
  BY <1>3
<1> HIDE DEF S, F
<1>6. SumFunctionOnSet(F, S) \in Nat
  BY <1>4, <1>5, SumIsNat
<1> QED  BY <1>6 DEF Replayed, F, S, log, old

\* The row a worker makes of a server's.
LEMMA RowFromServerTypes ==
  ASSUME ClientsOK, NEW c \in Clients, NEW m, ManagerOK(m), NEW r \in Rows, NEW v, NEW data \in Vec
  PROVE  RowFromServer(c, m, r, v, data) \in [clock : Nat \cup {-1}, data : Vec]
<1>1. \A u \in Threads : /\ data[u] \in Nat /\ oplog[c][r][u] \in Nat
                         /\ Replayed(c, m, r, u, v) \in Nat
  BY ReplayedTypes DEF ClientsOK, Updates, Vec
<1>2. \A u \in Threads : data[u] + Replayed(c, m, r, u, v) + oplog[c][r][u] \in Nat
  BY <1>1
<1> QED  BY <1>2 DEF RowFromServer, Vec

\* How many requests of a list are a thread's.
LEMMA AnswersAreNumber ==
  ASSUME NEW q, Len(q) \in Nat, DOMAIN q = 1 .. Len(q), NEW t
  PROVE  AnswersTo(q, t) \in Nat
<1>1. IsFiniteSet({i \in DOMAIN q : q[i].thread = t})
  <2>1. IsFiniteSet(1 .. Len(q))
    BY FS_Interval
  <2> QED  BY <2>1, FS_Subset
<1> QED  BY <1>1, FS_CardinalityType DEF AnswersTo

\* Messages of threads keep the types.
LEMMA FromThreadTypes ==
  ASSUME PushTypes, NEW c \in Clients, NEW t \in Threads,
         \/ PushRowRequestAnswered(c, t) \/ PushRowRequestForwarded(c, t)
         \/ PushHandleBgClock(c, t) \/ PushHandleBgSendOpLog(c, t)
  PROVE  PushTypes'
<1>1. ThreadsOK /\ ClientsOK /\ ServersOK /\ ReadersOK /\ ManagersOK /\ ChannelsOK
  BY DEF PushTypes, CommonOK
<1>2. /\ UNCHANGED <<threadVars, ghostVars, cachedClock, pending, clockVars, subscribed, serverToBg>>
      /\ read' = NoRead /\ \E type : NextFromThread(c, t, type)
  BY Zenon DEF PushRowRequestAnswered, PushRowRequestForwarded, PushHandleBgClock, PushHandleBgSendOpLog,
         PushSendOpLogs, pushVars, asyncVars
<1>3. ThreadsOK' /\ ChannelsOK'
  <2>1. UNCHANGED <<clock, want, fetches, tableVars, subscribed, notifying, serverToBg>>
    BY <1>2 DEF threadVars, clockVars
  <2>2. ThreadsOK'
    BY <1>1, <1>2, <2>1, ThreadsStay
  <2> QED  BY <1>1, <2>1, <2>2 DEF ChannelsOK, IsFromServer
<1>4. ASSUME replies' \in [Threads -> Nat] PROVE ReadersOK'
  <2>1. appToBg' \in [Threads -> Seq(FromReader)]
    BY <1>1, <1>2, FromReaderTypes
  <2>2. UNCHANGED <<pc, cachedClock, pending, want>>
    BY <1>2 DEF threadVars
  <2>3. pc' \in [Threads -> Places]
    BY <1>1, <2>2 DEF ReadersOK
  <2> QED  BY <1>1, <1>4, <2>1, <2>2, <2>3, ReadersHear
<1>5. CASE PushRowRequestAnswered(c, t)
  <2>1. /\ UNCHANGED <<clientVars, bgVars, serverVars, bgToServer>>
        /\ replies' = [replies EXCEPT ![t] = @ + 1]
    BY <1>5 DEF PushRowRequestAnswered
  <2>2. UNCHANGED <<version, clientClock, mgr>>
    BY <2>1 DEF bgVars
  <2>3. replies' \in [Threads -> Nat]
    BY <1>1, <2>1 DEF ReadersOK
  <2>4. ClientsOK' /\ ServersOK'
    BY <1>1, <2>1, <2>2, ClientsStay, ServersStay
  <2>5. ManagersOK'
    BY <1>1, <2>2 DEF ManagersOK, ManagerOK, IsPushMgr
  <2> QED  BY <1>3, <1>4, <2>3, <2>4, <2>5 DEF PushTypes, CommonOK
<1>6. CASE PushRowRequestForwarded(c, t)
  <2> DEFINE msg == Head(appToBg[t])
             s == ServerOf[msg.row]
             m == RowRequest(msg.row, msg.clock)
  <2>1. /\ NextFromThread(c, t, "RowRequest")
        /\ \E b \in StoredSent : mgr' = [mgr EXCEPT ![c] = Mgr!AddRowRequest(@, msg.row, t, msg.clock, b)]
        /\ bgToServer' = bgToServer \/ bgToServer' = [bgToServer EXCEPT ![c][s] = Append(@, m)]
        /\ UNCHANGED <<clientVars, version, clientClock, serverVars, replies>>
    BY <1>6, Zenon DEF PushRowRequestForwarded, pushVars, asyncVars
  <2>2. msg.row \in Rows /\ msg.clock \in Nat
    <3>1. msg \in FromReader /\ msg.type = "RowRequest"
      BY <1>1, <2>1, FromReaderTypes, Zenon
    <3> HIDE DEF msg
    <3> QED  BY <3>1, RequestOfReader
  <2>3. s \in Servers /\ m \in ToServer(s)
    BY <2>2, RowRequestToServer
  <2> HIDE DEF msg, s, m
  <2>4. ClientsOK' /\ ServersOK'
    BY <1>1, <2>1, <2>3, ClientsStay, ServersStay, ToServerTypes
  <2>5. ManagersOK'
    <3>1. PICK b \in StoredSent : mgr' = [mgr EXCEPT ![c] = Mgr!AddRowRequest(@, msg.row, t, msg.clock, b)]
      BY <2>1
    <3> DEFINE old == mgr[c]
               new == Mgr!AddRowRequest(old, msg.row, t, msg.clock, b)
    <3>2. b \in BOOLEAN /\ ManagerOK(old)
      BY <1>1, SettingsAssumption DEF ManagersOK
    <3>3. mgr' = [mgr EXCEPT ![c] = new]
      BY <3>1
    <3> HIDE DEF old
    <3>4. ManagerOK(new)
      BY <2>2, <3>2, PushAddRowRequestFacts DEF PushRequested
    <3> HIDE DEF new
    <3> QED  BY <1>1, <3>3, <3>4 DEF ManagersOK, ManagerOK, IsPushMgr
  <2>6. replies' \in [Threads -> Nat]
    BY <1>1, <2>1 DEF ReadersOK
  <2> QED  BY <1>3, <1>4, <2>4, <2>5, <2>6 DEF PushTypes, CommonOK
<1>7. CASE PushHandleBgClock(c, t) \/ PushHandleBgSendOpLog(c, t)
  <2>1. /\ UNCHANGED <<threadClocks, cache, pinned, aborted, serverVars, replies>>
        /\ mgr' = [mgr EXCEPT ![c] = Mgr!AddOpLog(@, Mgr!Word(version[c]), TakenOpLog(c))]
        /\ \E isClock \in BOOLEAN :
             /\ SendOpLogMsgs(c, isClock)
             /\ clientClock' = IF isClock THEN [clientClock EXCEPT ![c] = @ + 1] ELSE clientClock
    BY <1>7 DEF PushHandleBgClock, PushHandleBgSendOpLog, PushSendOpLogs, pushVars, asyncVars
  <2>2. ClientsOK' /\ ServersOK'
    BY <1>1, <2>1, SendOpLogMsgsTypes
  <2>3. ManagersOK'
    <3> DEFINE old == mgr[c]
               log == TakenOpLog(c)
               v == version[c]
               new == Mgr!AddOpLog(old, Mgr!Word(v), log)
    <3>1. ManagerOK(old) /\ log \in Updates /\ v \in Int
      BY <1>1, TakenTypes DEF ManagersOK, ClientsOK
    <3>2. mgr' = [mgr EXCEPT ![c] = new]
      BY <2>1
    <3> HIDE DEF old, log, v
    <3>3. ManagerOK(new)
      BY <3>1, PushAddOpLogFacts
    <3> HIDE DEF new
    <3> QED  BY <1>1, <3>2, <3>3 DEF ManagersOK, ManagerOK, IsPushMgr
  <2>4. replies' \in [Threads -> Nat]
    BY <1>1, <2>1 DEF ReadersOK
  <2> QED  BY <1>3, <1>4, <2>2, <2>3, <2>4 DEF PushTypes, CommonOK
<1> QED  BY <1>5, <1>6, <1>7

\* HandleServerRowRequestReply keeps them.
LEMMA PushHandleReplyTypes ==
  ASSUME PushTypes, PushShapes, NEW c \in Clients, NEW s \in Servers, PushHandleReply(c, s)
  PROVE  PushTypes'
<1> DEFINE reply == Head(serverToBg[s][c])
           r     == reply.row
           k     == reply.clock
           done  == Mgr!Satisfied(mgr[c], r, k)
           again == Mgr!ClockToRequest(mgr[c], r, k)
           acked == Acknowledged(c, s, reply)
           row   == RowFromServer(c, acked, r, reply.version, reply.data)
           new   == Mgr!InformReply(acked, r, k)
           m     == RowRequest(r, again)
<1>1. ThreadsOK /\ ClientsOK /\ ServersOK /\ ReadersOK /\ ManagersOK /\ ChannelsOK
  BY DEF PushTypes, CommonOK
<1>2. /\ NextFromServer(c, s, "RowReply")
      /\ \E after \in CachesAfter(c, r, row) : cache' = [cache EXCEPT ![c] = after]
      /\ mgr' = [mgr EXCEPT ![c] = new]
      /\ replies' = [t \in Threads |-> replies[t] + AnswersTo(done, t)]
      /\ bgToServer' = IF again >= 0 THEN [bgToServer EXCEPT ![c][ServerOf[r]] = Append(@, m)]
                       ELSE bgToServer
      /\ read' = NoRead
      /\ UNCHANGED <<threadVars, threadClocks, oplog, oplogIndex, pinned, aborted, version,
                     clientClock, serverVars, appToBg, ghostVars, cachedClock, pending,
                     clockVars, subscribed, dirty>>
  BY Zenon DEF PushHandleReply
<1>3. /\ r \in Rows /\ k \in Nat /\ reply.version \in Int /\ reply.data \in Vec /\ ServerOf[r] = s
      /\ \A z \in Servers, d \in Clients : \A i \in DOMAIN serverToBg'[z][d] :
           IsFromServer(z, serverToBg'[z][d][i])
  <2>1. /\ IsFromServer(s, reply) /\ reply.type = "RowReply"
        /\ \A z \in Servers, d \in Clients : \A i \in DOMAIN serverToBg'[z][d] :
             IsFromServer(z, serverToBg'[z][d][i])
    BY <1>1, <1>2, FromServerTypes, Zenon
  <2> HIDE DEF reply
  <2> QED  BY <2>1, KindsFromServer
<1>4. ManagerOK(mgr[c])
  BY <1>1 DEF ManagersOK
<1>5. ManagerOK(acked)
  BY <1>3, <1>4, AcknowledgeFacts DEF Acknowledged
<1> HIDE DEF reply
<1>6. row \in [clock : Nat \cup {-1}, data : Vec]
  <2> HIDE DEF acked, r
  <2> QED  BY <1>1, <1>3, <1>5, RowFromServerTypes
<1>7. ManagerOK(new)
  <2> HIDE DEF acked, r, k
  <2> QED  BY <1>3, <1>5, PushInformReplyFacts DEF PushAnswered
<1>8. again \in Nat \/ again = -1
  <2> DEFINE old == mgr[c]
  <2>1. ManagerOK(old)
    BY <1>4
  <2> HIDE DEF r, k, old
  <2>2. PushAnswered(old, Mgr!InformReply(old, r, k), r, Len(Satisfied(old, r, k)),
                     Mgr!ClockToRequest(old, r, k))
    BY <1>3, <2>1, PushInformReplyFacts
  <2> QED  BY <2>2 DEF PushAnswered, old
<1>9. \A t \in Threads : AnswersTo(done, t) \in Nat
  <2> DEFINE old == mgr[c]
  <2>1. old.pending[r] \in Seq(PushRequest) /\ \A e \in PushRequest : e.clock \in Nat
    BY <1>3, <1>4 DEF ManagerOK, IsPushMgr, PushRequest
  <2> HIDE DEF r, k, old
  <2>2. Len(Satisfied(old, r, k)) \in Nat /\ DOMAIN Satisfied(old, r, k) = 1 .. Len(Satisfied(old, r, k))
    BY <1>3, <2>1, SatisfiedIsHead
  <2>3. done = Satisfied(old, r, k)
    BY SatisfiedOf DEF old
  <2> QED  BY <2>2, <2>3, AnswersAreNumber
<1> HIDE DEF again, acked, row, new, done, k, r
<1>10. ThreadsOK'
  BY <1>1, <1>2, ThreadsStay DEF threadVars
<1>11. ClientsOK'
  <2>1. PICK after \in CachesAfter(c, r, row) : cache' = [cache EXCEPT ![c] = after]
    BY <1>2
  <2>2. after \in [Rows -> [clock : Nat \cup {-1}, data : Vec]]
    BY <1>1, <1>3, <1>6, CachesAfterTypes
  <2> QED  BY <1>1, <1>2, <2>1, <2>2 DEF ClientsOK
<1>12. ServersOK'
  <2>1. CASE again >= 0
    <3>1. m \in ToServer(s) /\ bgToServer' = [bgToServer EXCEPT ![c][s] = Append(@, m)]
      BY <1>2, <1>3, <1>8, <2>1, RowRequestToServer
    <3> HIDE DEF m
    <3> QED  BY <1>1, <1>2, <3>1, ToServerTypes
  <2>2. CASE ~(again >= 0)
    BY <1>1, <1>2, <2>2, ServersStay
  <2> QED  BY <2>1, <2>2
<1>13. ReadersOK'
  <2>1. replies' \in [Threads -> Nat]
    BY <1>1, <1>2, <1>9 DEF ReadersOK
  <2>2. UNCHANGED <<pc, cachedClock, pending, want, appToBg>>
    BY <1>2 DEF threadVars
  <2>3. pc' \in [Threads -> Places] /\ appToBg' \in [Threads -> Seq(FromReader)]
    BY <1>1, <2>2 DEF ReadersOK
  <2> QED  BY <1>1, <2>1, <2>2, <2>3, ReadersHear
<1>14. ManagersOK'
  BY <1>1, <1>2, <1>7 DEF ManagersOK, ManagerOK, IsPushMgr
<1>15. ChannelsOK'
  BY <1>1, <1>2, <1>3 DEF ChannelsOK, clockVars, IsFromServer
<1> QED  BY <1>10, <1>11, <1>12, <1>13, <1>14, <1>15 DEF PushTypes, CommonOK

\* HandleServerPushRow keeps them.
LEMMA HandleServerPushRowTypes ==
  ASSUME PushTypes, PushShapes, NEW c \in Clients, NEW s \in Servers, HandleServerPushRow(c, s)
  PROVE  PushTypes'
<1> DEFINE msg == Head(serverToBg[s][c])
           acked == Acknowledged(c, s, msg)
           row(r) == RowFromServer(c, acked, r, msg.version, msg.rows[r])
           after == [r \in Rows |-> IF r \in DOMAIN msg.rows \cap CachedRows(c) THEN row(r) ELSE cache[c][r]]
<1>1. ThreadsOK /\ ClientsOK /\ ServersOK /\ ReadersOK /\ ManagersOK /\ ChannelsOK
  BY DEF PushTypes, CommonOK
<1>2. /\ NextFromServer(c, s, "PushRow")
      /\ mgr' = [mgr EXCEPT ![c] = acked]
      /\ IF msg.isClock THEN TickSystemClock(c, s, msg) ELSE UNCHANGED clockVars
      /\ read' = NoRead
      /\ UNCHANGED <<threadVars, threadClocks, oplog, oplogIndex, pinned, aborted, version,
                     clientClock, serverVars, appToBg, bgToServer, ghostVars, cachedClock,
                     asyncVars, subscribed, dirty>>
  BY DEF HandleServerPushRow
<1>3. /\ DOMAIN msg.rows \subseteq RowsOf(s) /\ msg.version \in Int
      /\ \A r \in DOMAIN msg.rows : msg.rows[r] \in Vec
      /\ \A z \in Servers, d \in Clients : \A i \in DOMAIN serverToBg'[z][d] :
           IsFromServer(z, serverToBg'[z][d][i])
  <2>1. /\ IsFromServer(s, msg) /\ msg.type = "PushRow"
        /\ \A z \in Servers, d \in Clients : \A i \in DOMAIN serverToBg'[z][d] :
             IsFromServer(z, serverToBg'[z][d][i])
    BY <1>1, <1>2, FromServerTypes
  <2> HIDE DEF msg
  <2> QED  BY <2>1, KindsFromServer
<1>4. ManagerOK(mgr[c])
  BY <1>1 DEF ManagersOK
<1>5. ManagerOK(acked)
  BY <1>3, <1>4, AcknowledgeFacts DEF Acknowledged
<1>6. cache' = [cache EXCEPT ![c] = after]
  <2>1. mgr'[c] = acked
    BY <1>1, <1>2 DEF ManagersOK
  <2>2. ApplyServerPushedRow(c, mgr'[c], msg)
    BY DEF HandleServerPushRow
  <2> HIDE DEF msg, acked
  <2>3. ApplyServerPushedRow(c, acked, msg)
    BY <2>1, <2>2
  <2> QED  BY <1>1, <2>3 DEF ApplyServerPushedRow, ClientsOK
<1> HIDE DEF msg, acked
<1>7. after \in [Rows -> [clock : Nat \cup {-1}, data : Vec]]
  <2> SUFFICES ASSUME NEW r \in Rows
               PROVE  (IF r \in DOMAIN msg.rows \cap CachedRows(c) THEN row(r) ELSE cache[c][r])
                        \in [clock : Nat \cup {-1}, data : Vec]
    OBVIOUS
  <2>1. CASE r \in DOMAIN msg.rows \cap CachedRows(c)
    <3>1. msg.rows[r] \in Vec
      BY <1>3, <2>1
    <3>2. row(r) \in [clock : Nat \cup {-1}, data : Vec]
      BY <1>1, <1>5, <3>1, RowFromServerTypes
    <3> HIDE DEF row
    <3> QED  BY <2>1, <3>2
  <2>2. CASE ~(r \in DOMAIN msg.rows \cap CachedRows(c))
    <3> HIDE DEF row
    <3> QED  BY <1>1, <2>2 DEF ClientsOK
  <2> QED  BY <2>1, <2>2
<1> HIDE DEF after
<1>8. ThreadsOK'
  BY <1>1, <1>2, ThreadsStay DEF threadVars
<1>9. ClientsOK'
  BY <1>1, <1>2, <1>6, <1>7 DEF ClientsOK
<1>10. ServersOK'
  BY <1>1, <1>2, ServersStay
<1>11. ReadersOK'
  BY <1>1, <1>2, ReadersStay DEF threadVars, asyncVars
<1>12. ManagersOK'
  BY <1>1, <1>2, <1>5 DEF ManagersOK, ManagerOK, IsPushMgr
<1>13. ChannelsOK'
  <2>1. notifying' \in [Clients -> BOOLEAN]
    <3>1. CASE msg.isClock
      <4>1. notifying' = [notifying EXCEPT ![c] = (TickUntilResult(serverClock[c], s, msg.clock) # 0)]
        BY <1>2, <3>1 DEF TickSystemClock
      <4> QED  BY <1>1, <4>1 DEF ChannelsOK
    <3>2. CASE ~msg.isClock
      BY <1>1, <1>2, <3>2 DEF ChannelsOK, clockVars
    <3> QED  BY <3>1, <3>2
  <2>2. subscribed' = subscribed
    BY <1>2
  <2> QED  BY <1>1, <1>3, <2>1, <2>2 DEF ChannelsOK, IsFromServer
<1> QED  BY <1>8, <1>9, <1>10, <1>11, <1>12, <1>13 DEF PushTypes, CommonOK

\* An acknowledgement keeps them.
LEMMA HandleServerOpLogAckTypes ==
  ASSUME PushTypes, PushShapes, NEW c \in Clients, NEW s \in Servers, HandleServerOpLogAck(c, s)
  PROVE  PushTypes'
<1> DEFINE msg == Head(serverToBg[s][c])
           acked == Acknowledged(c, s, msg)
<1>1. ThreadsOK /\ ClientsOK /\ ServersOK /\ ReadersOK /\ ManagersOK /\ ChannelsOK
  BY DEF PushTypes, CommonOK
<1>2. /\ NextFromServer(c, s, "OpLogAck")
      /\ mgr' = [mgr EXCEPT ![c] = acked]
      /\ read' = NoRead
      /\ UNCHANGED <<threadVars, clientVars, version, clientClock, serverVars, appToBg,
                     bgToServer, ghostVars, pushVars>>
  BY DEF HandleServerOpLogAck
<1>3. /\ msg.version \in Int
      /\ \A z \in Servers, d \in Clients : \A i \in DOMAIN serverToBg'[z][d] :
           IsFromServer(z, serverToBg'[z][d][i])
  <2>1. /\ IsFromServer(s, msg)
        /\ \A z \in Servers, d \in Clients : \A i \in DOMAIN serverToBg'[z][d] :
             IsFromServer(z, serverToBg'[z][d][i])
    BY <1>1, <1>2, FromServerTypes
  <2> HIDE DEF msg
  <2> QED  BY <2>1, KindsFromServer
<1>4. ManagerOK(mgr[c])
  BY <1>1 DEF ManagersOK
<1>5. ManagerOK(acked)
  BY <1>3, <1>4, AcknowledgeFacts DEF Acknowledged
<1> HIDE DEF msg, acked
<1>6. ThreadsOK' /\ ClientsOK' /\ ServersOK' /\ ReadersOK'
  BY <1>1, <1>2, ThreadsStay, ClientsStay, ServersStay, ReadersStay DEF threadVars, pushVars, asyncVars
<1>7. ManagersOK'
  BY <1>1, <1>2, <1>5 DEF ManagersOK, ManagerOK, IsPushMgr
<1>8. ChannelsOK'
  BY <1>1, <1>2, <1>3 DEF ChannelsOK, pushVars, clockVars, IsFromServer
<1> QED  BY <1>6, <1>7, <1>8 DEF PushTypes, CommonOK

\* Waking the threads keeps them.
LEMMA NotifyAllTypes ==
  ASSUME PushTypes, NEW c \in Clients, NotifyAll(c)
  PROVE  PushTypes'
<1>1. ThreadsOK /\ ClientsOK /\ ServersOK /\ ReadersOK /\ ManagersOK /\ ChannelsOK
  BY DEF PushTypes, CommonOK
<1>2. /\ notifying' = [notifying EXCEPT ![c] = FALSE]
      /\ pc' = [t \in Threads |-> IF ClientOf[t] = c /\ pc[t] = "blocked" THEN "woken" ELSE pc[t]]
      /\ read' = NoRead
      /\ UNCHANGED <<clock, want, fetches, tableVars, clientVars, version, clientClock, mgr, serverVars,
                     appToBg, bgToServer, serverToBg, ghostVars, cachedClock, replies, pending, subscribed>>
  BY DEF NotifyAll, bgVars, channelVars, asyncVars
<1>3. ThreadsOK' /\ ClientsOK' /\ ServersOK'
  BY <1>1, <1>2, ThreadsStay, ClientsStay, ServersStay
<1>4. ReadersOK'
  <2>1. pc' \in [Threads -> Places] /\ \A t \in Threads : pc'[t] = "wait" => pc[t] = "wait"
    BY <1>1, <1>2 DEF ReadersOK, Places
  <2> QED  BY <1>1, <1>2, <2>1 DEF ReadersOK
<1>5. ManagersOK'
  BY <1>1, <1>2 DEF ManagersOK, ManagerOK, IsPushMgr
<1>6. ChannelsOK'
  BY <1>1, <1>2 DEF ChannelsOK, IsFromServer
<1> QED  BY <1>3, <1>4, <1>5, <1>6 DEF PushTypes, CommonOK

\* Steps of workers keep the types.
LEMMA BgTypes ==
  ASSUME PushTypes, PushShapes, NEW c \in Clients, PushBgNext(c)
  PROVE  PushTypes'
BY FromThreadTypes, PushHandleReplyTypes, HandleServerPushRowTypes, HandleServerOpLogAckTypes,
   NotifyAllTypes DEF PushBgNext

\* The smaller of two numbers.
LEMMA SmallerIs ==
  ASSUME NEW a \in Int, NEW b \in Int
  PROVE  Min({a, b}) \in Int /\ Min({a, b}) <= b
<1>1. \E x \in {a, b} : \A y \in {a, b} : x <= y
  OBVIOUS
<1> QED  BY <1>1 DEF Min

\* The messages of a push have their type.
LEMMA PushesTypes ==
  ASSUME ServersOK', NEW s \in Servers, NEW d \in Clients, NEW k \in Nat,
         NEW rows, rows \subseteq RowsOf(s), IsFiniteSet(rows)
  PROVE  \A i \in DOMAIN PushMsgs(s, d, k, rows) : IsFromServer(s, PushMsgs(s, d, k, rows)[i])
<1> DEFINE list == SetToSeq(rows)
           last == Max({1, (Len(list) + PushCapacity - 1) \div PushCapacity})
           part(i) == {list[j] : j \in (i - 1) * PushCapacity + 1 .. Min({i * PushCapacity, Len(list)})}
           msg(i) == [type |-> "PushRow", version |-> bgVersion'[s][d], isClock |-> i = last,
                      clock |-> IF i = last THEN k ELSE 0, rows |-> [r \in part(i) |-> table'[s][r]]]
           q == PushMsgs(s, d, k, rows)
<1>1. q = [i \in 1 .. last |-> msg(i)]
  BY DEF PushMsgs
<1>2. Len(list) \in Nat /\ \A i \in 1 .. Len(list) : list[i] \in rows
  BY ListElements
<1>3. \A i \in Int : i >= 1 => part(i) \subseteq rows
  <2> SUFFICES ASSUME NEW i \in Int, i >= 1,
                      NEW j \in (i - 1) * PushCapacity + 1 .. Min({i * PushCapacity, Len(list)})
               PROVE  list[j] \in rows
    OBVIOUS
  <2> DEFINE p == (i - 1) * PushCapacity
             e == i * PushCapacity
             n == Len(list)
             u == Min({e, n})
  <2>1. p \in Int /\ p >= 0 /\ e \in Int
    BY PushAssumption
  <2>2. n \in Nat
    BY <1>2
  <2> HIDE DEF p, e, n
  <2>3. u \in Int /\ u <= n
    BY <2>1, <2>2, SmallerIs
  <2>4. j \in p + 1 .. u
    BY DEF p, e, n
  <2> HIDE DEF u
  <2>5. j \in 1 .. n
    BY <2>1, <2>2, <2>3, <2>4
  <2> QED  BY <1>2, <2>5 DEF n
<1> HIDE DEF list, last, part
<1>4. ASSUME NEW i \in Int, i >= 1 PROVE IsFromServer(s, msg(i))
  <2> DEFINE b == i = last
             e == IF i = last THEN k ELSE 0
             g == bgVersion'[s][d]
             h == [r \in part(i) |-> table'[s][r]]
  <2>1. msg(i) = [type |-> "PushRow", version |-> g, isClock |-> b, clock |-> e, rows |-> h]
    OBVIOUS
  <2>2. b \in BOOLEAN /\ e \in Nat /\ g \in Int
    BY DEF ServersOK
  <2>3. DOMAIN h \subseteq RowsOf(s) /\ \A r \in DOMAIN h : h[r] \in Vec
    <3>1. part(i) \subseteq RowsOf(s)
      BY <1>3, <1>4
    <3>2. table'[s] \in [RowsOf(s) -> Vec]
      BY DEF ServersOK
    <3> QED  BY <3>1, <3>2
  <2> HIDE DEF msg, b, e, g, h
  <2>4. /\ msg(i).type = "PushRow" /\ msg(i).isClock = b /\ msg(i).clock = e /\ msg(i).version = g
        /\ msg(i).rows = h
    BY <2>1
  <2> QED  BY <2>2, <2>3, <2>4 DEF IsFromServer
<1> HIDE DEF msg
<1>5. \A i \in DOMAIN q : i \in Int /\ i >= 1 /\ q[i] = msg(i)
  <2> HIDE DEF q
  <2>1. DOMAIN q = 1 .. last /\ \A i \in 1 .. last : q[i] = msg(i)
    BY <1>1
  <2>2. \A i \in 1 .. last : i \in Int /\ i >= 1
    OBVIOUS
  <2> QED  BY <2>1, <2>2
<1> HIDE DEF q
<1>6. \A i \in DOMAIN q : IsFromServer(s, q[i])
  BY <1>4, <1>5
<1> QED  BY <1>6 DEF q

\* What a server leaves alone.
LEMMA BeyondServers ==
  ASSUME PushTypes, ThreadsOK', ClientsOK', ServersOK',
         UNCHANGED <<pc, cachedClock, replies, pending, appToBg, want, mgr, notifying>>,
         DOMAIN subscribed' = Servers,
         \A s \in Servers : subscribed'[s] \in [RowsOf(s) -> SUBSET Clients],
         \A s \in Servers, c \in Clients : \A i \in DOMAIN serverToBg'[s][c] :
           IsFromServer(s, serverToBg'[s][c][i])
  PROVE  PushTypes'
<1>1. ReadersOK /\ ManagersOK /\ ChannelsOK
  BY DEF PushTypes
<1>2. ReadersOK'
  BY <1>1, ReadersStay
<1>3. ManagersOK'
  BY <1>1 DEF ManagersOK, ManagerOK, IsPushMgr
<1>4. ChannelsOK'
  BY <1>1 DEF ChannelsOK, IsFromServer
<1> QED  BY <1>2, <1>3, <1>4 DEF PushTypes, CommonOK

\* A message more on a channel.
LEMMA ServerSends ==
  ASSUME PushShapes, ChannelsOK, NEW s \in Servers, NEW c \in Clients, NEW m, IsFromServer(s, m),
         serverToBg' = [serverToBg EXCEPT ![s][c] = Append(@, m)]
  PROVE  \A z \in Servers, d \in Clients : \A i \in DOMAIN serverToBg'[z][d] :
           IsFromServer(z, serverToBg'[z][d][i])
<1> DEFINE q == serverToBg[s][c]
<1>1. /\ IsSeq(q) /\ \A i \in DOMAIN q : IsFromServer(s, q[i])
      /\ serverToBg'[s][c] = Append(q, m)
      /\ \A z \in Servers, d \in Clients : z # s \/ d # c => serverToBg'[z][d] = serverToBg[z][d]
  BY DEF PushShapes, ChannelsOK
<1> HIDE DEF q
<1>2. \A i \in DOMAIN Append(q, m) : IsFromServer(s, Append(q, m)[i])
  <2>1. /\ Len(q) \in Nat /\ DOMAIN q = 1 .. Len(q)
        /\ DOMAIN Append(q, m) = 1 .. Len(q) + 1
        /\ \A i \in 1 .. Len(q) : Append(q, m)[i] = q[i]
        /\ Append(q, m)[Len(q) + 1] = m
    BY <1>1, AppendToSeq
  <2>2. \A i \in 1 .. Len(q) + 1 : i \in 1 .. Len(q) \/ i = Len(q) + 1
    BY <2>1
  <2> QED  BY <1>1, <2>1, <2>2
<1>3. ASSUME NEW z \in Servers, NEW d \in Clients, NEW i \in DOMAIN serverToBg'[z][d]
      PROVE  IsFromServer(z, serverToBg'[z][d][i])
  <2>1. CASE z = s /\ d = c
    BY <1>1, <1>2, <2>1
  <2>2. CASE z # s \/ d # c
    <3>1. serverToBg'[z][d] = serverToBg[z][d]
      BY <1>1, <2>2
    <3> QED  BY <3>1 DEF ChannelsOK
  <2> QED  BY <2>1, <2>2
<1> QED  BY <1>3

\* Row requests at a server keep the types.
LEMMA ServerRequestTypes ==
  ASSUME PushTypes, PushShapes, NEW c \in Clients, NEW s \in Servers,
         \/ RowRequestBuffered(s, c) /\ UNCHANGED pushVars
         \/ PushRowRequestReplied(s, c)
  PROVE  PushTypes'
<1>1. ThreadsOK /\ ClientsOK /\ ServersOK /\ ReadersOK /\ ManagersOK /\ ChannelsOK
  BY DEF PushTypes, CommonOK
<1>2. CASE RowRequestBuffered(s, c) /\ UNCHANGED pushVars
  <2>1. ThreadsOK' /\ ClientsOK' /\ ServersOK'
    BY <1>1, <1>2, RowRequestBufferedTypes
  <2>2. UNCHANGED <<pc, cachedClock, replies, pending, appToBg, want, mgr, notifying, subscribed, serverToBg>>
    BY <1>2, Zenon DEF RowRequestBuffered, pushVars, asyncVars, clockVars, threadVars, bgVars
  <2> QED  BY <1>1, <2>1, <2>2, OthersStay, ReadersStay DEF PushTypes, CommonOK
<1>3. CASE PushRowRequestReplied(s, c)
  <2> DEFINE r == Head(bgToServer[c][s]).row
  <2>1. /\ RowRequestReplied(s, c)
        /\ subscribed' = [subscribed EXCEPT ![s][r] = @ \cup {c}]
        /\ UNCHANGED <<cachedClock, replies, pending, notifying>>
    BY <1>3 DEF PushRowRequestReplied, asyncVars, clockVars
  <2>2. /\ ThreadsOK' /\ ClientsOK' /\ ServersOK'
        /\ \E m \in RowReplies(s) : serverToBg' = [serverToBg EXCEPT ![s][c] = Append(@, m)]
        /\ r \in RowsOf(s)
    BY <1>1, <2>1, RowRequestRepliedTypes
  <2>3. UNCHANGED <<pc, appToBg, want, mgr>>
    BY <2>1 DEF RowRequestReplied, threadVars, bgVars
  <2> HIDE DEF r
  <2>4. /\ DOMAIN subscribed' = Servers
        /\ \A z \in Servers : subscribed'[z] \in [RowsOf(z) -> SUBSET Clients]
    BY <1>1, <2>1, <2>2 DEF ChannelsOK
  <2>5. \A z \in Servers, d \in Clients : \A i \in DOMAIN serverToBg'[z][d] :
          IsFromServer(z, serverToBg'[z][d][i])
    <3>1. PICK m \in RowReplies(s) : serverToBg' = [serverToBg EXCEPT ![s][c] = Append(@, m)]
      BY <2>2
    <3>2. IsFromServer(s, m)
      BY DEF IsFromServer
    <3> QED  BY <1>1, <3>1, <3>2, ServerSends
  <2> QED  BY <2>1, <2>2, <2>3, <2>4, <2>5, BeyondServers
<1> QED  BY <1>2, <1>3

\* Messages of a server after messages of the same.
LEMMA BothFromServer ==
  ASSUME NEW s, NEW p, IsSeq(p), \A i \in DOMAIN p : IsFromServer(s, p[i]),
         NEW q, IsSeq(q), \A i \in DOMAIN q : IsFromServer(s, q[i])
  PROVE  IsSeq(p \o q) /\ \A i \in DOMAIN (p \o q) : IsFromServer(s, (p \o q)[i])
<1> DEFINE a == p \o q
           m == Len(p)
           n == Len(q)
<1>1. IsSeq(a)
  BY ConcatToSeq
<1> HIDE DEF a, m, n
<1>2. /\ m \in Nat /\ DOMAIN p = 1 .. m /\ n \in Nat /\ DOMAIN q = 1 .. n
      /\ DOMAIN a = 1 .. m + n
      /\ \A i \in 1 .. m : a[i] = p[i]
      /\ \A i \in 1 .. n : a[m + i] = q[i]
  <2>1. a = p \o q /\ m = Len(p) /\ n = Len(q)
    BY DEF a, m, n
  <2> QED  BY <2>1, ConcatIs
<1>3. \A i \in DOMAIN a : IsFromServer(s, a[i])
  <2> SUFFICES ASSUME NEW i \in DOMAIN a PROVE IsFromServer(s, a[i])
    OBVIOUS
  <2>1. CASE i <= m
    <3>1. i \in 1 .. m
      BY <1>2, <2>1
    <3> QED  BY <1>2, <3>1
  <2>2. CASE ~(i <= m)
    <3>1. i - m \in 1 .. n /\ m + (i - m) = i
      BY <1>2, <2>2
    <3>2. a[i] = q[i - m]
      BY <1>2, <3>1
    <3> QED  BY <1>2, <3>1, <3>2
  <2> QED  BY <2>1, <2>2
<1> QED  BY <1>1, <1>3 DEF a

\* HandleOpLogMsg keeps them.
LEMMA PushHandleOpLogTypes ==
  ASSUME PushTypes, PushInv, NEW c \in Clients, NEW s \in Servers, PushHandleOpLog(s, c)
  PROVE  PushTypes'
<1> DEFINE msg == Head(bgToServer[c][s])
           k == ClockUntil(s, c, msg).min
           changed == Changed(s, msg)
           rows(d) == {r \in changed : d \in subscribed'[s][r]}
<1>1. /\ ThreadsOK /\ ClientsOK /\ ServersOK /\ ReadersOK /\ ManagersOK /\ ChannelsOK
      /\ IInv /\ PushShapes
  BY DEF PushTypes, CommonOK, PushInv, SharedInv
<1>2. ClocksBounded
  BY WorkersAreBounded DEF PushInv, SharedInv, ThreadsBounded
<1>3. OpLogHandled(s, c) /\ NextFromBg(s, c, "OpLog")
  BY PushOpLogIsHandled DEF PushHandleOpLog
<1>4. /\ ServersOK' /\ k \in 0 .. MaxClock
      /\ \A d \in Clients : /\ FulfilledRowRequests(s, k, d) \in Seq(RowsOf(s))
                            /\ FulfilledReplies(s, k, d) \in Seq(RowReplies(s))
  BY <1>1, <1>2, <1>3, OpLogTypes
<1>5. /\ read' = NoRead
      /\ UNCHANGED <<threadVars, clientVars, bgVars, appToBg, ghostVars, cachedClock, asyncVars, clockVars>>
  BY DEF PushHandleOpLog
<1>6. ThreadsOK' /\ ClientsOK'
  BY <1>1, <1>5, ThreadsStay, ClientsStay DEF threadVars, bgVars
<1>7. UNCHANGED <<pc, cachedClock, replies, pending, appToBg, want, mgr, notifying>>
  BY <1>5 DEF threadVars, bgVars, asyncVars, clockVars
<1>8. /\ DOMAIN subscribed' = Servers
      /\ \A z \in Servers : subscribed'[z] \in [RowsOf(z) -> SUBSET Clients]
  <2>1. CASE ClockChanges(s, c, msg)
    <3>1. ReplyAndPush(s, k, changed)
      BY <2>1 DEF PushHandleOpLog
    <3> HIDE DEF k, changed, msg
    <3>2. subscribed' = [subscribed EXCEPT ![s] = [r \in RowsOf(s) |->
            subscribed[s][r] \cup {d \in Clients : r \in ToSet(FulfilledRowRequests(s, k, d))}]]
      BY <3>1 DEF ReplyAndPush
    <3> QED  BY <1>1, <3>2 DEF ChannelsOK
  <2>2. CASE ~ClockChanges(s, c, msg)
    <3>1. subscribed' = subscribed
      BY <2>2 DEF PushHandleOpLog
    <3> QED  BY <1>1, <3>1 DEF ChannelsOK
  <2> QED  BY <2>1, <2>2
<1>9. changed \subseteq RowsOf(s) /\ IsFiniteSet(changed)
  <2>1. changed \subseteq RowsOf(s) /\ RowsOf(s) \subseteq Rows
    BY <1>1 DEF Changed, PushShapes, RowsOf
  <2> QED  BY <2>1, PushAssumption, FS_Subset
<1>10. \A z \in Servers, d \in Clients : \A i \in DOMAIN serverToBg'[z][d] :
         IsFromServer(z, serverToBg'[z][d][i])
  <2>1. CASE ClockChanges(s, c, msg)
    <3> DEFINE after(d) == serverToBg[s][d] \o FulfilledReplies(s, k, d) \o PushMsgs(s, d, k, rows(d))
    <3>1. serverToBg' = [serverToBg EXCEPT ![s] = [d \in Clients |-> after(d)]]
      <4>1. ReplyAndPush(s, k, changed)
        BY <2>1 DEF PushHandleOpLog
      <4> HIDE DEF k, changed, msg
      <4> QED  BY <4>1 DEF ReplyAndPush
    <3>2. ASSUME NEW d \in Clients, NEW i \in DOMAIN after(d) PROVE IsFromServer(s, after(d)[i])
      <4> DEFINE p == serverToBg[s][d]
                 u == FulfilledReplies(s, k, d)
                 w == PushMsgs(s, d, k, rows(d))
                 pu == p \o u
      <4>1. rows(d) \subseteq RowsOf(s) /\ IsFiniteSet(rows(d)) /\ k \in Nat
        <5> HIDE DEF changed, k
        <5>1. rows(d) \subseteq changed /\ k \in Nat
          BY <1>4
        <5> QED  BY <1>9, <5>1, FS_Subset
      <4>2. \A j \in DOMAIN w : IsFromServer(s, w[j])
        <5> HIDE DEF rows, k
        <5> QED  BY <1>4, <4>1, PushesTypes
      <4>3. IsSeq(w)
        <5> HIDE DEF rows, k
        <5> QED  BY <4>1, PushesOf
      <4>4. IsSeq(u) /\ \A j \in DOMAIN u : IsFromServer(s, u[j])
        <5>1. u \in Seq(RowReplies(s))
          BY <1>4
        <5> HIDE DEF u
        <5>2. IsSeq(u) /\ \A j \in DOMAIN u : u[j] \in RowReplies(s)
          BY <5>1, SeqParts
        <5> QED  BY <5>2 DEF IsFromServer
      <4>5. IsSeq(p) /\ \A j \in DOMAIN p : IsFromServer(s, p[j])
        BY <1>1 DEF PushShapes, ChannelsOK
      <4>6. after(d) = pu \o w
        OBVIOUS
      <4>7. i \in DOMAIN (pu \o w)
        BY <4>6
      <4> HIDE DEF p, u, w, after, k, rows
      <4>8. IsSeq(pu) /\ \A j \in DOMAIN pu : IsFromServer(s, pu[j])
        BY <4>4, <4>5, BothFromServer
      <4> HIDE DEF pu
      <4> QED  BY <4>2, <4>3, <4>6, <4>7, <4>8, BothFromServer
    <3> HIDE DEF after
    <3>3. /\ \A d \in Clients : serverToBg'[s][d] = after(d)
          /\ \A z \in Servers \ {s} : serverToBg'[z] = serverToBg[z]
      BY <1>1, <3>1 DEF PushShapes
    <3>4. ASSUME NEW z \in Servers, NEW d \in Clients, NEW i \in DOMAIN serverToBg'[z][d]
          PROVE  IsFromServer(z, serverToBg'[z][d][i])
      <4>1. CASE z = s
        BY <3>2, <3>3, <4>1
      <4>2. CASE z # s
        <5>1. serverToBg'[z][d] = serverToBg[z][d]
          BY <3>3, <4>2
        <5> QED  BY <1>1, <5>1 DEF ChannelsOK
      <4> QED  BY <4>1, <4>2
    <3> QED  BY <3>4
  <2>2. CASE ~ClockChanges(s, c, msg)
    <3> DEFINE ack == OpLogAck(msg.version)
    <3>1. serverToBg' = [serverToBg EXCEPT ![s][c] = Append(@, ack)]
      BY <2>2 DEF PushHandleOpLog
    <3>2. msg.version \in Nat
      <4>1. msg \in ToServer(s) /\ msg.type = "OpLog"
        BY <1>1, <1>3, NextFromBgTypes
      <4> QED  BY <4>1 DEF ToServer
    <3>3. IsFromServer(s, ack)
      BY <3>2 DEF OpLogAck, IsFromServer
    <3> HIDE DEF ack
    <3> QED  BY <1>1, <3>1, <3>3, ServerSends
  <2> QED  BY <2>1, <2>2
<1> QED  BY <1>4, <1>6, <1>7, <1>8, <1>10, BeyondServers

\* The types hold at the start.
LEMMA PushInitTypes == PushInit => PushTypes
<1> SUFFICES ASSUME PushInit PROVE PushTypes
  OBVIOUS
<1>1. Start
  BY DEF PushInit
<1>2. CommonOK
  BY <1>1, StartTypes DEF CommonOK
<1>3. /\ mgr = [c \in Clients |-> Mgr!EmptyMgr(Rows, Servers)]
      /\ cachedClock = [t \in Threads |-> 0] /\ replies = [t \in Threads |-> 0]
      /\ pending = [t \in Threads |-> 0] /\ notifying = [c \in Clients |-> FALSE]
      /\ subscribed = [s \in Servers |-> [r \in RowsOf(s) |-> {}]]
  BY DEF PushInit
<1>4. ReadersOK
  <2>1. << >> \in Seq(FromReader)
    OBVIOUS
  <2> QED  BY <1>1, <1>3, <2>1, PushAssumption DEF Start, ReadersOK, Places
<1>5. ManagerOK(Mgr!EmptyMgr(Rows, Servers))
  <2>1. VersionModulus - 1 \in Words /\ 0 \in Words /\ Mgr!Word(-1) \in Words
    BY PushAssumption, WordTypes DEF Words
  <2> QED  BY <2>1 DEF ManagerOK, IsPushMgr, Mgr!EmptyMgr, Mgr!StartVersions, Mgr!Word
<1>6. ManagersOK
  <2> HIDE DEF Mgr!EmptyMgr
  <2> QED  BY <1>3, <1>5 DEF ManagersOK
<1>7. ChannelsOK
  BY <1>1, <1>3 DEF Start, ChannelsOK
<1> QED  BY <1>2, <1>4, <1>6, <1>7 DEF PushTypes

\* Every step keeps the types.
LEMMA PushStepTypes == PushInv /\ PushTypes /\ [PushNext]_allVars => PushTypes'
<1> SUFFICES ASSUME PushInv, PushTypes, [PushNext]_allVars PROVE PushTypes'
  OBVIOUS
<1>1. PushShapes
  BY DEF PushInv
<1>2. CASE \E t \in Threads : PushThreadNext(t)
  BY <1>1, <1>2, ThreadTypes
<1>3. CASE \E c \in Clients : PushBgNext(c)
  BY <1>1, <1>3, BgTypes
<1>4. CASE \E s \in Servers : PushServerNext(s)
  BY <1>1, <1>4, ServerRequestTypes, PushHandleOpLogTypes DEF PushServerNext
<1>5. CASE UNCHANGED allVars
  <2>1. /\ UNCHANGED <<threadVars, tableVars, clientVars, version, clientClock, mgr, serverVars>>
        /\ UNCHANGED <<appToBg, bgToServer, serverToBg, ghostVars, read>>
        /\ UNCHANGED <<cachedClock, replies, pending, notifying, subscribed>>
    BY <1>5 DEF allVars, vars, bgVars, channelVars, pushVars, asyncVars, clockVars, threadVars
  <2>2. ThreadsOK /\ ClientsOK /\ ServersOK /\ ReadersOK /\ ManagersOK /\ ChannelsOK
    BY DEF PushTypes, CommonOK
  <2>3. ThreadsOK'
    BY <2>1, <2>2 DEF ThreadsOK, threadVars, tableVars, ghostVars
  <2>4. ClientsOK' /\ ServersOK'
    BY <2>1, <2>2, ClientsStay, ServersStay
  <2>5. ReadersOK' /\ ManagersOK' /\ ChannelsOK'
    <3>1. UNCHANGED <<pc, want>>
      BY <2>1 DEF threadVars
    <3> QED  BY <2>1, <2>2, <3>1, ReadersStay, OthersStay
  <2> QED  BY <2>3, <2>4, <2>5 DEF PushTypes, CommonOK
<1> QED  BY <1>2, <1>3, <1>4, <1>5 DEF PushNext

-----------------------------------------------------------------------------
(* Counting.                                                               *)

\* S consists of L and H.
Parts(S, L, H) == S = L \cup H /\ L \cap H = {}

\* The parts of a set add up.
LEMMA TwoParts ==
  ASSUME NEW S, IsFiniteSet(S), NEW L, NEW H, Parts(S, L, H)
  PROVE  /\ Cardinality(S) = Cardinality(L) + Cardinality(H)
         /\ IsFiniteSet(L) /\ IsFiniteSet(H)
         /\ Cardinality(L) \in Nat /\ Cardinality(H) \in Nat
<1>1. IsFiniteSet(L) /\ IsFiniteSet(H)
  BY FS_Subset DEF Parts
<1>2. Cardinality(L) \in Nat /\ Cardinality(H) \in Nat
  BY <1>1, FS_CardinalityType
<1>3. Cardinality(S) = Cardinality(L) + Cardinality(H) - Cardinality(L \cap H)
  BY <1>1, FS_Union DEF Parts
<1>4. Cardinality(L \cap H) = 0
  BY FS_EmptySet DEF Parts
<1> QED  BY <1>1, <1>2, <1>3, <1>4

\* Numbers that are moved by d are as many.
LEMMA MovedSet ==
  ASSUME NEW S, S \subseteq Int, IsFiniteSet(S), NEW d \in Int,
         NEW T, T \subseteq Int, \A i \in Int : i + d \in T <=> i \in S
  PROVE  IsFiniteSet(T) /\ Cardinality(T) = Cardinality(S)
<1> DEFINE f == [i \in S |-> i + d]
<1>1. \A i \in S : i + d \in T
  OBVIOUS
<1>2. \A j \in T : j - d \in S /\ (j - d) + d = j
  <2> SUFFICES ASSUME NEW j \in T PROVE j - d \in S /\ (j - d) + d = j
    OBVIOUS
  <2>1. j - d \in Int /\ (j - d) + d = j
    OBVIOUS
  <2> QED  BY <2>1
<1>3. \A i, j \in S : i + d = j + d => i = j
  OBVIOUS
<1>4. f \in Bijection(S, T)
  <2>1. f \in [S -> T]
    BY <1>1
  <2>2. \A i, j \in S : f[i] = f[j] => i = j
    BY <1>3
  <2>3. \A j \in T : \E i \in S : f[i] = j
    <3> SUFFICES ASSUME NEW j \in T PROVE \E i \in S : f[i] = j
      OBVIOUS
    <3>1. j - d \in S /\ f[j - d] = j
      BY <1>2
    <3> QED  BY <3>1
  <2> HIDE DEF f
  <2> QED  BY <2>1, <2>2, <2>3 DEF Bijection, Injection, Surjection, IsInjective
<1>5. ExistsBijection(S, T)
  BY <1>4 DEF ExistsBijection
<1> QED  BY <1>5, FS_Bijection

\* The requests in a queue.
RequestsIn(q) == Cardinality({i \in DOMAIN q : q[i].type = "RowRequest"})

\* They are a number.
LEMMA RequestsAreNumber ==
  ASSUME NEW q, IsSeq(q)
  PROVE  RequestsIn(q) \in Nat /\ IsFiniteSet({i \in DOMAIN q : q[i].type = "RowRequest"})
<1>1. Len(q) \in Nat /\ DOMAIN q = 1 .. Len(q)
  BY AppendToSeq
<1>2. IsFiniteSet({i \in DOMAIN q : q[i].type = "RowRequest"})
  <2>1. IsFiniteSet(1 .. Len(q))
    BY <1>1, FS_Interval
  <2> QED  BY <1>1, <2>1, FS_Subset
<1> QED  BY <1>2, FS_CardinalityType DEF RequestsIn

\* One message more.
LEMMA RequestsAppend ==
  ASSUME NEW q, IsSeq(q), NEW m
  PROVE  RequestsIn(Append(q, m)) = RequestsIn(q) + (IF m.type = "RowRequest" THEN 1 ELSE 0)
<1> DEFINE S == {i \in DOMAIN q : q[i].type = "RowRequest"}
           T == {i \in DOMAIN Append(q, m) : Append(q, m)[i].type = "RowRequest"}
           n == Len(q) + 1
<1>1. /\ Len(q) \in Nat /\ DOMAIN q = 1 .. Len(q)
      /\ DOMAIN Append(q, m) = 1 .. Len(q) + 1
      /\ \A i \in 1 .. Len(q) : Append(q, m)[i] = q[i]
      /\ Append(q, m)[Len(q) + 1] = m
  BY AppendToSeq
<1>2. IsFiniteSet(S) /\ Cardinality(S) \in Nat
  BY RequestsAreNumber DEF RequestsIn
<1>3. T = IF m.type = "RowRequest" THEN S \cup {n} ELSE S
  BY <1>1
<1>4. n \notin S
  BY <1>1
<1> HIDE DEF S, T, n
<1>5. Cardinality(T) = Cardinality(S) + (IF m.type = "RowRequest" THEN 1 ELSE 0)
  <2>1. CASE m.type = "RowRequest"
    <3>1. Cardinality(S \cup {n}) = Cardinality(S) + 1
      BY <1>2, <1>4, FS_AddElement
    <3> QED  BY <1>3, <2>1, <3>1
  <2>2. CASE m.type # "RowRequest"
    BY <1>2, <1>3, <2>2
  <2> QED  BY <2>1, <2>2
<1> QED  BY <1>5 DEF RequestsIn, S, T

\* The first message taken.
LEMMA RequestsTail ==
  ASSUME NEW q, IsSeq(q), q # << >>
  PROVE  /\ RequestsIn(q) = RequestsIn(Tail(q)) + (IF Head(q).type = "RowRequest" THEN 1 ELSE 0)
         /\ RequestsIn(Tail(q)) \in Nat
<1> DEFINE S == {i \in DOMAIN q : q[i].type = "RowRequest"}
           T == {i \in DOMAIN Tail(q) : Tail(q)[i].type = "RowRequest"}
           L == S \cap {1}
           H == S \ {1}
<1>1. /\ IsSeq(Tail(q))
      /\ Len(q) \in Nat \ {0} /\ DOMAIN q = 1 .. Len(q)
      /\ DOMAIN Tail(q) = 1 .. Len(q) - 1
      /\ \A i \in 1 .. Len(q) - 1 : Tail(q)[i] = q[i + 1]
      /\ Head(q) = q[1]
  BY TailOfSeq
<1>2. IsFiniteSet(S) /\ IsFiniteSet(T) /\ Cardinality(T) \in Nat
  BY <1>1, RequestsAreNumber DEF RequestsIn
<1>3. T \subseteq Int /\ H \subseteq Int /\ \A i \in Int : i + 1 \in H <=> i \in T
  <2>1. T \subseteq Int /\ H \subseteq Int
    BY <1>1
  <2>2. ASSUME NEW i \in Int PROVE i + 1 \in H <=> i \in T
    <3>1. i \in 1 .. Len(q) - 1 <=> i + 1 \in 1 .. Len(q) /\ i + 1 # 1
      BY <1>1
    <3> QED  BY <1>1, <3>1
  <2> QED  BY <2>1, <2>2
<1>4. L = IF Head(q).type = "RowRequest" THEN {1} ELSE {}
  BY <1>1
<1>5. Parts(S, L, H)
  BY DEF Parts
<1> HIDE DEF S, T, L, H
<1>6. Cardinality(H) = Cardinality(T)
  <2>1. 1 \in Int
    OBVIOUS
  <2> QED  BY <1>2, <1>3, <2>1, MovedSet
<1>7. Cardinality(L) = IF Head(q).type = "RowRequest" THEN 1 ELSE 0
  BY <1>4, FS_Singleton, FS_EmptySet
<1>8. Cardinality(S) = Cardinality(L) + Cardinality(H) /\ Cardinality(L) \in Nat
  BY <1>2, <1>5, TwoParts
<1>9. Cardinality(S) = Cardinality(T) + (IF Head(q).type = "RowRequest" THEN 1 ELSE 0)
  BY <1>2, <1>6, <1>7, <1>8
<1> QED  BY <1>2, <1>9 DEF RequestsIn, S, T

\* One request more in a list.
LEMMA AnswersInserted ==
  ASSUME NEW m, NEW after, NEW r, NEW at, NEW e, PushRequested(m, after, r, at, e), NEW t
  PROVE  AnswersTo(after.pending[r], t) = AnswersTo(m.pending[r], t) + (IF e.thread = t THEN 1 ELSE 0)
<1> DEFINE q == m.pending[r]
           p == after.pending[r]
           n == Len(q)
           S == {i \in DOMAIN q : q[i].thread = t}
           T == {i \in DOMAIN p : p[i].thread = t}
           L == {i \in S : i < at}
           H == {i \in S : i >= at}
           A == T \cap {at}
           R == T \ {at}
           U == {i \in T : i > at}
<1>13. /\ n \in Nat /\ DOMAIN q = 1 .. n /\ DOMAIN p = 1 .. n + 1 /\ at \in 1 .. n + 1
       /\ \A i \in 1 .. n + 1 : p[i] = IF i < at THEN q[i] ELSE IF i = at THEN e ELSE q[i - 1]
  BY DEF PushRequested
<1> HIDE DEF p, q, n
<1>1. IsFiniteSet(S) /\ IsFiniteSet(T)
  <2>1. IsFiniteSet(1 .. n) /\ IsFiniteSet(1 .. n + 1)
    BY <1>13, FS_Interval
  <2> QED  BY <1>13, <2>1, FS_Subset
<1>2. Parts(S, L, H)
  BY <1>13 DEF Parts
<1>12. Parts(T, A, R)
  BY DEF Parts
<1>3. Parts(R, L, U)
  <2>1. L \cap U = {} /\ U \subseteq R
    BY <1>13
  <2>2. \A i \in 1 .. n + 1 : i < at => (i \in T <=> i \in S)
    BY <1>13
  <2>3. L \subseteq R
    <3>1. \A i \in L : i \in 1 .. n + 1 /\ i < at
      BY <1>13
    <3> QED  BY <1>13, <2>2, <3>1
  <2>4. R \subseteq L \cup U
    <3>1. \A i \in R : i \in 1 .. n + 1 /\ i # at /\ (i < at \/ i > at)
      BY <1>13
    <3> QED  BY <1>13, <2>2, <3>1
  <2> QED  BY <2>1, <2>3, <2>4 DEF Parts
<1>4. H \subseteq Int /\ U \subseteq Int /\ \A i \in Int : i + 1 \in U <=> i \in H
  <2>1. H \subseteq Int /\ U \subseteq Int
    BY <1>13
  <2>2. ASSUME NEW i \in Int PROVE i + 1 \in U <=> i \in H
    <3>1. i + 1 \in 1 .. n + 1 /\ i + 1 > at <=> i \in 1 .. n /\ i >= at
      BY <1>13
    <3>2. i + 1 \in 1 .. n + 1 /\ i + 1 > at => p[i + 1] = q[i]
      BY <1>13
    <3> QED  BY <1>13, <3>1, <3>2
  <2> QED  BY <2>1, <2>2
<1>5. A = IF e.thread = t THEN {at} ELSE {}
  BY <1>13
<1> HIDE DEF S, T, L, H, A, R, U
<1>14. IsFiniteSet(H) /\ IsFiniteSet(R)
  BY <1>1, <1>2, <1>12, TwoParts
<1>6. /\ Cardinality(S) = Cardinality(L) + Cardinality(H)
      /\ Cardinality(L) \in Nat /\ Cardinality(H) \in Nat
  BY <1>1, <1>2, TwoParts
<1>7. /\ Cardinality(T) = Cardinality(A) + Cardinality(R)
      /\ Cardinality(A) \in Nat /\ Cardinality(R) \in Nat
  BY <1>1, <1>12, TwoParts
<1>8. Cardinality(R) = Cardinality(L) + Cardinality(U) /\ Cardinality(U) \in Nat
  BY <1>3, <1>14, TwoParts
<1>9. Cardinality(U) = Cardinality(H)
  <2>1. 1 \in Int
    BY <1>13
  <2> QED  BY <1>4, <1>14, <2>1, MovedSet
<1>10. Cardinality(A) = IF e.thread = t THEN 1 ELSE 0
  BY <1>5, FS_Singleton, FS_EmptySet
<1>11. Cardinality(T) = Cardinality(S) + (IF e.thread = t THEN 1 ELSE 0)
  BY <1>6, <1>7, <1>8, <1>9, <1>10
<1> QED  BY <1>11 DEF AnswersTo, S, T, p, q

\* A list begins with done, of length d.
Begins(done, q, d) == DOMAIN done = 1 .. d /\ \A i \in 1 .. d : done[i] = q[i]

\* A list in two parts.
LEMMA AnswersSplit ==
  ASSUME NEW m, NEW after, NEW r, NEW d, NEW again, PushAnswered(m, after, r, d, again),
         NEW done, Begins(done, m.pending[r], d), NEW t
  PROVE  /\ AnswersTo(m.pending[r], t) = AnswersTo(done, t) + AnswersTo(after.pending[r], t)
         /\ AnswersTo(done, t) \in Nat
<1> DEFINE q == m.pending[r]
           rest == after.pending[r]
           n == Len(q)
           S == {i \in DOMAIN q : q[i].thread = t}
           D == {i \in DOMAIN done : done[i].thread = t}
           T == {i \in DOMAIN rest : rest[i].thread = t}
           H == {i \in S : i > d}
<1>8. /\ n \in Nat /\ DOMAIN q = 1 .. n /\ DOMAIN rest = 1 .. n - d /\ d \in 0 .. n
      /\ \A i \in 1 .. n - d : rest[i].thread = q[d + i].thread
      /\ \A i \in 1 .. d : done[i] = q[i]
      /\ DOMAIN done = 1 .. d
  BY DEF PushAnswered, Begins
<1> HIDE DEF q, rest, n
<1>1. IsFiniteSet(S) /\ IsFiniteSet(T)
  <2>1. IsFiniteSet(1 .. n) /\ IsFiniteSet(1 .. n - d)
    BY <1>8, FS_Interval
  <2> QED  BY <1>8, <2>1, FS_Subset
<1>2. Parts(S, D, H)
  <2>1. \A i \in 1 .. n : i \in 1 .. d <=> ~(i > d)
    BY <1>8
  <2>2. \A i \in 1 .. d : i \in 1 .. n
    BY <1>8
  <2> QED  BY <1>8, <2>1, <2>2 DEF Parts
<1>3. T \subseteq Int /\ H \subseteq Int /\ \A i \in Int : i + d \in H <=> i \in T
  <2>1. T \subseteq Int /\ H \subseteq Int
    BY <1>8
  <2>2. ASSUME NEW i \in Int PROVE i + d \in H <=> i \in T
    <3>1. i \in 1 .. n - d <=> i + d \in 1 .. n /\ i + d > d
      BY <1>8
    <3>2. i + d = d + i
      BY <1>8
    <3> QED  BY <1>8, <3>1, <3>2
  <2> QED  BY <2>1, <2>2
<1>4. d \in Int
  BY <1>8
<1> HIDE DEF S, D, T, H
<1>5. Cardinality(H) = Cardinality(T)
  BY <1>1, <1>3, <1>4, MovedSet
<1>6. /\ Cardinality(S) = Cardinality(D) + Cardinality(H)
      /\ Cardinality(D) \in Nat /\ Cardinality(H) \in Nat
  BY <1>1, <1>2, TwoParts
<1>7. Cardinality(S) = Cardinality(D) + Cardinality(T) /\ Cardinality(D) \in Nat /\ Cardinality(T) \in Nat
  BY <1>5, <1>6
<1> QED  BY <1>7 DEF AnswersTo, S, D, T, q, rest

\* Two sums over the rows that differ in one of them.
LEMMA SumOverRows ==
  ASSUME NEW F, DOMAIN F = Rows, \A x \in Rows : F[x] \in Nat,
         NEW G, DOMAIN G = Rows, \A x \in Rows : G[x] \in Nat,
         NEW r \in Rows, \A x \in Rows \ {r} : F[x] = G[x]
  PROVE  /\ SumFunction(G) - G[r] = SumFunction(F) - F[r]
         /\ SumFunction(F) \in Nat /\ SumFunction(G) \in Nat
<1>1. IsFiniteSet(Rows) /\ IsFiniteSet(Rows \ {r})
  BY PushAssumption, FS_Subset
<1>2. SumFunctionOnSet(F, Rows) = F[r] + SumFunctionOnSet(F, Rows \ {r})
  <2>1. \A x \in Rows : F[x] \in Int
    OBVIOUS
  <2> QED  BY <1>1, <2>1, SumTakesAny
<1>3. SumFunctionOnSet(G, Rows) = G[r] + SumFunctionOnSet(G, Rows \ {r})
  <2>1. \A x \in Rows : G[x] \in Int
    OBVIOUS
  <2> QED  BY <1>1, <2>1, SumTakesAny
<1>4. SumFunctionOnSet(F, Rows \ {r}) = SumFunctionOnSet(G, Rows \ {r})
  BY <1>1, SumOfSame
<1>5. SumFunctionOnSet(F, Rows) \in Nat /\ SumFunctionOnSet(G, Rows) \in Nat
  BY <1>1, SumIsNat
<1>6. SumFunctionOnSet(F, Rows \ {r}) \in Nat
  <2>1. \A x \in Rows \ {r} : F[x] \in Nat
    OBVIOUS
  <2> QED  BY <1>1, <2>1, SumIsNat
<1>7. SumFunction(F) = SumFunctionOnSet(F, Rows) /\ SumFunction(G) = SumFunctionOnSet(G, Rows)
  BY DEF SumFunction
<1>8. F[r] \in Nat /\ G[r] \in Nat
  OBVIOUS
<1> HIDE DEF SumFunction
<1> QED  BY <1>2, <1>3, <1>4, <1>5, <1>6, <1>7, <1>8

\* The requests of thread t that a manager holds.
Held(m, t) == [r \in Rows |-> AnswersTo(m.pending[r], t)]
HeldBy(m, t) == SumFunction(Held(m, t))

\* They are a number.
LEMMA HeldIsNumber ==
  ASSUME NEW m, ManagerOK(m), NEW t
  PROVE  /\ DOMAIN Held(m, t) = Rows
         /\ \A r \in Rows : Held(m, t)[r] = AnswersTo(m.pending[r], t) /\ Held(m, t)[r] \in Nat
         /\ HeldBy(m, t) \in Nat
<1> DEFINE F == Held(m, t)
<1>1. DOMAIN F = Rows /\ \A r \in Rows : F[r] = AnswersTo(m.pending[r], t)
  BY DEF Held
<1>2. ASSUME NEW r \in Rows PROVE AnswersTo(m.pending[r], t) \in Nat
  <2> DEFINE q == m.pending[r]
  <2>1. Len(q) \in Nat /\ DOMAIN q = 1 .. Len(q)
    BY RequestsAreList
  <2> HIDE DEF q
  <2>2. AnswersTo(q, t) \in Nat
    BY <2>1, AnswersAreNumber
  <2> QED  BY <2>2 DEF q
<1> HIDE DEF F
<1>3. \A r \in Rows : F[r] \in Nat
  BY <1>1, <1>2
<1>4. SumFunctionOnSet(F, Rows) \in Nat
  BY <1>3, PushAssumption, SumIsNat
<1>5. SumFunction(F) = SumFunctionOnSet(F, Rows)
  BY <1>1 DEF SumFunction
<1>6. SumFunction(F) \in Nat
  BY <1>4, <1>5
<1> QED  BY <1>1, <1>3, <1>6 DEF HeldBy, F

\* The same lists.
LEMMA HeldStays ==
  ASSUME NEW m, NEW n, n.pending = m.pending, NEW t
  PROVE  HeldBy(n, t) = HeldBy(m, t)
BY DEF HeldBy, Held

\* A request more.
LEMMA HeldGrows ==
  ASSUME NEW m, ManagerOK(m), NEW n, NEW r \in Rows, NEW at, NEW e, PushRequested(m, n, r, at, e), NEW t
  PROVE  HeldBy(n, t) = HeldBy(m, t) + (IF e.thread = t THEN 1 ELSE 0)
<1> DEFINE F == Held(m, t)
           G == Held(n, t)
           q == m.pending[r]
           p == n.pending[r]
           d == IF e.thread = t THEN 1 ELSE 0
<1>1. ManagerOK(n)
  BY DEF PushRequested
<1>2. /\ DOMAIN F = Rows /\ \A x \in Rows : F[x] = AnswersTo(m.pending[x], t) /\ F[x] \in Nat
      /\ DOMAIN G = Rows /\ \A x \in Rows : G[x] = AnswersTo(n.pending[x], t) /\ G[x] \in Nat
  BY <1>1, HeldIsNumber
<1>3. AnswersTo(p, t) = AnswersTo(q, t) + d
  BY AnswersInserted
<1>4. \A x \in Rows \ {r} : F[x] = G[x]
  BY <1>2 DEF PushRequested
<1>5. F[r] = AnswersTo(q, t) /\ G[r] = AnswersTo(p, t)
  BY <1>2
<1> HIDE DEF F, G, p, q
<1>6. SumFunction(G) - G[r] = SumFunction(F) - F[r] /\ SumFunction(F) \in Nat /\ SumFunction(G) \in Nat
  BY <1>2, <1>4, SumOverRows
<1>7. SumFunction(G) = SumFunction(F) + d
  <2>1. F[r] \in Nat /\ G[r] \in Nat /\ d \in Nat /\ G[r] = F[r] + d
    BY <1>2, <1>3, <1>5
  <2> HIDE DEF d
  <2> QED  BY <1>6, <2>1
<1> QED  BY <1>7 DEF HeldBy, F, G

\* The requests that a reply satisfies taken away.
LEMMA HeldShrinks ==
  ASSUME NEW m, ManagerOK(m), NEW n, NEW r \in Rows, NEW d, NEW again, PushAnswered(m, n, r, d, again),
         NEW done, Begins(done, m.pending[r], d), NEW t
  PROVE  HeldBy(m, t) = HeldBy(n, t) + AnswersTo(done, t)
<1> DEFINE F == Held(m, t)
           G == Held(n, t)
           q == m.pending[r]
           p == n.pending[r]
<1>1. ManagerOK(n)
  BY DEF PushAnswered
<1>2. /\ DOMAIN F = Rows /\ \A x \in Rows : F[x] = AnswersTo(m.pending[x], t) /\ F[x] \in Nat
      /\ DOMAIN G = Rows /\ \A x \in Rows : G[x] = AnswersTo(n.pending[x], t) /\ G[x] \in Nat
  BY <1>1, HeldIsNumber
<1>3. AnswersTo(q, t) = AnswersTo(done, t) + AnswersTo(p, t) /\ AnswersTo(done, t) \in Nat
  BY AnswersSplit
<1>4. \A x \in Rows \ {r} : F[x] = G[x]
  BY <1>2 DEF PushAnswered
<1>5. F[r] = AnswersTo(q, t) /\ G[r] = AnswersTo(p, t)
  BY <1>2
<1> HIDE DEF F, G, p, q
<1>6. SumFunction(G) - G[r] = SumFunction(F) - F[r] /\ SumFunction(F) \in Nat /\ SumFunction(G) \in Nat
  BY <1>2, <1>4, SumOverRows
<1>7. SumFunction(F) = SumFunction(G) + AnswersTo(done, t)
  <2>1. F[r] \in Nat /\ G[r] \in Nat /\ F[r] = AnswersTo(done, t) + G[r]
    BY <1>2, <1>3, <1>5
  <2> QED  BY <1>3, <1>6, <2>1
<1> QED  BY <1>7 DEF HeldBy, F, G

\* A waiting thread counts on a reply.
WaitOf(p) == IF p = "wait" THEN 1 ELSE 0

\* The replies a thread counts on that have not come and that are not asked for
\* in the queue to its worker.
Due(t) == pending[t] + WaitOf(pc[t]) - replies[t] - RequestsIn(appToBg[t])

\* They are numbers.
LEMMA DueIs ==
  ASSUME ReadersOK, NEW t \in Threads
  PROVE  /\ replies[t] \in Nat /\ pending[t] \in 0 .. MaxAsync /\ WaitOf(pc[t]) \in 0 .. 1
         /\ IsSeq(appToBg[t]) /\ RequestsIn(appToBg[t]) \in Nat /\ MaxAsync \in Nat
<1>1. replies[t] \in Nat /\ pending[t] \in 0 .. MaxAsync /\ appToBg[t] \in Seq(FromReader)
  BY DEF ReadersOK
<1>2. IsSeq(appToBg[t])
  BY <1>1, SeqParts
<1>3. RequestsIn(appToBg[t]) \in Nat
  BY <1>2, RequestsAreNumber
<1> QED  BY <1>1, <1>2, <1>3, PushAssumption DEF WaitOf

\* A thread's step changes only what it counts on itself.
CountsItself(t) ==
  /\ \A u \in Threads \ {t} : /\ replies'[u] = replies[u] /\ pending'[u] = pending[u]
                              /\ pc'[u] = pc[u] /\ appToBg'[u] = appToBg[u]
  /\ replies'[t] <= replies[t]
  /\ \/ aborted' = aborted /\ Due(t)' = Due(t)
     \/ aborted' = [aborted EXCEPT ![ClientOf[t]] = TRUE]

\* A request on its way to the worker.
LEMMA RequestSent ==
  ASSUME ReadersOK, NEW t \in Threads, NEW r, NEW k, NEW f, SendToBg(t, PushRowRequest(r, k, f))
  PROVE  /\ RequestsIn(appToBg'[t]) = RequestsIn(appToBg[t]) + 1
         /\ \A u \in Threads \ {t} : appToBg'[u] = appToBg[u]
<1> DEFINE m == PushRowRequest(r, k, f)
<1>1. m.type = "RowRequest"
  BY DEF PushRowRequest
<1>2. /\ appToBg' = [appToBg EXCEPT ![t] = Append(@, m)]
      /\ DOMAIN appToBg = Threads
  BY DEF SendToBg, ReadersOK
<1> HIDE DEF m
<1>3. /\ appToBg'[t] = Append(appToBg[t], m)
      /\ \A u \in Threads \ {t} : appToBg'[u] = appToBg[u]
  BY <1>2
<1>4. RequestsIn(Append(appToBg[t], m)) = RequestsIn(appToBg[t]) + 1
  BY <1>1, DueIs, RequestsAppend
<1> QED  BY <1>3, <1>4

\* Steps that leave a thread's requests and replies alone.
LEMMA QuietCount ==
  ASSUME ReadersOK, NEW t \in Threads, UNCHANGED <<replies, pending, aborted>>,
         pc' = pc \/ \E p : p # "wait" /\ pc[t] # "wait" /\ pc' = [pc EXCEPT ![t] = p],
         appToBg' = appToBg \/ \E m : m.type # "RowRequest" /\ SendToBg(t, m)
  PROVE  CountsItself(t)
<1>1. /\ \A u \in Threads \ {t} : pc'[u] = pc[u] /\ appToBg'[u] = appToBg[u]
      /\ WaitOf(pc'[t]) = WaitOf(pc[t])
  BY DEF ReadersOK, SendToBg, WaitOf
<1>2. RequestsIn(appToBg'[t]) = RequestsIn(appToBg[t])
  <2>1. ASSUME NEW m, m.type # "RowRequest", SendToBg(t, m)
        PROVE  RequestsIn(appToBg'[t]) = RequestsIn(appToBg[t])
    <3>1. appToBg'[t] = Append(appToBg[t], m)
      BY <2>1 DEF ReadersOK, SendToBg
    <3>2. RequestsIn(Append(appToBg[t], m)) = RequestsIn(appToBg[t]) + 0
      BY <2>1, DueIs, RequestsAppend
    <3> QED  BY <3>1, <3>2, DueIs
  <2> QED  BY <2>1
<1>3. replies'[t] <= replies[t]
  BY DueIs
<1>4. Due(t)' = Due(t)
  BY <1>1, <1>2 DEF Due
<1> QED  BY <1>1, <1>3, <1>4 DEF CountsItself

\* Those of SSP, and those that read without asking.
LEMMA QuietStepsCount ==
  ASSUME ReadersOK, NEW t \in Threads,
         \/ Inherited(t) \/ WaitSystemClock(t)
         \/ \E r \in Rows, b \in BOOLEAN : TestSystemClock(t, r, b) \/ PushGetCached(t, r, b)
  PROVE  CountsItself(t)
<1> DEFINE Quiet == /\ UNCHANGED <<replies, pending, aborted>>
                    /\ pc' = pc \/ \E p : p # "wait" /\ pc[t] # "wait" /\ pc' = [pc EXCEPT ![t] = p]
                    /\ appToBg' = appToBg \/ \E m : m.type # "RowRequest" /\ SendToBg(t, m)
<1> SUFFICES Quiet
  BY QuietCount
<1> USE DEF pushVars, asyncVars, clientVars, channelVars
<1>1. CASE Inherited(t)
  <2>1. UNCHANGED <<replies, pending>>
    BY <1>1 DEF Inherited
  <2>2. CASE \E r \in Rows : Inc(t, r) \/ ThreadInc(t, r) \/ FlushRow(t, r)
    BY <2>1, <2>2 DEF Inc, ThreadInc, FlushRow, Flushing
  <2>3. CASE FlushThreadCache(t) \/ Clock(t)
    BY <2>1, <2>3 DEF FlushThreadCache, Clock, Flushing
  <2>4. CASE TickThread(t)
    BY <2>1, <2>4 DEF TickThread
  <2>5. CASE TellBg(t)
    <3> DEFINE m == [type |-> IF pc[t] = "clock" THEN "BgClock" ELSE "BgSendOpLog"]
    <3>1. m.type # "RowRequest"
      OBVIOUS
    <3>2. SendToBg(t, m) /\ pc[t] # "wait" /\ pc' = [pc EXCEPT ![t] = "run"] /\ aborted' = aborted
      BY <2>5 DEF TellBg
    <3> HIDE DEF m
    <3> QED  BY <2>1, <3>1, <3>2
  <2> QED  BY <1>1, <2>2, <2>3, <2>4, <2>5 DEF Inherited
<1>2. CASE WaitSystemClock(t)
  BY <1>2 DEF WaitSystemClock
<1>3. ASSUME NEW r \in Rows, NEW b \in BOOLEAN, TestSystemClock(t, r, b) PROVE Quiet
  BY <1>3 DEF TestSystemClock, AtClockCheck, Ready, Woken
<1>4. ASSUME NEW r \in Rows, NEW b \in BOOLEAN, PushGetCached(t, r, b) PROVE Quiet
  BY <1>4 DEF PushGetCached, PastClockCheck, AtClockCheck, Ready, Woken, ReturnRow, EndGet
<1> QED  BY <1>1, <1>2, <1>3, <1>4

\* Those of Get that ask, and those that receive a reply.
LEMMA GetsCount ==
  ASSUME ReadersOK, NEW t \in Threads,
         \/ \E r \in Rows, b \in BOOLEAN : PushGetRequest(t, r, b)
         \/ PushGetReturn(t) \/ PushGetAgain(t) \/ PushGetAbort(t)
  PROVE  CountsItself(t)
<1> USE DEF clientVars, channelVars, asyncVars
<1>1. /\ DOMAIN pc = Threads /\ DOMAIN replies = Threads /\ DOMAIN pending = Threads
      /\ DOMAIN appToBg = Threads
  BY DEF ReadersOK
<1>2. ASSUME NEW r \in Rows, NEW b \in BOOLEAN, PushGetRequest(t, r, b) PROVE CountsItself(t)
  <2>1. /\ pc[t] \in {"run", "woken"} /\ pc' = [pc EXCEPT ![t] = "wait"]
        /\ UNCHANGED <<replies, pending, aborted>>
        /\ SendToBg(t, PushRowRequest(r, StalestClock(t), FALSE))
    BY <1>2 DEF PushGetRequest, PastClockCheck, AtClockCheck, Ready, Woken
  <2>2. /\ RequestsIn(appToBg'[t]) = RequestsIn(appToBg[t]) + 1
        /\ \A u \in Threads \ {t} : appToBg'[u] = appToBg[u]
    BY <2>1, RequestSent
  <2>3. WaitOf(pc[t]) = 0 /\ WaitOf(pc'[t]) = 1 /\ \A u \in Threads \ {t} : pc'[u] = pc[u]
    BY <1>1, <2>1 DEF WaitOf
  <2>4. Due(t)' = Due(t) /\ replies'[t] <= replies[t]
    BY <2>1, <2>2, <2>3, DueIs DEF Due
  <2> QED  BY <2>1, <2>2, <2>3, <2>4 DEF CountsItself
<1>3. CASE PushGetReturn(t)
  <2>1. /\ pc[t] = "wait" /\ pc' = [pc EXCEPT ![t] = "run"]
        /\ replies' = [replies EXCEPT ![t] = @ - 1]
        /\ UNCHANGED <<pending, aborted, appToBg>>
    BY <1>3 DEF PushGetReturn, ReceiveReply, ReturnRow, EndGet
  <2>2. WaitOf(pc[t]) = 1 /\ WaitOf(pc'[t]) = 0 /\ \A u \in Threads \ {t} : pc'[u] = pc[u]
    BY <1>1, <2>1 DEF WaitOf
  <2>3. replies'[t] = replies[t] - 1 /\ \A u \in Threads \ {t} : replies'[u] = replies[u]
    BY <1>1, <2>1
  <2>4. Due(t)' = Due(t) /\ replies'[t] <= replies[t]
    BY <2>1, <2>2, <2>3, DueIs DEF Due
  <2> QED  BY <2>1, <2>2, <2>3, <2>4 DEF CountsItself
<1>4. CASE PushGetAgain(t)
  <2>1. /\ replies' = [replies EXCEPT ![t] = @ - 1]
        /\ UNCHANGED <<pc, pending, aborted>>
        /\ SendToBg(t, PushRowRequest(want[t].row, want[t].clock, FALSE))
    BY <1>4 DEF PushGetAgain, ReceiveReply
  <2>2. /\ RequestsIn(appToBg'[t]) = RequestsIn(appToBg[t]) + 1
        /\ \A u \in Threads \ {t} : appToBg'[u] = appToBg[u]
    BY <2>1, RequestSent
  <2>3. replies'[t] = replies[t] - 1 /\ \A u \in Threads \ {t} : replies'[u] = replies[u]
    BY <1>1, <2>1
  <2>4. Due(t)' = Due(t) /\ replies'[t] <= replies[t]
    BY <2>1, <2>2, <2>3, DueIs DEF Due
  <2> QED  BY <2>1, <2>2, <2>3, <2>4 DEF CountsItself
<1>5. CASE PushGetAbort(t)
  <2>1. /\ replies' = [replies EXCEPT ![t] = @ - 1]
        /\ UNCHANGED <<pc, pending, appToBg>>
        /\ aborted' = [aborted EXCEPT ![ClientOf[t]] = TRUE]
    BY <1>5 DEF PushGetAbort, ReceiveReply, threadVars
  <2>2. replies'[t] = replies[t] - 1 /\ \A u \in Threads \ {t} : replies'[u] = replies[u]
    BY <1>1, <2>1
  <2>3. replies'[t] <= replies[t]
    BY <2>2, DueIs
  <2> QED  BY <2>1, <2>2, <2>3 DEF CountsItself
<1> QED  BY <1>2, <1>3, <1>4, <1>5

\* Those that ask ahead of time, and receive what they asked for.
LEMMA AsyncCounts ==
  ASSUME ReadersOK, NEW t \in Threads,
         WaitPendingAsyncGet(t) \/ \E r \in Rows, f \in BOOLEAN : GetAsync(t, r, f)
  PROVE  CountsItself(t)
<1>1. DOMAIN replies = Threads /\ DOMAIN pending = Threads
  BY DEF ReadersOK
<1>2. CASE WaitPendingAsyncGet(t)
  <2>1. /\ replies' = [replies EXCEPT ![t] = @ - pending[t]]
        /\ pending' = [pending EXCEPT ![t] = 0]
        /\ UNCHANGED <<pc, aborted, appToBg>>
    BY <1>2 DEF WaitPendingAsyncGet, threadVars, clientVars, channelVars
  <2>2. /\ replies'[t] = replies[t] - pending[t] /\ pending'[t] = 0
        /\ \A u \in Threads \ {t} : replies'[u] = replies[u] /\ pending'[u] = pending[u]
    BY <1>1, <2>1
  <2>3. Due(t)' = Due(t) /\ replies'[t] <= replies[t]
    BY <2>1, <2>2, DueIs DEF Due
  <2> QED  BY <2>1, <2>2, <2>3 DEF CountsItself
<1>3. ASSUME NEW r \in Rows, NEW f \in BOOLEAN, GetAsync(t, r, f) PROVE CountsItself(t)
  <2> DEFINE full == pending[t] = MaxAsync
  <2>1. /\ replies' = [replies EXCEPT ![t] = IF full THEN @ - 1 ELSE @]
        /\ pending' = [pending EXCEPT ![t] = IF full THEN @ ELSE @ + 1]
        /\ UNCHANGED <<pc, aborted>>
        /\ SendToBg(t, PushRowRequest(r, clock[t], f))
    BY <1>3 DEF GetAsync, threadVars, clientVars
  <2>2. /\ RequestsIn(appToBg'[t]) = RequestsIn(appToBg[t]) + 1
        /\ \A u \in Threads \ {t} : appToBg'[u] = appToBg[u]
    BY <2>1, RequestSent
  <2> HIDE DEF full
  <2>3. /\ replies'[t] = IF full THEN replies[t] - 1 ELSE replies[t]
        /\ pending'[t] = IF full THEN pending[t] ELSE pending[t] + 1
        /\ \A u \in Threads \ {t} : replies'[u] = replies[u] /\ pending'[u] = pending[u]
    BY <1>1, <2>1
  <2>4. Due(t)' = Due(t) /\ replies'[t] <= replies[t]
    BY <2>1, <2>2, <2>3, DueIs DEF Due
  <2> QED  BY <2>1, <2>2, <2>3, <2>4 DEF CountsItself
<1> QED  BY <1>2, <1>3

\* What is due is what the manager of the thread's process holds.
Counted(t) == HeldBy(mgr[ClientOf[t]], t) = Due(t)

\* A manager holds requests of its own process.
OwnRequests ==
  \A c \in Clients, r \in Rows : \A i \in DOMAIN mgr[c].pending[r] :
    ClientOf[mgr[c].pending[r][i].thread] = c

\* The invariant of AsyncGetsAreCounted.  A process that has stopped leaves its
\* replies where they are.
GetsCounted ==
  /\ \A t \in Threads : Alive(ClientOf[t]) => Counted(t)
  /\ \A t \in Threads : ~Alive(ClientOf[t]) => replies[t] <= MaxAsync + 1
  /\ OwnRequests

\* At most the replies that are counted on are there.
LEMMA RepliesAreBounded ==
  ASSUME PushTypes, GetsCounted
  PROVE  \A t \in Threads : replies[t] \in 0 .. MaxAsync + 1
<1> SUFFICES ASSUME NEW t \in Threads PROVE replies[t] \in 0 .. MaxAsync + 1
  OBVIOUS
<1>1. /\ replies[t] \in Nat /\ pending[t] \in 0 .. MaxAsync /\ WaitOf(pc[t]) \in 0 .. 1
      /\ RequestsIn(appToBg[t]) \in Nat /\ MaxAsync \in Nat
  BY DueIs DEF PushTypes
<1>2. CASE Alive(ClientOf[t])
  <2>1. HeldBy(mgr[ClientOf[t]], t) = Due(t)
    BY <1>2 DEF GetsCounted, Counted
  <2>2. HeldBy(mgr[ClientOf[t]], t) \in Nat
    <3> DEFINE m == mgr[ClientOf[t]]
    <3>1. ManagerOK(m)
      BY ThreadsAssumption DEF PushTypes, ManagersOK
    <3> HIDE DEF m
    <3>2. HeldBy(m, t) \in Nat
      BY <3>1, HeldIsNumber
    <3> QED  BY <3>2 DEF m
  <2>3. replies[t] = pending[t] + WaitOf(pc[t]) - RequestsIn(appToBg[t]) - HeldBy(mgr[ClientOf[t]], t)
    BY <1>1, <2>1, <2>2 DEF Due
  <2> QED  BY <1>1, <2>2, <2>3
<1>3. CASE ~Alive(ClientOf[t])
  BY <1>1, <1>3 DEF GetsCounted
<1> QED  BY <1>2, <1>3

\* What a step has to do to keep it.
LEMMA CountKept ==
  ASSUME PushTypes, GetsCounted, ReadersOK', OwnRequests',
         \A t \in Threads : Alive(ClientOf[t])' => Alive(ClientOf[t]) /\ (Counted(t) => Counted(t)'),
         \A t \in Threads : ~Alive(ClientOf[t])' => replies'[t] <= replies[t]
  PROVE  GetsCounted'
<1>1. \A t \in Threads : Alive(ClientOf[t])' => Counted(t)'
  BY DEF GetsCounted
<1>2. ASSUME NEW t \in Threads, ~Alive(ClientOf[t])' PROVE replies'[t] <= MaxAsync + 1
  <2>1. replies[t] \in 0 .. MaxAsync + 1 /\ replies'[t] \in Nat /\ MaxAsync \in Nat
    BY RepliesAreBounded, PushAssumption DEF ReadersOK
  <2> QED  BY <1>2, <2>1
<1> QED  BY <1>1, <1>2 DEF GetsCounted

\* Threads keep it.
LEMMA ThreadCounts ==
  ASSUME PushTypes, PushShapes, GetsCounted, NEW t \in Threads, PushThreadNext(t)
  PROVE  GetsCounted'
<1>1. ReadersOK /\ ClientsOK /\ ReadersOK'
  BY ThreadTypes DEF PushTypes, CommonOK
<1>2. CountsItself(t)
  BY <1>1, QuietStepsCount, GetsCount, AsyncCounts DEF PushThreadNext
<1>3. UNCHANGED mgr
  BY ThreadLeaves
<1>4. OwnRequests'
  BY <1>3 DEF GetsCounted, OwnRequests
<1>5. ASSUME NEW u \in Threads \ {t} PROVE Due(u)' = Due(u)
  BY <1>2 DEF CountsItself, Due
<1>6. \A u \in Threads : replies'[u] <= replies[u]
  <2>1. replies'[t] <= replies[t] /\ \A u \in Threads \ {t} : replies'[u] = replies[u]
    BY <1>2 DEF CountsItself
  <2> QED  BY <1>1, <2>1, DueIs
<1>7. ASSUME NEW u \in Threads, Alive(ClientOf[u])'
      PROVE  Alive(ClientOf[u]) /\ Due(u)' = Due(u)
  <2>1. CASE aborted' = aborted /\ Due(t)' = Due(t)
    BY <1>5, <1>7, <2>1 DEF Alive
  <2>2. CASE aborted' = [aborted EXCEPT ![ClientOf[t]] = TRUE]
    <3>1. ClientOf[u] \in Clients /\ ClientOf[t] \in Clients /\ DOMAIN aborted = Clients
      BY <1>1, ThreadsAssumption DEF ClientsOK
    <3>2. ClientOf[u] # ClientOf[t] /\ Alive(ClientOf[u])
      BY <1>7, <2>2, <3>1 DEF Alive
    <3> QED  BY <1>5, <3>2
  <2> QED  BY <1>2, <2>1, <2>2 DEF CountsItself
<1>8. ASSUME NEW u \in Threads, Alive(ClientOf[u])'
      PROVE  Alive(ClientOf[u]) /\ (Counted(u) => Counted(u)')
  BY <1>3, <1>7, <1>8 DEF Counted
<1> QED  BY <1>1, <1>4, <1>6, <1>8, CountKept

-----------------------------------------------------------------------------
(* Counting in the workers.                                                *)

\* The lists of requests stay.
ListsStay == \A d \in Clients : mgr'[d].pending = mgr[d].pending

\* A step that keeps the lists, the replies and what threads wait for.
LEMMA NobodyAsks ==
  ASSUME PushTypes, GetsCounted, ReadersOK', ListsStay,
         UNCHANGED <<aborted, replies, pending>>,
         \A t \in Threads : /\ WaitOf(pc'[t]) = WaitOf(pc[t])
                            /\ RequestsIn(appToBg'[t]) = RequestsIn(appToBg[t])
  PROVE  GetsCounted'
<1>1. OwnRequests'
  BY DEF GetsCounted, OwnRequests, ListsStay
<1>2. ASSUME NEW t \in Threads PROVE Counted(t) => Counted(t)'
  <2> DEFINE m == mgr[ClientOf[t]]
             n == mgr'[ClientOf[t]]
  <2>1. n.pending = m.pending
    BY ThreadsAssumption DEF ListsStay
  <2> HIDE DEF m, n
  <2>2. HeldBy(n, t) = HeldBy(m, t)
    BY <2>1, HeldStays
  <2>3. Due(t)' = Due(t)
    BY DEF Due
  <2> QED  BY <2>2, <2>3 DEF Counted, m, n
<1>3. \A t \in Threads : Alive(ClientOf[t])' <=> Alive(ClientOf[t])
  BY DEF Alive
<1>4. \A t \in Threads : replies'[t] <= replies[t]
  BY DueIs DEF PushTypes
<1> QED  BY <1>1, <1>2, <1>3, <1>4, CountKept

\* A worker takes a message of a thread.
LEMMA RequestTaken ==
  ASSUME ReadersOK, NEW c \in Clients, NEW t \in Threads, NEW kind, NextFromThread(c, t, kind)
  PROVE  /\ ClientOf[t] = c /\ Alive(c) /\ Head(appToBg[t]).type = kind
         /\ kind = "RowRequest" => RequestsIn(appToBg[t]) = RequestsIn(appToBg'[t]) + 1
         /\ kind # "RowRequest" => RequestsIn(appToBg[t]) = RequestsIn(appToBg'[t])
         /\ RequestsIn(appToBg'[t]) \in Nat
         /\ \A u \in Threads \ {t} : appToBg'[u] = appToBg[u]
<1>1. /\ ClientOf[t] = c /\ Alive(c) /\ appToBg[t] # << >> /\ Head(appToBg[t]).type = kind
      /\ appToBg' = [appToBg EXCEPT ![t] = Tail(@)]
  BY DEF NextFromThread, NextFromApp
<1>2. appToBg'[t] = Tail(appToBg[t]) /\ \A u \in Threads \ {t} : appToBg'[u] = appToBg[u]
  BY <1>1 DEF ReadersOK
<1>3. IsSeq(appToBg[t])
  BY DueIs
<1>4. /\ RequestsIn(appToBg[t])
           = RequestsIn(Tail(appToBg[t])) + (IF Head(appToBg[t]).type = "RowRequest" THEN 1 ELSE 0)
      /\ RequestsIn(Tail(appToBg[t])) \in Nat
  BY <1>1, <1>3, RequestsTail
<1> QED  BY <1>1, <1>2, <1>4

\* A request that is answered at once.
LEMMA AnsweredCounts ==
  ASSUME PushTypes, GetsCounted, NEW c \in Clients, NEW t \in Threads, PushRowRequestAnswered(c, t)
  PROVE  GetsCounted'
<1>1. ReadersOK /\ ReadersOK'
  BY FromThreadTypes DEF PushTypes
<1>2. /\ NextFromThread(c, t, "RowRequest")
      /\ replies' = [replies EXCEPT ![t] = @ + 1]
      /\ UNCHANGED <<pc, aborted, pending, mgr>>
  BY DEF PushRowRequestAnswered, threadVars, clientVars, bgVars
<1>3. /\ ClientOf[t] = c /\ Alive(c) /\ RequestsIn(appToBg[t]) = RequestsIn(appToBg'[t]) + 1
      /\ RequestsIn(appToBg'[t]) \in Nat
      /\ \A u \in Threads \ {t} : appToBg'[u] = appToBg[u]
  BY <1>1, <1>2, RequestTaken
<1>4. replies'[t] = replies[t] + 1 /\ \A u \in Threads \ {t} : replies'[u] = replies[u]
  BY <1>1, <1>2 DEF ReadersOK
<1>5. OwnRequests'
  BY <1>2 DEF GetsCounted, OwnRequests
<1>6. \A u \in Threads : Due(u)' = Due(u)
  <2>1. Due(t)' = Due(t)
    BY <1>1, <1>2, <1>3, <1>4, DueIs DEF Due
  <2>2. ASSUME NEW u \in Threads \ {t} PROVE Due(u)' = Due(u)
    BY <1>2, <1>3, <1>4 DEF Due
  <2> QED  BY <2>1, <2>2
<1>7. \A u \in Threads : Counted(u) => Counted(u)'
  BY <1>2, <1>6 DEF Counted
<1>8. \A u \in Threads : Alive(ClientOf[u])' <=> Alive(ClientOf[u])
  BY <1>2 DEF Alive
<1>9. ASSUME NEW u \in Threads, ~Alive(ClientOf[u]) PROVE replies'[u] <= replies[u]
  <2>1. u # t
    BY <1>3, <1>9
  <2> QED  BY <1>1, <1>4, <2>1, DueIs
<1> QED  BY <1>1, <1>5, <1>7, <1>8, <1>9, CountKept

\* A request that the manager takes.
LEMMA ForwardedCounts ==
  ASSUME PushTypes, GetsCounted, NEW c \in Clients, NEW t \in Threads, PushRowRequestForwarded(c, t)
  PROVE  GetsCounted'
<1> DEFINE msg == Head(appToBg[t])
           r == msg.row
           k == msg.clock
<1>1. ReadersOK /\ ReadersOK' /\ ManagersOK
  BY FromThreadTypes DEF PushTypes
<1>2. /\ NextFromThread(c, t, "RowRequest")
      /\ \E b \in StoredSent : mgr' = [mgr EXCEPT ![c] = Mgr!AddRowRequest(@, r, t, k, b)]
      /\ UNCHANGED <<pc, aborted, pending, replies>>
  BY DEF PushRowRequestForwarded, threadVars, clientVars, pushVars, asyncVars
<1>3. /\ ClientOf[t] = c /\ Alive(c) /\ RequestsIn(appToBg[t]) = RequestsIn(appToBg'[t]) + 1
      /\ RequestsIn(appToBg'[t]) \in Nat
      /\ \A u \in Threads \ {t} : appToBg'[u] = appToBg[u]
  BY <1>1, <1>2, RequestTaken
<1>4. r \in Rows /\ k \in Nat
  <2>1. msg \in FromReader /\ msg.type = "RowRequest"
    BY <1>1, <1>2, FromReaderTypes
  <2> HIDE DEF msg
  <2> QED  BY <2>1, RequestOfReader
<1>5. PICK b \in StoredSent : mgr' = [mgr EXCEPT ![c] = Mgr!AddRowRequest(@, r, t, k, b)]
  BY <1>2
<1> DEFINE m == mgr[c]
           n == Mgr!AddRowRequest(m, r, t, k, b)
           at == Behind(m, r, k) + 1
           e == [thread |-> t, clock |-> k, sent |-> b]
<1>6. mgr'[c] = n /\ \A d \in Clients \ {c} : mgr'[d] = mgr[d]
  BY <1>1, <1>5 DEF ManagersOK
<1>7. ManagerOK(m) /\ b \in BOOLEAN
  BY <1>1, SettingsAssumption DEF ManagersOK
<1> HIDE DEF msg, r, k, m
<1>8. PushRequested(m, n, r, at, e)
  BY <1>4, <1>7, PushAddRowRequestFacts
<1>9. e.thread = t
  OBVIOUS
<1> HIDE DEF n, at, e
<1>10. \A u \in Threads : HeldBy(n, u) = HeldBy(m, u) + (IF u = t THEN 1 ELSE 0)
  <2> SUFFICES ASSUME NEW u \in Threads PROVE HeldBy(n, u) = HeldBy(m, u) + (IF u = t THEN 1 ELSE 0)
    OBVIOUS
  <2>1. HeldBy(n, u) = HeldBy(m, u) + (IF e.thread = u THEN 1 ELSE 0)
    BY <1>4, <1>7, <1>8, HeldGrows
  <2> QED  BY <1>9, <2>1
<1>11. OwnRequests'
  <2>1. ASSUME NEW d \in Clients, NEW x \in Rows, NEW i \in DOMAIN mgr'[d].pending[x]
        PROVE  ClientOf[mgr'[d].pending[x][i].thread] = d
    <3>0. \A j \in DOMAIN mgr[d].pending[x] : ClientOf[mgr[d].pending[x][j].thread] = d
      BY DEF GetsCounted, OwnRequests
    <3>1. CASE d # c
      BY <1>6, <2>1, <3>0, <3>1
    <3>2. CASE d = c /\ x # r
      <4>1. n.pending[x] = m.pending[x]
        BY <1>8, <3>2 DEF PushRequested
      <4> QED  BY <1>6, <2>1, <3>0, <3>2, <4>1 DEF m
    <3>3. CASE d = c /\ x = r
      <4> DEFINE q == m.pending[r]
                 p == n.pending[r]
      <4>1. /\ at \in 1 .. Len(q) + 1 /\ Len(q) \in Nat /\ DOMAIN q = 1 .. Len(q)
            /\ DOMAIN p = 1 .. Len(q) + 1
            /\ \A j \in 1 .. Len(q) + 1 : p[j] = IF j < at THEN q[j] ELSE IF j = at THEN e ELSE q[j - 1]
        BY <1>8 DEF PushRequested
      <4>2. (\A j \in DOMAIN q : ClientOf[q[j].thread] = c) /\ i \in DOMAIN p
        BY <1>6, <2>1, <3>0, <3>3 DEF m
      <4> HIDE DEF p, q
      <4>3. ASSUME i < at PROVE ClientOf[p[i].thread] = c
        <5>1. i \in 1 .. Len(q) /\ p[i] = q[i]
          BY <4>1, <4>2, <4>3
        <5> QED  BY <4>1, <4>2, <5>1
      <4>4. ASSUME i = at PROVE ClientOf[p[i].thread] = c
        <5>1. p[i] = e
          BY <4>1, <4>2, <4>4
        <5> QED  BY <1>3, <1>9, <5>1
      <4>5. ASSUME i > at PROVE ClientOf[p[i].thread] = c
        <5>1. i - 1 \in 1 .. Len(q) /\ p[i] = q[i - 1]
          BY <4>1, <4>2, <4>5
        <5> QED  BY <4>1, <4>2, <5>1
      <4>6. ClientOf[p[i].thread] = c
        BY <4>1, <4>2, <4>3, <4>4, <4>5
      <4> QED  BY <1>6, <3>3, <4>6 DEF p
    <3> QED  BY <3>1, <3>2, <3>3
  <2> QED  BY <2>1 DEF OwnRequests
<1>12. ASSUME NEW u \in Threads PROVE Counted(u) => Counted(u)'
  <2>1. CASE u = t
    <3>1. Due(t)' = Due(t) + 1
      BY <1>1, <1>2, <1>3, DueIs DEF Due
    <3>2. HeldBy(n, t) = HeldBy(m, t) + 1
      BY <1>10
    <3> QED  BY <1>3, <1>6, <2>1, <3>1, <3>2 DEF Counted, m
  <2>2. CASE u # t
    <3>1. Due(u)' = Due(u)
      BY <1>2, <1>3, <2>2 DEF Due
    <3>2. HeldBy(mgr'[ClientOf[u]], u) = HeldBy(mgr[ClientOf[u]], u)
      <4>1. CASE ClientOf[u] = c
        <5>1. HeldBy(n, u) = HeldBy(m, u) + 0
          BY <1>10, <2>2
        <5>2. HeldBy(m, u) \in Nat
          BY <1>7, HeldIsNumber
        <5> QED  BY <1>6, <4>1, <5>1, <5>2 DEF m
      <4>2. CASE ClientOf[u] # c
        BY <1>6, <4>2, ThreadsAssumption
      <4> QED  BY <4>1, <4>2
    <3> QED  BY <3>1, <3>2 DEF Counted
  <2> QED  BY <2>1, <2>2
<1>13. \A u \in Threads : Alive(ClientOf[u])' <=> Alive(ClientOf[u])
  BY <1>2 DEF Alive
<1>14. \A u \in Threads : replies'[u] <= replies[u]
  BY <1>1, <1>2, DueIs
<1> QED  BY <1>1, <1>11, <1>12, <1>13, <1>14, CountKept

\* Updates that are sent.
LEMMA SendOpLogsCounts ==
  ASSUME PushTypes, GetsCounted, NEW c \in Clients, NEW t \in Threads,
         PushHandleBgClock(c, t) \/ PushHandleBgSendOpLog(c, t)
  PROVE  GetsCounted'
<1>1. ReadersOK /\ ReadersOK' /\ ManagersOK /\ ClientsOK
  BY FromThreadTypes DEF PushTypes, CommonOK
<1>2. /\ UNCHANGED <<pc, aborted, pending, replies>>
      /\ mgr' = [mgr EXCEPT ![c] = Mgr!AddOpLog(@, Mgr!Word(version[c]), TakenOpLog(c))]
      /\ NextFromThread(c, t, "BgClock") \/ NextFromThread(c, t, "BgSendOpLog")
  BY DEF PushHandleBgClock, PushHandleBgSendOpLog, PushSendOpLogs, pushVars, asyncVars, threadVars
<1>3. /\ RequestsIn(appToBg[t]) = RequestsIn(appToBg'[t])
      /\ \A u \in Threads \ {t} : appToBg'[u] = appToBg[u]
  <2>1. ASSUME NEW type, type # "RowRequest", NextFromThread(c, t, type)
        PROVE  /\ RequestsIn(appToBg[t]) = RequestsIn(appToBg'[t])
               /\ \A u \in Threads \ {t} : appToBg'[u] = appToBg[u]
    BY <1>1, <2>1, RequestTaken
  <2> QED  BY <1>2, <2>1
<1>4. ListsStay
  <2> DEFINE m == mgr[c]
             log == TakenOpLog(c)
             v == version[c]
             n == Mgr!AddOpLog(m, Mgr!Word(v), log)
  <2>1. ManagerOK(m) /\ log \in Updates /\ v \in Int
    BY <1>1, TakenTypes DEF ManagersOK, ClientsOK
  <2>2. mgr'[c] = n /\ \A d \in Clients \ {c} : mgr'[d] = mgr[d]
    BY <1>1, <1>2 DEF ManagersOK
  <2> HIDE DEF m, log, v
  <2>3. n.pending = m.pending
    BY <2>1, PushAddOpLogFacts
  <2> HIDE DEF n
  <2> QED  BY <2>2, <2>3 DEF ListsStay, m
<1>5. \A u \in Threads : RequestsIn(appToBg'[u]) = RequestsIn(appToBg[u])
  BY <1>3
<1> QED  BY <1>1, <1>2, <1>4, <1>5, NobodyAsks

\* A thread that has asked for nothing is answered nothing.
LEMMA NoAnswers ==
  ASSUME NEW q, NEW t, \A i \in DOMAIN q : q[i].thread # t
  PROVE  AnswersTo(q, t) = 0
<1>1. {i \in DOMAIN q : q[i].thread = t} = {}
  OBVIOUS
<1> QED  BY <1>1, FS_EmptySet DEF AnswersTo

\* Replies to those whose requests a server's reply satisfies.
LEMMA ReplyCounts ==
  ASSUME PushTypes, PushShapes, GetsCounted, NEW c \in Clients, NEW s \in Servers,
         PushHandleReply(c, s)
  PROVE  GetsCounted'
<1> DEFINE reply == Head(serverToBg[s][c])
           r     == reply.row
           k     == reply.clock
           old   == mgr[c]
           acked == Acknowledged(c, s, reply)
           done  == Mgr!Satisfied(old, r, k)
           new   == Mgr!InformReply(acked, r, k)
           q     == old.pending[r]
           p     == new.pending[r]
<1>1. ReadersOK /\ ManagersOK /\ ChannelsOK /\ ReadersOK'
  BY PushHandleReplyTypes DEF PushTypes
<1>2. /\ NextFromServer(c, s, "RowReply")
      /\ mgr' = [mgr EXCEPT ![c] = new]
      /\ replies' = [t \in Threads |-> replies[t] + AnswersTo(done, t)]
      /\ UNCHANGED <<pc, aborted, appToBg, pending>>
  BY Zenon DEF PushHandleReply, threadVars
<1>3. r \in Rows /\ k \in Nat /\ reply.version \in Int
  <2>1. IsFromServer(s, reply) /\ reply.type = "RowReply"
    BY <1>1, <1>2, FromServerTypes
  <2> HIDE DEF reply
  <2> QED  BY <2>1, KindsFromServer
<1>4. Alive(c)
  BY <1>2 DEF NextFromServer
<1>5. ManagerOK(old) /\ mgr'[c] = new /\ \A d \in Clients \ {c} : mgr'[d] = mgr[d]
  BY <1>1, <1>2 DEF ManagersOK
<1>6. ManagerOK(acked) /\ acked.pending = old.pending
  <2> DEFINE v == reply.version
  <2>1. acked = Mgr!ServerAcknowledgeVersion(old, s, Mgr!Word(v))
    BY DEF Acknowledged
  <2>2. v \in Int
    BY <1>3
  <2> HIDE DEF old, acked, v
  <2> QED  BY <1>5, <2>1, <2>2, AcknowledgeFacts
<1>7. q \in Seq(PushRequest) /\ Len(q) \in Nat /\ DOMAIN q = 1 .. Len(q) /\ \A e \in PushRequest : e.clock \in Nat
  <2> HIDE DEF old, r
  <2> QED  BY <1>3, <1>5, RequestsAreList DEF PushRequest
<1> HIDE DEF reply, r, k, acked
<1> DEFINE d == Len(done)
           again == Mgr!ClockToRequest(acked, r, k)
<1>8. done = Satisfied(old, r, k) /\ done = Satisfied(acked, r, k)
  <2> HIDE DEF old
  <2>1. done = Satisfied(old, r, k)
    BY SatisfiedOf
  <2>2. Satisfied(old, r, k) = Satisfied(acked, r, k)
    BY <1>6 DEF Satisfied
  <2> QED  BY <2>1, <2>2
<1>9. d \in 0 .. Len(q) /\ Begins(done, q, d)
  <2> HIDE DEF old, done
  <2>1. /\ Len(Satisfied(old, r, k)) \in 0 .. Len(q)
        /\ DOMAIN Satisfied(old, r, k) = 1 .. Len(Satisfied(old, r, k))
        /\ \A i \in 1 .. Len(Satisfied(old, r, k)) : Satisfied(old, r, k)[i] = q[i]
    BY <1>3, <1>7, SatisfiedIsHead
  <2> QED  BY <1>8, <2>1 DEF Begins
<1>10. PushAnswered(acked, new, r, d, again)
  <2> HIDE DEF old, done
  <2> QED  BY <1>3, <1>6, <1>8, PushInformReplyFacts
<1> HIDE DEF old, done, new, again, d, q, p
<1>11. Begins(done, acked.pending[r], d)
  BY <1>6, <1>9 DEF q
<1>12. \A u \in Threads : HeldBy(old, u) = HeldBy(new, u) + AnswersTo(done, u)
  <2> SUFFICES ASSUME NEW u \in Threads PROVE HeldBy(old, u) = HeldBy(new, u) + AnswersTo(done, u)
    OBVIOUS
  <2>1. HeldBy(acked, u) = HeldBy(new, u) + AnswersTo(done, u)
    BY <1>3, <1>6, <1>10, <1>11, HeldShrinks
  <2>2. HeldBy(acked, u) = HeldBy(old, u)
    BY <1>6, HeldStays
  <2> QED  BY <2>1, <2>2
<1>13. \A u \in Threads : AnswersTo(done, u) \in Nat
  <2> SUFFICES ASSUME NEW u \in Threads PROVE AnswersTo(done, u) \in Nat
    OBVIOUS
  <2> QED  BY <1>10, <1>11, AnswersSplit
<1>14. ManagerOK(new)
  BY <1>10 DEF PushAnswered
<1>15. \A i \in DOMAIN q : ClientOf[q[i].thread] = c
  BY <1>3 DEF GetsCounted, OwnRequests, q, old
<1>16. ASSUME NEW u \in Threads, ClientOf[u] # c PROVE AnswersTo(done, u) = 0
  <2>1. \A i \in DOMAIN done : done[i].thread # u
    <3>1. \A i \in 1 .. d : i \in DOMAIN q
      BY <1>7, <1>9
    <3> QED  BY <1>9, <1>15, <1>16, <3>1 DEF Begins
  <2> QED  BY <2>1, NoAnswers
<1>17. OwnRequests'
  <2>1. ASSUME NEW e \in Clients, NEW x \in Rows, NEW i \in DOMAIN mgr'[e].pending[x]
        PROVE  ClientOf[mgr'[e].pending[x][i].thread] = e
    <3>1. \A j \in DOMAIN mgr[e].pending[x] : ClientOf[mgr[e].pending[x][j].thread] = e
      BY DEF GetsCounted, OwnRequests
    <3>2. CASE e # c
      BY <1>5, <2>1, <3>1, <3>2
    <3>3. CASE e = c /\ x # r
      <4>1. new.pending[x] = old.pending[x]
        BY <1>6, <1>10, <3>3 DEF PushAnswered
      <4> QED  BY <1>5, <2>1, <3>1, <3>3, <4>1 DEF old
    <3>4. CASE e = c /\ x = r
      <4>1. /\ DOMAIN p = 1 .. Len(q) - d
            /\ \A j \in 1 .. Len(q) - d : p[j].thread = q[d + j].thread
        BY <1>6, <1>10 DEF PushAnswered, p, q
      <4>2. i \in 1 .. Len(q) - d
        BY <1>5, <2>1, <3>4, <4>1 DEF p
      <4>3. d + i \in DOMAIN q
        BY <1>7, <1>9, <4>2
      <4>4. ClientOf[p[i].thread] = c
        BY <1>15, <4>1, <4>2, <4>3
      <4> QED  BY <1>5, <3>4, <4>4 DEF p
    <3> QED  BY <3>2, <3>3, <3>4
  <2> QED  BY <2>1 DEF OwnRequests
<1>18. ASSUME NEW u \in Threads PROVE Counted(u) => Counted(u)'
  <2>1. Due(u)' = Due(u) - AnswersTo(done, u)
    <3>1. replies'[u] = replies[u] + AnswersTo(done, u) /\ AnswersTo(done, u) \in Nat
      BY <1>2, <1>13
    <3> QED  BY <1>1, <1>2, <3>1, DueIs DEF Due
  <2>2. AnswersTo(done, u) \in Nat /\ Due(u) \in Int
    BY <1>1, <1>13, DueIs DEF Due
  <2>3. CASE ClientOf[u] = c
    <3>1. HeldBy(old, u) = HeldBy(new, u) + AnswersTo(done, u) /\ HeldBy(new, u) \in Nat
      BY <1>12, <1>14, HeldIsNumber
    <3>2. HeldBy(old, u) = Due(u) => HeldBy(new, u) = Due(u)'
      BY <2>1, <2>2, <3>1
    <3> QED  BY <1>5, <2>3, <3>2 DEF Counted, old
  <2>4. CASE ClientOf[u] # c
    <3>1. Due(u)' = Due(u)
      BY <1>16, <2>1, <2>2, <2>4
    <3> QED  BY <1>5, <2>4, <3>1, ThreadsAssumption DEF Counted
  <2> QED  BY <2>3, <2>4
<1>19. \A u \in Threads : Alive(ClientOf[u])' <=> Alive(ClientOf[u])
  BY <1>2 DEF Alive
<1>20. ASSUME NEW u \in Threads, ~Alive(ClientOf[u]) PROVE replies'[u] <= replies[u]
  <2>1. AnswersTo(done, u) = 0
    BY <1>4, <1>16, <1>20
  <2> QED  BY <1>1, <1>2, <2>1, DueIs
<1> QED  BY <1>1, <1>17, <1>18, <1>19, <1>20, CountKept

\* Messages of servers that answer nobody, and the notification.
LEMMA OtherMessagesCount ==
  ASSUME PushTypes, PushShapes, GetsCounted, NEW c \in Clients,
         \/ \E s \in Servers : HandleServerPushRow(c, s) \/ HandleServerOpLogAck(c, s)
         \/ NotifyAll(c)
  PROVE  GetsCounted'
<1>1. ReadersOK /\ ManagersOK /\ ChannelsOK
  BY DEF PushTypes
<1>2. CASE \E s \in Servers : HandleServerPushRow(c, s) \/ HandleServerOpLogAck(c, s)
  <2>1. PICK s \in Servers : HandleServerPushRow(c, s) \/ HandleServerOpLogAck(c, s)
    BY <1>2
  <2>2. ReadersOK'
    BY <2>1, HandleServerPushRowTypes, HandleServerOpLogAckTypes DEF PushTypes
  <2> DEFINE msg == Head(serverToBg[s][c])
             old == mgr[c]
             v == msg.version
             new == Mgr!ServerAcknowledgeVersion(old, s, Mgr!Word(v))
  <2>3. /\ \E kind : NextFromServer(c, s, kind)
        /\ mgr' = [mgr EXCEPT ![c] = new]
        /\ UNCHANGED <<pc, aborted, appToBg, replies, pending>>
    BY <2>1 DEF HandleServerPushRow, HandleServerOpLogAck, Acknowledged, threadVars, clientVars, pushVars,
                asyncVars
  <2>4. v \in Int
    <3>1. IsFromServer(s, msg)
      BY <1>1, <2>3, FromServerTypes
    <3> HIDE DEF msg
    <3> QED  BY <3>1, KindsFromServer
  <2>5. ManagerOK(old) /\ mgr'[c] = new /\ \A d \in Clients \ {c} : mgr'[d] = mgr[d]
    BY <1>1, <2>3 DEF ManagersOK
  <2>6. new.pending = old.pending
    <3> HIDE DEF old, v
    <3> QED  BY <2>4, <2>5, AcknowledgeFacts
  <2> HIDE DEF msg, v, new
  <2>7. ListsStay
    BY <2>5, <2>6 DEF ListsStay, old
  <2> QED  BY <2>2, <2>3, <2>7, NobodyAsks
<1>3. CASE NotifyAll(c)
  <2>1. ReadersOK'
    BY <1>3, NotifyAllTypes DEF PushTypes
  <2>2. /\ UNCHANGED <<mgr, aborted, appToBg, replies, pending>>
        /\ pc' = [t \in Threads |-> IF ClientOf[t] = c /\ pc[t] = "blocked" THEN "woken" ELSE pc[t]]
    BY <1>3 DEF NotifyAll, clientVars, bgVars, channelVars, asyncVars
  <2>3. \A t \in Threads : WaitOf(pc'[t]) = WaitOf(pc[t])
    BY <2>2 DEF WaitOf
  <2>4. ListsStay
    BY <2>2 DEF ListsStay
  <2> QED  BY <2>1, <2>2, <2>3, <2>4, NobodyAsks
<1> QED  BY <1>2, <1>3

\* Workers keep it.
LEMMA BgCounts ==
  ASSUME PushTypes, PushShapes, GetsCounted, NEW c \in Clients, PushBgNext(c)
  PROVE  GetsCounted'
BY AnsweredCounts, ForwardedCounts, SendOpLogsCounts, ReplyCounts, OtherMessagesCount DEF PushBgNext

\* Nobody has asked at the start.
LEMMA NobodyHasAsked == PushInit => GetsCounted
<1> SUFFICES ASSUME PushInit PROVE GetsCounted
  OBVIOUS
<1>1. PushTypes
  BY PushInitTypes
<1>2. /\ pc = [t \in Threads |-> "run"] /\ appToBg = [t \in Threads |-> << >>]
      /\ aborted = [c \in Clients |-> FALSE]
      /\ replies = [t \in Threads |-> 0] /\ pending = [t \in Threads |-> 0]
      /\ \A c \in Clients : mgr[c] = Mgr!EmptyMgr(Rows, Servers)
  BY DEF PushInit, Start
<1> DEFINE m == Mgr!EmptyMgr(Rows, Servers)
<1>3. ManagerOK(m) /\ \A r \in Rows : m.pending[r] = << >>
  <2>1. \A r \in Rows : m.pending[r] = << >>
    BY DEF Mgr!EmptyMgr
  <2>2. ManagerOK(m)
    <3> HIDE DEF m
    <3> QED  BY <1>1, <1>2, ThreadsAssumption DEF PushTypes, ManagersOK, m
  <2> QED  BY <2>1, <2>2
<1> HIDE DEF m
<1>4. OwnRequests
  BY <1>2, <1>3 DEF OwnRequests, m
<1>5. ASSUME NEW t \in Threads PROVE Counted(t)
  <2>1. HeldBy(m, t) = 0
    <3> DEFINE F == Held(m, t)
    <3>1. DOMAIN F = Rows /\ \A r \in Rows : F[r] = 0
      <4>1. AnswersTo(<< >>, t) = 0
        BY NoAnswers
      <4> QED  BY <1>3, <4>1 DEF Held
    <3> HIDE DEF F
    <3>2. SumFunctionOnSet(F, Rows) = 0
      BY <3>1, PushAssumption, SumOfZeros
    <3> QED  BY <3>1, <3>2 DEF HeldBy, SumFunction, F
  <2>2. RequestsIn(<< >>) = 0
    <3>1. {i \in DOMAIN << >> : << >>[i].type = "RowRequest"} = {}
      OBVIOUS
    <3> QED  BY <3>1, FS_EmptySet DEF RequestsIn
  <2>3. Due(t) = 0
    BY <1>2, <2>2 DEF Due, WaitOf
  <2>4. mgr[ClientOf[t]] = m
    BY <1>2, ThreadsAssumption DEF m
  <2> QED  BY <2>1, <2>3, <2>4 DEF Counted
<1>6. \A t \in Threads : Alive(ClientOf[t])
  BY <1>2, ThreadsAssumption DEF Alive
<1> QED  BY <1>4, <1>5, <1>6 DEF GetsCounted

\* Every step keeps it.
LEMMA PushStepCounts == PushInv /\ PushTypes /\ GetsCounted /\ [PushNext]_allVars => GetsCounted'
<1> SUFFICES ASSUME PushInv, PushTypes, GetsCounted, [PushNext]_allVars PROVE GetsCounted'
  OBVIOUS
<1>1. PushShapes
  BY DEF PushInv
<1>2. CASE \E t \in Threads : PushThreadNext(t)
  BY <1>1, <1>2, ThreadCounts
<1>3. CASE \E c \in Clients : PushBgNext(c)
  BY <1>1, <1>3, BgCounts
<1>4. ASSUME UNCHANGED <<mgr, aborted, replies, pending, pc, appToBg>> PROVE GetsCounted'
  <2>1. ReadersOK'
    BY PushStepTypes DEF PushTypes
  <2>2. ListsStay
    BY <1>4 DEF ListsStay
  <2> QED  BY <1>4, <2>1, <2>2, NobodyAsks
<1>5. CASE \E s \in Servers : PushServerNext(s)
  <2>1. PICK s \in Servers, c \in Clients : \/ RowRequestBuffered(s, c) /\ UNCHANGED pushVars
                                            \/ PushRowRequestReplied(s, c)
                                            \/ PushHandleOpLog(s, c)
    BY <1>5 DEF PushServerNext
  <2>2. UNCHANGED <<mgr, aborted, replies, pending, pc, appToBg>>
    BY <2>1, Zenon DEF RowRequestBuffered, PushRowRequestReplied, RowRequestReplied, PushHandleOpLog,
                threadVars, clientVars, bgVars, pushVars, asyncVars
  <2> QED  BY <1>4, <2>2
<1>6. CASE UNCHANGED allVars
  <2>1. UNCHANGED <<mgr, aborted, replies, pending, pc, appToBg>>
    BY <1>6 DEF allVars, vars, threadVars, clientVars, bgVars, channelVars, pushVars, asyncVars
  <2> QED  BY <1>4, <2>1
<1> QED  BY <1>2, <1>3, <1>5, <1>6 DEF PushNext

\* Both hold always.
LEMMA CountedHolds == PushSpec => [](PushTypes /\ GetsCounted)
<1>1. PushInit => PushTypes /\ GetsCounted
  BY PushInitTypes, NobodyHasAsked
<1>2. PushInv /\ (PushTypes /\ GetsCounted) /\ [PushNext]_allVars => (PushTypes /\ GetsCounted)'
  BY PushStepTypes, PushStepCounts
<1> QED  BY <1>1, <1>2, PushInvHolds, PTL DEF PushSpec

\* AsyncGetsAreCounted, for any number of processes, threads, servers and rows:
\* each reply a thread still counts on is there, or asked for once in the queue
\* to its worker or in the worker's lists.
THEOREM AsyncGetsCount == PushSpec => []AsyncGetsAreCounted
<1>1. PushTypes /\ GetsCounted => AsyncGetsAreCounted
  <2> SUFFICES ASSUME PushTypes, GetsCounted,
                      NEW t \in {t \in Readers \cup AsyncReaders : Alive(ClientOf[t])}
               PROVE  LET c       == ClientOf[t]
                          asked   == {i \in DOMAIN appToBg[t] : appToBg[t][i].type = "RowRequest"}
                          waiting == [r \in Rows |-> AnswersTo(mgr[c].pending[r], t)]
                      IN  replies[t] + Cardinality(asked) + SumFunction(waiting)
                            = pending[t] + (IF pc[t] = "wait" THEN 1 ELSE 0)
    BY DEF AsyncGetsAreCounted
  <2>1. t \in Threads /\ Alive(ClientOf[t])
    BY BoundsAssumption, PushAssumption
  <2>2. HeldBy(mgr[ClientOf[t]], t) = Due(t)
    BY <2>1 DEF GetsCounted, Counted
  <2>3. /\ replies[t] \in Nat /\ pending[t] \in 0 .. MaxAsync /\ WaitOf(pc[t]) \in 0 .. 1
        /\ RequestsIn(appToBg[t]) \in Nat /\ MaxAsync \in Nat
    BY <2>1, DueIs DEF PushTypes
  <2>4. replies[t] + RequestsIn(appToBg[t]) + HeldBy(mgr[ClientOf[t]], t) = pending[t] + WaitOf(pc[t])
    BY <2>2, <2>3 DEF Due
  <2> QED  BY <2>4 DEF HeldBy, Held, RequestsIn, WaitOf
<1> QED  BY <1>1, CountedHolds, PTL

\* The type invariant, with at most one reply more at hand than GetAsync has
\* counted.
THEOREM PushTypesHold == PushSpec => []PushTypeOK
<1>1. PushInv /\ PushTypes /\ GetsCounted => PushTypeOK
  <2> SUFFICES ASSUME PushInv, PushTypes, GetsCounted PROVE PushTypeOK
    OBVIOUS
  <2>1. ThreadsOK /\ ClientsOK /\ ServersOK /\ ReadersOK /\ ManagersOK /\ ChannelsOK /\ PushShapes
    BY DEF PushTypes, CommonOK, PushInv
  <2>2. replies \in [Threads -> 0 .. MaxAsync + 1]
    BY <2>1, RepliesAreBounded DEF ReadersOK
  <2>3. \A t \in Threads : \A i \in DOMAIN appToBg[t] : appToBg[t][i] \in FromReader
    <3> SUFFICES ASSUME NEW t \in Threads PROVE \A i \in DOMAIN appToBg[t] : appToBg[t][i] \in FromReader
      OBVIOUS
    <3>1. appToBg[t] \in Seq(FromReader)
      BY <2>1 DEF ReadersOK
    <3> QED  BY <3>1, SeqParts
  <2>4. \A c \in Clients : /\ IsPushMgr(mgr[c])
                           /\ serverClock[c] \in VectorClocks(Servers)
                           /\ systemClock[c] \in Nat
                           /\ notifying[c] \in BOOLEAN
    BY <2>1 DEF ManagersOK, ManagerOK, ChannelsOK, PushShapes
  <2>5. \A s \in Servers : /\ subscribed[s] \in [RowsOf(s) -> SUBSET Clients]
                           /\ dirty[s] \subseteq RowsOf(s)
                           /\ \A c \in Clients : \A i \in DOMAIN serverToBg[s][c] :
                                IsFromServer(s, serverToBg[s][c][i])
    BY <2>1 DEF ChannelsOK, PushShapes
  <2>6. /\ pc \in [Threads -> {"run", "tested", "blocked", "woken", "wait", "flush", "tick", "clock", "send"}]
        /\ cachedClock \in [Threads -> Nat] /\ pending \in [Threads -> 0 .. MaxAsync]
    BY <2>1 DEF ReadersOK, Places
  <2> QED  BY <2>1, <2>2, <2>3, <2>4, <2>5, <2>6 DEF PushTypeOK, FromReader
<1> QED  BY <1>1, PushInvHolds, CountedHolds, PTL
==============================================================================
