------------------------- MODULE SSP_updates_proofs -------------------------
(***************************************************************************)
(* Where the updates are.  Every thread has, for every row, a ledger f:    *)
(* f[v] is how many of its updates have left its process in the versions   *)
(* of the oplog up to v.  What the server holds, what is in a message, in  *)
(* an oplog the worker kept, in a reply and in a cached row are values or  *)
(* differences of f (AccountsOK), and every step keeps a ledger.           *)
(*                                                                         *)
(* With it, the freshness of rows: replies reach a process in the order in *)
(* which the server's row grew (RepliesInOrder), and a thread that wakes   *)
(* finds, in the cache or by asking again, a row that is fresh enough      *)
(* (WokenThreads).  So the protocol implements the abstract specification  *)
(* of bounded staleness.                                                   *)
(***************************************************************************)
EXTENDS SSP_proofs

-----------------------------------------------------------------------------
(* The account of a thread's updates to a row.                             *)

OpLogsOf(q) == {m \in ToSet(q) : m.type = "OpLog"}

\* f[v]: how many of them have left the process in the versions up to v.  The
\* server holds those of the versions it has applied; the messages and the
\* oplogs that are kept hold those of their version; the rest is in the oplog.
Sent(t, r, f) ==
  LET c == ClientOf[t]
      s == ServerOf[r]
  IN  /\ \A v, w \in Int : v <= w => f[v] <= f[w]
      /\ table[s][r][t] = f[bgVersion[s][c]]
      /\ Shared(t, r) = f[version[c] - 1] + oplog[c][r][t]
      /\ \A m \in OpLogsOf(bgToServer[c][s]) : m.updates[r][t] = f[m.version] - f[m.version - 1]
      /\ \A v \in DOMAIN mgr[c].oplogs : v < version[c] /\ mgr[c].oplogs[v][r][t] = f[v] - f[v - 1]

\* No other process has any of them to send.
Elsewhere(t, r) ==
  \A d \in Clients : d # ClientOf[t] =>
    /\ oplog[d][r][t] = 0
    /\ \A m \in OpLogsOf(bgToServer[d][ServerOf[r]]) : m.updates[r][t] = 0
    /\ \A v \in DOMAIN mgr[d].oplogs : mgr[d].oplogs[v][r][t] = 0

\* A clock that the process' worker has sent, or the server has reached, is one
\* that the thread has ended, and what it did before went ahead of it.
Ended(t, r, f) ==
  LET c == ClientOf[t]
      s == ServerOf[r]
  IN  /\ r \notin oplogIndex[c] => MadeBefore(t, r, clock[t]) <= f[version[c] - 1]
      /\ \A m \in OpLogsOf(bgToServer[c][s]) :
           m.isClock => m.bgClock <= clock[t] /\ MadeBefore(t, r, m.bgClock) <= f[m.version]
      /\ bgClock[s].vec[c] <= clock[t]
      /\ MadeBefore(t, r, bgClock[s].vec[c]) <= table[s][r][t]

\* A reply holds what its clock promises; and of its own process' updates,
\* those up to the version it names.
FairReply(t, r, f, d, m) ==
  LET s == ServerOf[r]
  IN  /\ m.clock <= clock[t] /\ MadeBefore(t, r, m.clock) <= m.data[t]
      /\ IF d = ClientOf[t] THEN m.version <= bgVersion[s][d] /\ m.data[t] = f[m.version]
         ELSE m.data[t] <= table[s][r][t]

Replied(t, r, f) ==
  \A d \in Clients : \A m \in ToSet(serverToBg[ServerOf[r]][d]) : m.row = r => FairReply(t, r, f, d, m)

\* So does a cached row; and of its own process' updates, all.
FairRow(t, r, d, k, n) ==
  /\ k <= clock[t] /\ MadeBefore(t, r, k) <= n
  /\ IF d = ClientOf[t] THEN n = Shared(t, r) ELSE n <= table[ServerOf[r]][r][t]

Cached(t, r) ==
  \A d \in Clients : cache[d][r].clock >= 0 => FairRow(t, r, d, cache[d][r].clock, cache[d][r].data[t])

Account(t, r, f) ==
  Sent(t, r, f) /\ Elsewhere(t, r) /\ Ended(t, r, f) /\ Replied(t, r, f) /\ Cached(t, r)

AccountsOK == \A t \in Threads, r \in Rows : \E f \in [Int -> Nat] : Account(t, r, f)

-----------------------------------------------------------------------------
(* Types.                                                                  *)

\* The process of a thread and the server of a row.
LEMMA PlacesOf ==
  ASSUME NEW t \in Threads, NEW r \in Rows
  PROVE  ClientOf[t] \in Clients /\ ServerOf[r] \in Servers /\ ServerOf[r] \in Clients /\ r \in RowsOf(ServerOf[r])
BY ThreadsAssumption, ServersAssumption DEF RowsOf

\* The numbers of an account.
LEMMA NumbersOf ==
  ASSUME TypeOK, NEW t \in Threads, NEW r \in Rows, NEW d \in Clients
  PROVE  LET s == ServerOf[r]
         IN  /\ table[s][r][t] \in Nat /\ bgVersion[s][d] \in Int /\ bgClock[s].vec[d] \in Nat
             /\ bgClock[s].min \in Nat
             /\ oplog[d][r][t] \in Nat /\ version[d] \in Nat /\ clock[t] \in Nat
             /\ clientClock[d] \in Nat
             /\ cache[d][r].clock \in Int /\ cache[d][r].data[t] \in Nat
<1>1. ServerOf[r] \in Servers /\ r \in RowsOf(ServerOf[r])
  BY PlacesOf
<1>2. ThreadsOK /\ ClientsOK /\ ServersOK
  BY DEF TypeOK
<1>3. table[ServerOf[r]][r] \in Vec
  BY <1>1, <1>2 DEF ServersOK
<1>4. bgClock[ServerOf[r]] \in VectorClocks(Clients) /\ bgVersion[ServerOf[r]][d] \in Int
  BY <1>1, <1>2 DEF ServersOK
<1>5. oplog[d][r] \in Vec
  BY <1>2 DEF ClientsOK, Updates
<1>6. cache[d][r] \in [clock : Nat \cup {-1}, data : Vec] /\ version[d] \in Nat /\ clientClock[d] \in Nat
  BY <1>2 DEF ClientsOK
<1>7. clock[t] \in Nat
  BY <1>2 DEF ThreadsOK
<1> QED  BY <1>3, <1>4, <1>5, <1>6, <1>7 DEF Vec, VectorClocks

\* The numbers of an oplog message.
LEMMA NumbersOfOpLogs ==
  ASSUME TypeOK, NEW t \in Threads, NEW r \in Rows, NEW d \in Clients,
         NEW m \in OpLogsOf(bgToServer[d][ServerOf[r]])
  PROVE  m.version \in Nat /\ m.bgClock \in Nat /\ m.updates[r][t] \in Nat /\ m.isClock \in BOOLEAN
<1> DEFINE q == bgToServer[d][ServerOf[r]]
<1>1. ServerOf[r] \in Servers /\ r \in RowsOf(ServerOf[r])
  BY PlacesOf
<1>2. q \in Seq(ToServer(ServerOf[r]))
  BY <1>1 DEF TypeOK, ServersOK
<1>3. m \in ToServer(ServerOf[r]) /\ m.type = "OpLog"
  <2> HIDE DEF q
  <2>1. m \in OpLogsOf(q)
    BY DEF q
  <2>2. PICK i \in DOMAIN q : m = q[i] /\ m.type = "OpLog"
    BY <2>1 DEF OpLogsOf, ToSet
  <2> QED  BY <1>2, <2>2, SeqParts
<1>4. m.updates \in [RowsOf(ServerOf[r]) -> Vec]
  BY <1>3 DEF ToServer
<1> QED  BY <1>1, <1>3, <1>4 DEF ToServer, Vec

\* The numbers of a reply.
LEMMA NumbersOfReplies ==
  ASSUME TypeOK, NEW t \in Threads, NEW s \in Servers, NEW d \in Clients,
         NEW m \in ToSet(serverToBg[s][d])
  PROVE  m \in RowReplies(s) /\ m.clock \in Nat /\ m.version \in Int /\ m.data \in Vec /\ m.data[t] \in Nat
<1> DEFINE q == serverToBg[s][d]
<1>1. q \in Seq(RowReplies(s))
  BY DEF TypeOK
<1>2. m \in RowReplies(s)
  <2> HIDE DEF q
  <2>1. m \in ToSet(q)
    BY DEF q
  <2> QED  BY <1>1, <2>1, SeqParts DEF ToSet
<1> QED  BY <1>2 DEF RowReplies, Vec

-----------------------------------------------------------------------------
(* Channels.                                                               *)

\* The messages of a channel, with one more.
LEMMA SetOfAppend ==
  ASSUME NEW q, IsSeq(q), NEW m
  PROVE  /\ ToSet(Append(q, m)) = ToSet(q) \cup {m}
         /\ OpLogsOf(Append(q, m)) = OpLogsOf(q) \cup (IF m.type = "OpLog" THEN {m} ELSE {})
<1>1. ToSet(Append(q, m)) = ToSet(q) \cup {m}
  BY AppendToSeq DEF ToSet
<1> QED  BY <1>1 DEF OpLogsOf

\* The messages of a channel, without the first.
LEMMA SetOfTail ==
  ASSUME NEW q, IsSeq(q), q # << >>
  PROVE  /\ ToSet(Tail(q)) \subseteq ToSet(q) /\ OpLogsOf(Tail(q)) \subseteq OpLogsOf(q)
         /\ Head(q) \in ToSet(q) /\ (Head(q).type = "OpLog" => Head(q) \in OpLogsOf(q))
<1>1. ToSet(Tail(q)) \subseteq ToSet(q) /\ Head(q) \in ToSet(q)
  BY TailOfSeq DEF ToSet
<1> QED  BY <1>1 DEF OpLogsOf

\* The messages of two channels.
LEMMA SetOfJoined ==
  ASSUME NEW S, NEW q \in Seq(S), NEW p \in Seq(S)
  PROVE  ToSet(q \o p) \subseteq ToSet(q) \cup ToSet(p)
<1>1. /\ Len(q) \in Nat /\ DOMAIN q = 1 .. Len(q) /\ Len(p) \in Nat /\ DOMAIN p = 1 .. Len(p)
      /\ Len(q \o p) = Len(q) + Len(p) /\ DOMAIN (q \o p) = 1 .. Len(q) + Len(p)
      /\ \A i \in 1 .. Len(q) : (q \o p)[i] = q[i]
      /\ \A i \in Len(q) + 1 .. Len(q) + Len(p) : (q \o p)[i] = p[i - Len(q)]
  BY ConcatProperties, LenProperties
<1>2. ASSUME NEW i \in DOMAIN (q \o p) PROVE (q \o p)[i] \in ToSet(q) \cup ToSet(p)
  <2>1. CASE i <= Len(q)
    BY <1>1, <2>1 DEF ToSet
  <2>2. CASE i > Len(q)
    <3>1. i - Len(q) \in DOMAIN p
      BY <1>1, <2>2
    <3> QED  BY <1>1, <2>2, <3>1 DEF ToSet
  <2> QED  BY <1>1, <2>1, <2>2
<1> QED  BY <1>2 DEF ToSet

-----------------------------------------------------------------------------
(* What a step that leaves a part of the account alone may do.             *)

\* What keeps the account of what has left the process.
LEMMA SentStays ==
  ASSUME NEW t \in Threads, NEW r \in Rows, NEW f \in [Int -> Nat], Sent(t, r, f),
         table'[ServerOf[r]][r][t] = table[ServerOf[r]][r][t],
         bgVersion'[ServerOf[r]][ClientOf[t]] = bgVersion[ServerOf[r]][ClientOf[t]],
         version'[ClientOf[t]] = version[ClientOf[t]],
         Shared(t, r)' = f[version[ClientOf[t]] - 1] + oplog'[ClientOf[t]][r][t],
         OpLogsOf(bgToServer'[ClientOf[t]][ServerOf[r]]) \subseteq OpLogsOf(bgToServer[ClientOf[t]][ServerOf[r]]),
         KeepsOpLogs(mgr[ClientOf[t]], mgr'[ClientOf[t]])
  PROVE  Sent(t, r, f)'
<1> USE DEF Sent
<1>1. \A v \in DOMAIN mgr'[ClientOf[t]].oplogs :
        v < version[ClientOf[t]] /\ mgr'[ClientOf[t]].oplogs[v][r][t] = f[v] - f[v - 1]
  BY DEF KeepsOpLogs
<1> QED  BY <1>1

\* What keeps other processes out of the account.
LEMMA ElsewhereStays ==
  ASSUME NEW t \in Threads, NEW r \in Rows, Elsewhere(t, r),
         \A d \in Clients : d # ClientOf[t] =>
           /\ oplog'[d][r][t] = oplog[d][r][t]
           /\ OpLogsOf(bgToServer'[d][ServerOf[r]]) \subseteq OpLogsOf(bgToServer[d][ServerOf[r]])
           /\ KeepsOpLogs(mgr[d], mgr'[d])
  PROVE  Elsewhere(t, r)'
<1> SUFFICES ASSUME NEW d \in Clients, d # ClientOf[t]
             PROVE  /\ oplog'[d][r][t] = 0
                    /\ \A m \in OpLogsOf(bgToServer'[d][ServerOf[r]]) : m.updates[r][t] = 0
                    /\ \A v \in DOMAIN mgr'[d].oplogs : mgr'[d].oplogs[v][r][t] = 0
  BY DEF Elsewhere
<1>1. KeepsOpLogs(mgr[d], mgr'[d])
  OBVIOUS
<1>2. \A v \in DOMAIN mgr'[d].oplogs : v \in DOMAIN mgr[d].oplogs /\ mgr'[d].oplogs[v] = mgr[d].oplogs[v]
  BY <1>1 DEF KeepsOpLogs
<1> QED  BY <1>2 DEF Elsewhere

\* MadeBefore does not change for clocks that a thread has ended.
LEMMA PastStays ==
  ASSUME TypeOK, TypeOK', HistoryOK, Grows, NEW t \in Threads, NEW r \in Rows, NEW k \in Nat, k <= clock[t]
  PROVE  /\ MadeBefore(t, r, k)' = MadeBefore(t, r, k) /\ MadeBefore(t, r, k) \in Nat
         /\ k <= clock'[t]
<1>1. k \in 0 .. clock[t] /\ clock[t] \in Nat /\ clock'[t] \in Nat
  BY DEF TypeOK, ThreadsOK
<1>2. clock'[t] >= clock[t] /\ MadeBefore(t, r, k)' = MadeBefore(t, r, k)
  BY <1>1 DEF Grows
<1>3. MadeBefore(t, r, k) \in Nat
  BY <1>1, HistoryTypes DEF TypeOK
<1> QED  BY <1>1, <1>2, <1>3

\* The numbers of an account, after a step.
LEMMA NumbersNext ==
  ASSUME TypeOK', NEW t \in Threads, NEW r \in Rows, NEW d \in Clients
  PROVE  /\ table'[ServerOf[r]][r][t] \in Nat /\ bgVersion'[ServerOf[r]][d] \in Int
         /\ cache'[d][r].clock \in Int /\ cache'[d][r].data[t] \in Nat
         /\ Shared(t, r)' \in Int /\ clock'[t] \in Nat
<1>1. PICK s \in Servers : ServerOf[r] = s /\ r \in RowsOf(s)
  BY PlacesOf
<1>2. ThreadsOK' /\ ClientsOK' /\ ServersOK'
  BY DEF TypeOK
<1>3. table'[s] \in [RowsOf(s) -> Vec]
  BY <1>2 DEF ServersOK
<1>4. table'[s][r] \in Vec
  BY <1>1, <1>3
<1>5. bgVersion'[s][d] \in Int
  BY <1>2 DEF ServersOK
<1>6. cache'[d][r] \in [clock : Nat \cup {-1}, data : Vec]
  BY <1>2 DEF ClientsOK
<1>7. made'[t][r] \in Nat /\ threadOplog'[t][r] \in Nat /\ clock'[t] \in Nat
  BY <1>2 DEF ThreadsOK
<1> QED  BY <1>1, <1>4, <1>5, <1>6, <1>7 DEF Vec, Shared

\* What keeps the account of ended clocks.
LEMMA EndedFollows ==
  ASSUME Inv, Inv', Grows, NEW t \in Threads, NEW r \in Rows, NEW f \in [Int -> Nat], Ended(t, r, f),
         bgClock'[ServerOf[r]].vec[ClientOf[t]] <= clock'[t],
         MadeBefore(t, r, bgClock[ServerOf[r]].vec[ClientOf[t]])' <= table'[ServerOf[r]][r][t],
         version'[ClientOf[t]] = version[ClientOf[t]],
         OpLogsOf(bgToServer'[ClientOf[t]][ServerOf[r]]) \subseteq OpLogsOf(bgToServer[ClientOf[t]][ServerOf[r]]),
         r \notin oplogIndex'[ClientOf[t]] => MadeBefore(t, r, clock[t])' <= f[version[ClientOf[t]] - 1]
  PROVE  Ended(t, r, f)'
<1>0. TypeOK /\ TypeOK' /\ HistoryOK
  BY DEF Inv
<1>1. PICK c \in Clients : ClientOf[t] = c
  BY PlacesOf
<1>2. ASSUME NEW m \in OpLogsOf(bgToServer[c][ServerOf[r]]), m.isClock
      PROVE  m.bgClock <= clock'[t] /\ MadeBefore(t, r, m.bgClock)' <= f[m.version]
  <2>1. PICK k \in Nat : k = m.bgClock
    BY <1>0, <1>1, NumbersOfOpLogs
  <2>2. k <= clock[t] /\ MadeBefore(t, r, k) <= f[m.version]
    BY <1>1, <1>2, <2>1 DEF Ended
  <2>3. k <= clock'[t] /\ MadeBefore(t, r, k)' = MadeBefore(t, r, k)
    BY <1>0, <2>2, PastStays
  <2>4. MadeBefore(t, r, m.bgClock)' = MadeBefore(t, r, k)'
    BY <2>1
  <2> QED  BY <2>1, <2>2, <2>3, <2>4
<1> QED  BY <1>1, <1>2 DEF Ended

\* The same, for a server whose clock does not move.
LEMMA EndedStays ==
  ASSUME Inv, Inv', Grows, NEW t \in Threads, NEW r \in Rows, NEW f \in [Int -> Nat], Ended(t, r, f),
         table'[ServerOf[r]][r][t] >= table[ServerOf[r]][r][t],
         bgClock'[ServerOf[r]].vec[ClientOf[t]] = bgClock[ServerOf[r]].vec[ClientOf[t]],
         version'[ClientOf[t]] = version[ClientOf[t]],
         OpLogsOf(bgToServer'[ClientOf[t]][ServerOf[r]]) \subseteq OpLogsOf(bgToServer[ClientOf[t]][ServerOf[r]]),
         r \notin oplogIndex'[ClientOf[t]] => MadeBefore(t, r, clock[t])' <= f[version[ClientOf[t]] - 1]
  PROVE  Ended(t, r, f)'
<1>0. TypeOK /\ TypeOK' /\ HistoryOK
  BY DEF Inv
<1>1. PICK c \in Clients : ClientOf[t] = c
  BY PlacesOf
<1>2. PICK n \in Nat, l \in Nat : n = table[ServerOf[r]][r][t] /\ l = table'[ServerOf[r]][r][t]
  BY <1>0, NumbersOf, NumbersNext
<1>3. PICK k \in Nat : k = bgClock[ServerOf[r]].vec[c]
  BY <1>0, <1>1, NumbersOf
<1>4. k <= clock[t] /\ MadeBefore(t, r, k) <= n
  BY <1>1, <1>2, <1>3 DEF Ended
<1>5. k <= clock'[t] /\ MadeBefore(t, r, k)' = MadeBefore(t, r, k) /\ MadeBefore(t, r, k) \in Nat
  BY <1>0, <1>4, PastStays
<1>6. MadeBefore(t, r, bgClock[ServerOf[r]].vec[ClientOf[t]])' = MadeBefore(t, r, k)'
  BY <1>1, <1>3
<1>7. /\ bgClock'[ServerOf[r]].vec[c] <= clock'[t]
      /\ MadeBefore(t, r, bgClock[ServerOf[r]].vec[ClientOf[t]])' <= table'[ServerOf[r]][r][t]
  BY <1>1, <1>2, <1>3, <1>4, <1>5, <1>6
<1> QED  BY <1>1, <1>7, EndedFollows

\* A fair reply stays fair.
LEMMA FairReplyStays ==
  ASSUME Inv, Inv', Grows, NEW t \in Threads, NEW r \in Rows,
         NEW f \in [Int -> Nat], NEW g \in [Int -> Nat], NEW d \in Clients,
         NEW m \in RowReplies(ServerOf[r]), FairReply(t, r, f, d, m),
         table'[ServerOf[r]][r][t] >= table[ServerOf[r]][r][t],
         bgVersion'[ServerOf[r]][d] >= bgVersion[ServerOf[r]][d],
         d = ClientOf[t] => g[m.version] = f[m.version]
  PROVE  FairReply(t, r, g, d, m)'
<1>0. TypeOK /\ TypeOK' /\ HistoryOK
  BY DEF Inv
<1>1. PICK k \in Nat : k = m.clock
  BY DEF RowReplies
<1>2. m.data[t] \in Nat /\ m.version \in Int
  BY DEF RowReplies, Vec
<1>3. k <= clock[t] /\ MadeBefore(t, r, k) <= m.data[t]
  BY <1>1 DEF FairReply
<1>4. k <= clock'[t] /\ MadeBefore(t, r, k)' = MadeBefore(t, r, k)
  BY <1>0, <1>3, PastStays
<1>5. MadeBefore(t, r, m.clock)' = MadeBefore(t, r, k)'
  BY <1>1
<1>6. CASE d = ClientOf[t]
  <2>1. m.version <= bgVersion[ServerOf[r]][d] /\ m.data[t] = f[m.version]
    BY <1>6 DEF FairReply
  <2>2. bgVersion[ServerOf[r]][d] \in Int /\ bgVersion'[ServerOf[r]][d] \in Int
    BY <1>0, NumbersOf, NumbersNext
  <2> QED  BY <1>1, <1>2, <1>3, <1>4, <1>5, <1>6, <2>1, <2>2 DEF FairReply
<1>7. CASE d # ClientOf[t]
  <2>1. m.data[t] <= table[ServerOf[r]][r][t]
    BY <1>7 DEF FairReply
  <2>2. table[ServerOf[r]][r][t] \in Nat
    BY <1>0, NumbersOf
  <2>4. table'[ServerOf[r]][r][t] \in Nat
    BY <1>0, NumbersNext
  <2> QED  BY <1>1, <1>2, <1>3, <1>4, <1>5, <1>7, <2>1, <2>2, <2>4 DEF FairReply
<1> QED  BY <1>6, <1>7

\* The replies that wait, and those that a step adds.
LEMMA RepliedStays ==
  ASSUME Inv, Inv', Grows, NEW t \in Threads, NEW r \in Rows,
         NEW f \in [Int -> Nat], NEW g \in [Int -> Nat], Replied(t, r, f),
         table'[ServerOf[r]][r][t] >= table[ServerOf[r]][r][t],
         \A d \in Clients : bgVersion'[ServerOf[r]][d] >= bgVersion[ServerOf[r]][d],
         \A v \in Int : v <= bgVersion[ServerOf[r]][ClientOf[t]] => g[v] = f[v],
         \A d \in Clients : \A m \in ToSet(serverToBg'[ServerOf[r]][d]) :
           m.row = r => m \in ToSet(serverToBg[ServerOf[r]][d]) \/ FairReply(t, r, g, d, m)'
  PROVE  Replied(t, r, g)'
<1>0. TypeOK /\ ServerOf[r] \in Servers
  BY PlacesOf DEF Inv
<1> SUFFICES ASSUME NEW d \in Clients, NEW m \in ToSet(serverToBg'[ServerOf[r]][d]), m.row = r
             PROVE  FairReply(t, r, g, d, m)'
  BY DEF Replied
<1>1. CASE m \in ToSet(serverToBg[ServerOf[r]][d])
  <2>1. m \in RowReplies(ServerOf[r]) /\ m.version \in Int
    BY <1>0, <1>1, NumbersOfReplies
  <2>2. FairReply(t, r, f, d, m)
    BY <1>1 DEF Replied
  <2>3. d = ClientOf[t] => m.version <= bgVersion[ServerOf[r]][ClientOf[t]]
    BY <2>2 DEF FairReply
  <2> QED  BY <2>1, <2>2, <2>3, FairReplyStays
<1> QED  BY <1>1

\* A fair row stays fair while its process shares updates.
LEMMA FairRowStays ==
  ASSUME Inv, Inv', Grows, NEW t \in Threads, NEW r \in Rows, NEW d \in Clients,
         NEW k \in Nat, NEW n \in Nat, NEW l \in Nat, FairRow(t, r, d, k, n), n <= l,
         table'[ServerOf[r]][r][t] >= table[ServerOf[r]][r][t],
         IF d = ClientOf[t] THEN l - n = Shared(t, r)' - Shared(t, r) ELSE l = n
  PROVE  FairRow(t, r, d, k, l)'
<1>0. TypeOK /\ TypeOK' /\ HistoryOK /\ HistoryOK'
  BY DEF Inv
<1>3. k <= clock[t] /\ MadeBefore(t, r, k) <= n
  BY DEF FairRow
<1>4. k <= clock'[t] /\ MadeBefore(t, r, k)' = MadeBefore(t, r, k) /\ MadeBefore(t, r, k) \in Nat
  BY <1>0, <1>3, PastStays
<1>6. CASE d = ClientOf[t]
  <2>1. n = Shared(t, r) /\ l - n = Shared(t, r)' - Shared(t, r)
    BY <1>6 DEF FairRow
  <2>2. Shared(t, r)' \in Int
    BY <1>0 DEF TypeOK, ThreadsOK, Shared
  <2> QED  BY <1>3, <1>4, <1>6, <2>1, <2>2 DEF FairRow
<1>7. CASE d # ClientOf[t]
  <2>1. n <= table[ServerOf[r]][r][t]
    BY <1>7 DEF FairRow
  <2>2. table[ServerOf[r]][r][t] \in Nat
    BY <1>0, NumbersOf
  <2>4. table'[ServerOf[r]][r][t] \in Nat
    BY <1>0, NumbersNext
  <2> QED  BY <1>3, <1>4, <1>7, <2>1, <2>2, <2>4 DEF FairRow
<1> QED  BY <1>6, <1>7

\* The rows that stay in the caches get what is shared, and the step answers
\* for the others.
LEMMA CachedStays ==
  ASSUME Inv, Inv', Grows, NEW t \in Threads, NEW r \in Rows, Cached(t, r),
         table'[ServerOf[r]][r][t] >= table[ServerOf[r]][r][t],
         \A d \in Clients : cache'[d][r].clock >= 0 =>
           \/ /\ cache'[d][r].clock = cache[d][r].clock
              /\ cache'[d][r].data[t] = cache[d][r].data[t] + (IF d = ClientOf[t] THEN Shared(t, r)' - Shared(t, r) ELSE 0)
           \/ FairRow(t, r, d, cache[d][r].clock, cache[d][r].data[t])'
  PROVE  Cached(t, r)'
<1>0. TypeOK /\ TypeOK'
  BY DEF Inv
<1> SUFFICES ASSUME NEW d \in Clients, cache'[d][r].clock >= 0
             PROVE  FairRow(t, r, d, cache[d][r].clock, cache[d][r].data[t])'
  BY DEF Cached
<1>1. CASE /\ cache'[d][r].clock = cache[d][r].clock
           /\ cache'[d][r].data[t] = cache[d][r].data[t] + (IF d = ClientOf[t] THEN Shared(t, r)' - Shared(t, r) ELSE 0)
  <2>1. cache'[d][r] \in [clock : Nat \cup {-1}, data : Vec]
    BY <1>0 DEF TypeOK, ClientsOK
  <2>2. PICK k \in Nat : k = cache'[d][r].clock
    BY <2>1
  <2>3. PICK l \in Nat : l = cache'[d][r].data[t]
    BY <2>1 DEF Vec
  <2>4. PICK n \in Nat : n = cache[d][r].data[t]
    BY <1>0, NumbersOf
  <2>5. FairRow(t, r, d, k, n)
    BY <1>1, <2>2, <2>4 DEF Cached
  <2>6. Shared(t, r)' >= Shared(t, r) /\ Shared(t, r) \in Int /\ Shared(t, r)' \in Int
    BY <1>0 DEF Grows, TypeOK, ThreadsOK, Shared
  <2>7. n <= l /\ IF d = ClientOf[t] THEN l - n = Shared(t, r)' - Shared(t, r) ELSE l = n
    BY <1>1, <2>3, <2>4, <2>6
  <2>8. FairRow(t, r, d, k, l)'
    BY <2>5, <2>7, FairRowStays
  <2> QED  BY <2>2, <2>3, <2>8
<1> QED  BY <1>1

\* A step that shares n updates of thread t to row r, and otherwise leaves them
\* where they are.
Quiet(t, r, n) ==
  LET s == ServerOf[r]
  IN  /\ UNCHANGED <<table, bgVersion, bgClock, version>>
      /\ Shared(t, r)' = Shared(t, r) + n
      /\ \A d \in Clients :
           /\ oplog'[d][r][t] = oplog[d][r][t] + (IF d = ClientOf[t] THEN n ELSE 0)
           /\ OpLogsOf(bgToServer'[d][s]) \subseteq OpLogsOf(bgToServer[d][s])
           /\ KeepsOpLogs(mgr[d], mgr'[d])
           /\ ToSet(serverToBg'[s][d]) \subseteq ToSet(serverToBg[s][d])
           /\ cache'[d][r].clock >= 0 =>
                /\ cache'[d][r].clock = cache[d][r].clock
                /\ cache'[d][r].data[t] = cache[d][r].data[t] + (IF d = ClientOf[t] THEN n ELSE 0)

\* A quiet step keeps the account.
LEMMA QuietKeeps ==
  ASSUME Inv, Inv', Grows, NEW t \in Threads, NEW r \in Rows, NEW f \in [Int -> Nat],
         Account(t, r, f), NEW n \in Nat, Quiet(t, r, n),
         r \notin oplogIndex'[ClientOf[t]] => MadeBefore(t, r, clock[t])' <= f[version[ClientOf[t]] - 1]
  PROVE  Account(t, r, f)'
<1>0. TypeOK /\ TypeOK'
  BY DEF Inv
<1>1. PICK c \in Clients, s \in Servers : ClientOf[t] = c /\ ServerOf[r] = s
  BY PlacesOf
<1>2. Sent(t, r, f) /\ Elsewhere(t, r) /\ Ended(t, r, f) /\ Replied(t, r, f) /\ Cached(t, r)
  BY DEF Account
<1>3. Shared(t, r) = f[version[c] - 1] + oplog[c][r][t]
  BY <1>1, <1>2 DEF Sent
<1>4. oplog[c][r][t] \in Nat /\ Shared(t, r) \in Nat /\ version[c] \in Nat
  <2>1. oplog[c][r][t] \in Nat /\ version[c] \in Nat
    BY <1>0, NumbersOf
  <2>2. Shared(t, r) \in Nat
    BY HistoryTypes DEF Inv, TypeOK
  <2> QED  BY <2>1, <2>2
<1>5. /\ table'[s] = table[s] /\ bgVersion'[s] = bgVersion[s] /\ bgClock'[s] = bgClock[s]
      /\ version' = version
  BY DEF Quiet
<1>6. Sent(t, r, f)'
  <2>1. f[version[c] - 1] \in Nat
    BY <1>4
  <2>2. oplog'[c][r][t] = oplog[c][r][t] + n /\ Shared(t, r)' = Shared(t, r) + n
    BY <1>1 DEF Quiet
  <2>3. Shared(t, r)' = f[version[c] - 1] + oplog'[c][r][t]
    BY <1>3, <1>4, <2>1, <2>2
  <2>4. /\ OpLogsOf(bgToServer'[c][s]) \subseteq OpLogsOf(bgToServer[c][s])
        /\ KeepsOpLogs(mgr[c], mgr'[c])
    BY <1>1 DEF Quiet
  <2> QED  BY <1>1, <1>2, <1>5, <2>3, <2>4, SentStays
<1>7. Elsewhere(t, r)'
  <2>1. \A d \in Clients : d # ClientOf[t] =>
          /\ oplog'[d][r][t] = oplog[d][r][t]
          /\ OpLogsOf(bgToServer'[d][ServerOf[r]]) \subseteq OpLogsOf(bgToServer[d][ServerOf[r]])
          /\ KeepsOpLogs(mgr[d], mgr'[d])
    <3> SUFFICES ASSUME NEW d \in Clients, d # ClientOf[t]
                 PROVE  oplog'[d][r][t] = oplog[d][r][t]
      BY DEF Quiet
    <3>1. oplog[d][r][t] \in Nat
      BY <1>0, NumbersOf
    <3> QED  BY <3>1 DEF Quiet
  <2> QED  BY <1>2, <2>1, ElsewhereStays
<1>8. table'[s][r][t] >= table[s][r][t] /\ \A d \in Clients : bgVersion'[s][d] >= bgVersion[s][d]
  <2>1. table[s][r][t] \in Nat /\ \A d \in Clients : bgVersion[s][d] \in Int
    BY <1>0, <1>1, NumbersOf
  <2> QED  BY <1>5, <2>1
<1>9. Ended(t, r, f)'
  <2>1. OpLogsOf(bgToServer'[c][s]) \subseteq OpLogsOf(bgToServer[c][s])
    BY <1>1 DEF Quiet
  <2> QED  BY <1>1, <1>2, <1>5, <1>8, <2>1, EndedStays
<1>10. Replied(t, r, f)'
  <2>1. \A d \in Clients : ToSet(serverToBg'[s][d]) \subseteq ToSet(serverToBg[s][d])
    BY <1>1 DEF Quiet
  <2> QED  BY <1>1, <1>2, <1>8, <2>1, RepliedStays
<1>11. Cached(t, r)'
  <2>1. Shared(t, r)' - Shared(t, r) = n
    BY <1>4 DEF Quiet
  <2>2. \A d \in Clients : cache'[d][r].clock >= 0 =>
          /\ cache'[d][r].clock = cache[d][r].clock
          /\ cache'[d][r].data[t] = cache[d][r].data[t] + (IF d = ClientOf[t] THEN Shared(t, r)' - Shared(t, r) ELSE 0)
    BY <2>1 DEF Quiet
  <2> QED  BY <1>1, <1>2, <1>8, <2>2, CachedStays
<1> QED  BY <1>6, <1>7, <1>9, <1>10, <1>11 DEF Account

\* A thread whose clock and whose index no step touches.
LEMMA IndexStays ==
  ASSUME Inv, Grows, NEW t \in Threads, NEW r \in Rows, NEW f \in [Int -> Nat], Ended(t, r, f),
         clock'[t] = clock[t], oplogIndex'[ClientOf[t]] = oplogIndex[ClientOf[t]]
  PROVE  r \notin oplogIndex'[ClientOf[t]] => MadeBefore(t, r, clock[t])' <= f[version[ClientOf[t]] - 1]
<1>1. PICK k \in Nat : k = clock[t]
  BY DEF Inv, TypeOK, ThreadsOK
<1>2. k \in 0 .. clock[t]
  BY <1>1
<1>3. MadeBefore(t, r, k)' = MadeBefore(t, r, k)
  BY <1>2 DEF Grows
<1>4. MadeBefore(t, r, clock[t])' = MadeBefore(t, r, k)'
  BY <1>1
<1> QED  BY <1>1, <1>3, <1>4 DEF Ended

\* Oplogs that do not change are kept.
LEMMA KeepsSame ==
  ASSUME NEW m, NEW n, n.oplogs = m.oplogs
  PROVE  KeepsOpLogs(m, n)
BY DEF KeepsOpLogs

\* A step that touches no oplog, message, reply or cache.
LEMMA NothingShared ==
  ASSUME TypeOK, NEW t \in Threads, NEW r \in Rows, Shared(t, r)' = Shared(t, r),
         UNCHANGED <<table, bgVersion, bgClock, version, oplog, cache, mgr, bgToServer, serverToBg>>
  PROVE  Quiet(t, r, 0)
<1>1. \A d \in Clients : oplog[d][r][t] \in Nat /\ cache[d][r].data[t] \in Nat /\ cache[d][r].clock \in Int
  BY NumbersOf
<1>2. Shared(t, r) \in Int
  BY DEF TypeOK, ThreadsOK, Shared
<1> QED  BY <1>1, <1>2, KeepsSame DEF Quiet

\* A step that shares updates with the process.
LEMMA SomethingShared ==
  ASSUME TypeOK, NEW u \in Threads, NEW x \in Rows, NEW l \in Nat, ShareUpdates(u, x, l),
         UNCHANGED <<table, bgVersion, bgClock, version, mgr, bgToServer, serverToBg>>,
         NEW t \in Threads, NEW r \in Rows, NEW n \in Nat, n = IF t = u /\ r = x THEN l ELSE 0,
         Shared(t, r)' = Shared(t, r) + n
  PROVE  Quiet(t, r, n)
<1>1. PICK c \in Clients : ClientOf[u] = c
  BY PlacesOf
<1>2. ASSUME NEW d \in Clients
      PROVE  oplog'[d][r][t] = oplog[d][r][t] + (IF d = ClientOf[t] THEN n ELSE 0)
  <2>1. oplog' = [oplog EXCEPT ![c][x][u] = @ + l]
    BY <1>1 DEF ShareUpdates
  <2>2. oplog \in [Clients -> [Rows -> [Threads -> Nat]]]
    BY DEF TypeOK, ClientsOK, Updates, Vec
  <2>3. oplog[d][r][t] \in Nat
    BY <2>2
  <2>4. CASE t = u /\ r = x /\ d = c
    BY <1>1, <2>1, <2>2, <2>4
  <2>5. CASE ~(t = u /\ r = x /\ d = c)
    <3>1. oplog'[d][r][t] = oplog[d][r][t]
      BY <2>1, <2>2, <2>5
    <3>2. d = ClientOf[t] => n = 0
      BY <1>1, <2>5
    <3> QED  BY <2>3, <3>1, <3>2
  <2> QED  BY <2>4, <2>5
<1>3. ASSUME NEW d \in Clients, cache'[d][r].clock >= 0
      PROVE  /\ cache'[d][r].clock = cache[d][r].clock
             /\ cache'[d][r].data[t] = cache[d][r].data[t] + (IF d = ClientOf[t] THEN n ELSE 0)
  <2>1. cache' = IF x \in CachedRows(c) THEN [cache EXCEPT ![c][x].data[u] = @ + l] ELSE cache
    BY <1>1 DEF ShareUpdates
  <2>2. cache \in [Clients -> [Rows -> [clock : Nat \cup {-1}, data : [Threads -> Nat]]]]
    BY DEF TypeOK, ClientsOK, Vec
  <2>3. cache[d][r].data[t] \in Nat /\ cache[d][r] \in [clock : Nat \cup {-1}, data : [Threads -> Nat]]
    BY <2>2
  <2>4. CASE t = u /\ r = x /\ d = c
    <3>1. cache'[c][x].clock = cache[c][x].clock
      BY <2>1, <2>2, <2>3
    <3>2. x \in CachedRows(c)
      BY <1>3, <2>4, <3>1 DEF CachedRows
    <3>3. cache' = [cache EXCEPT ![c][x].data[u] = @ + l]
      BY <2>1, <3>2
    <3>4. cache'[c][x].data[u] = cache[c][x].data[u] + l
      BY <2>2, <2>3, <2>4, <3>3
    <3> QED  BY <1>1, <2>4, <3>1, <3>4
  <2>5. CASE ~(t = u /\ r = x /\ d = c)
    <3>1. cache'[d][r].clock = cache[d][r].clock
      BY <2>1, <2>2, <2>3
    <3>2. cache'[d][r].data[t] = cache[d][r].data[t]
      BY <2>1, <2>2, <2>3, <2>5
    <3>3. d = ClientOf[t] => n = 0
      BY <1>1, <2>5
    <3> QED  BY <2>3, <3>1, <3>2, <3>3
  <2> QED  BY <2>4, <2>5
<1>4. \A d \in Clients : KeepsOpLogs(mgr[d], mgr'[d])
  BY KeepsSame
<1> QED  BY <1>2, <1>3, <1>4 DEF Quiet

\* What a thread ends its clock with is shared, and indexed unless it is all
\* of an earlier clock and has been sent.
LEMMA IndexOfClock ==
  ASSUME Inv, Inv', NEW u \in Threads, Clock(u),
         NEW t \in Threads, NEW r \in Rows, NEW f \in [Int -> Nat], Ended(t, r, f), Grows
  PROVE  r \notin oplogIndex'[ClientOf[t]] => MadeBefore(t, r, clock[t])' <= f[version[ClientOf[t]] - 1]
<1> SUFFICES ASSUME r \notin oplogIndex'[ClientOf[t]]
             PROVE  MadeBefore(t, r, clock[t])' <= f[version[ClientOf[t]] - 1]
  OBVIOUS
<1>1. /\ clock' = [clock EXCEPT ![u] = @ + 1]
      /\ oplogIndex' = [oplogIndex EXCEPT ![ClientOf[u]] = @ \cup threadIndex[u]]
      /\ threadIndex' = [threadIndex EXCEPT ![u] = {}]
      /\ UNCHANGED <<made, threadOplog>>
  BY DEF Clock, AddIndex
<1>2. PICK c \in Clients : ClientOf[t] = c
  BY PlacesOf
<1>3. r \notin oplogIndex[c] /\ (t = u => r \notin threadIndex[t])
  BY <1>1, <1>2 DEF Inv, TypeOK, ClientsOK
<1>4. MadeBefore(t, r, clock[t]) <= f[version[c] - 1]
  BY <1>2, <1>3 DEF Ended
<1>5. PICK k \in Nat : k = clock[t]
  BY DEF Inv, TypeOK, ThreadsOK
<1>6. CASE t # u
  <2>1. clock'[t] = k
    BY <1>1, <1>5, <1>6 DEF Inv, TypeOK, ThreadsOK
  <2>2. k \in 0 .. clock[t]
    BY <1>5
  <2>3. MadeBefore(t, r, k)' = MadeBefore(t, r, k)
    BY <2>2 DEF Grows
  <2>4. MadeBefore(t, r, clock[t])' = MadeBefore(t, r, k)'
    BY <2>1
  <2> QED  BY <1>2, <1>4, <1>5, <2>3, <2>4
<1>7. CASE t = u
  <2>1. Shared(t, r) = MadeBefore(t, r, clock[t])
    BY <1>3, <1>7 DEF Inv, HistoryOK, HistoryOf
  <2>2. threadIndex'[t] = {}
    BY <1>1, <1>7 DEF Inv, TypeOK, ThreadsOK
  <2>3. Shared(t, r)' = MadeBefore(t, r, clock[t])'
    BY <2>2 DEF Inv, HistoryOK, HistoryOf
  <2>4. Shared(t, r)' = Shared(t, r)
    BY <1>1 DEF Shared
  <2> QED  BY <1>2, <1>4, <2>1, <2>3, <2>4
<1> QED  BY <1>6, <1>7

\* Threads keep the account.
LEMMA ThreadKeepsAccounts ==
  ASSUME Inv, Inv', Grows, NEW u \in Threads, ThreadNext(u),
         NEW t \in Threads, NEW r \in Rows, NEW f \in [Int -> Nat], Account(t, r, f)
  PROVE  Account(t, r, f)'
<1>0. /\ TypeOK /\ Ended(t, r, f) /\ Shared(t, r) \in Nat
      /\ made \in [Threads -> [Rows -> Nat]] /\ threadOplog \in [Threads -> [Rows -> Nat]]
  <2>1. TypeOK /\ ThreadsOK /\ HistoryOK
    BY DEF Inv, TypeOK
  <2>2. Shared(t, r) \in Nat
    BY <2>1, HistoryTypes
  <2> QED  BY <2>1, <2>2 DEF Account, ThreadsOK
<1>1. ASSUME NEW x \in Rows, Inc(u, x) PROVE Account(t, r, f)'
  <2> DEFINE n == IF t = u /\ r = x THEN 1 ELSE 0
  <2>1. /\ ShareUpdates(u, x, 1) /\ made' = [made EXCEPT ![u][x] = @ + 1]
        /\ UNCHANGED <<table, bgVersion, bgClock, version, mgr, bgToServer, serverToBg, clock,
                       oplogIndex, threadOplog>>
    BY <1>1 DEF Inc, bgVars, serverVars, channelVars
  <2>2. Shared(t, r)' = Shared(t, r) + n
    <3>1. made'[t][r] = made[t][r] + n /\ made[t][r] \in Nat /\ threadOplog[t][r] \in Nat
      BY <1>0, <2>1
    <3> QED  BY <2>1, <3>1 DEF Shared
  <2>3. n \in Nat
    OBVIOUS
  <2> HIDE DEF n
  <2>4. Quiet(t, r, n)
    <3>1. n = IF t = u /\ r = x THEN 1 ELSE 0
      BY DEF n
    <3> QED  BY <1>0, <2>1, <2>2, <2>3, <3>1, SomethingShared
  <2> QED  BY <1>0, <2>1, <2>3, <2>4, IndexStays, QuietKeeps
<1>2. ASSUME NEW x \in Rows, FlushRow(u, x) PROVE Account(t, r, f)'
  <2> DEFINE l == threadOplog[u][x]
             n == IF t = u /\ r = x THEN l ELSE 0
  <2>1. /\ ShareUpdates(u, x, l) /\ threadOplog' = [threadOplog EXCEPT ![u][x] = 0]
        /\ UNCHANGED <<table, bgVersion, bgClock, version, mgr, bgToServer, serverToBg, clock,
                       oplogIndex, made>>
    BY <1>2 DEF FlushRow, bgVars, serverVars, channelVars, ghostVars
  <2>2. Shared(t, r)' = Shared(t, r) + n
    <3>1. /\ threadOplog'[t][r] = threadOplog[t][r] - n
          /\ made[t][r] \in Nat /\ threadOplog[t][r] \in Nat
      BY <1>0, <2>1
    <3>2. l \in Nat
      BY <1>0
    <3> QED  BY <2>1, <3>1, <3>2 DEF Shared
  <2>3. l \in Nat /\ n \in Nat
    BY <1>0
  <2> HIDE DEF n, l
  <2>4. Quiet(t, r, n)
    <3>1. n = IF t = u /\ r = x THEN l ELSE 0
      BY DEF n
    <3> QED  BY <1>0, <2>1, <2>2, <2>3, <3>1, SomethingShared
  <2> QED  BY <1>0, <2>1, <2>3, <2>4, IndexStays, QuietKeeps
<1>3. ASSUME NEW x \in Rows, ThreadInc(u, x) PROVE Account(t, r, f)'
  <2>1. /\ made' = [made EXCEPT ![u][x] = @ + 1] /\ threadOplog' = [threadOplog EXCEPT ![u][x] = @ + 1]
        /\ UNCHANGED <<table, bgVersion, bgClock, version, oplog, cache, mgr, bgToServer, serverToBg,
                       clock, oplogIndex>>
    BY <1>3 DEF ThreadInc, clientVars, bgVars, serverVars, channelVars
  <2>2. Shared(t, r)' = Shared(t, r)
    BY <1>0, <2>1 DEF Shared
  <2> QED  BY <1>0, <2>1, <2>2, NothingShared, IndexStays, QuietKeeps
<1>4. CASE Clock(u)
  <2>1. UNCHANGED <<table, bgVersion, bgClock, version, oplog, cache, mgr, bgToServer, serverToBg,
                    made, threadOplog>>
    BY <1>4 DEF Clock, bgVars, serverVars, channelVars
  <2>2. Shared(t, r)' = Shared(t, r)
    BY <2>1 DEF Shared
  <2> QED  BY <1>0, <1>4, <2>1, <2>2, NothingShared, IndexOfClock, QuietKeeps
<1>5. CASE UNCHANGED <<table, bgVersion, bgClock, version, oplog, cache, mgr, bgToServer, serverToBg,
                       made, threadOplog, clock, oplogIndex>>
  <2>1. Shared(t, r)' = Shared(t, r)
    BY <1>5 DEF Shared
  <2> QED  BY <1>0, <1>5, <2>1, NothingShared, IndexStays, QuietKeeps
<1>6. CASE \E x \in Rows, b \in BOOLEAN : GetCached(u, x) \/ ThreadGetCached(u, x) \/ RequestAndWait(u, x, b)
  BY <1>5, <1>6 DEF GetCached, ThreadGetCached, RequestAndWait, threadVars, tableVars, clientVars,
                    bgVars, serverVars, channelVars, ghostVars
<1>7. CASE GetReturn(u) \/ ThreadGetReturn(u) \/ GetAgain(u) \/ GetAbort(u)
  BY <1>5, <1>7 DEF GetReturn, ThreadGetReturn, GetAgain, GetAbort, threadVars, tableVars, clientVars,
                    bgVars, serverVars, channelVars, ghostVars
<1>8. CASE FlushThreadCache(u) \/ TickThread(u) \/ TellBg(u)
  BY <1>5, <1>8 DEF FlushThreadCache, TickThread, TellBg, tableVars, clientVars,
                    bgVars, serverVars, channelVars, ghostVars
<1> QED  BY <1>1, <1>2, <1>3, <1>4, <1>6, <1>7, <1>8 DEF ThreadNext, GetRequest, ThreadGetRequest

-----------------------------------------------------------------------------
(* Steps of background workers.                                            *)

\* A channel to a server is a sequence.
LEMMA QueueToServer ==
  ASSUME TypeOK, NEW c \in Clients, NEW s \in Servers
  PROVE  IsSeq(bgToServer[c][s])
<1>1. bgToServer[c][s] \in Seq(ToServer(s))
  BY DEF TypeOK, ServersOK
<1> QED  BY <1>1, SeqParts

\* The versions and the clocks that are on their way.
LEMMA VersionsOfOpLogs ==
  ASSUME TypeOK, IInv, NEW c \in Clients, NEW s \in Servers
  PROVE  /\ bgVersion[s][c] <= version[c] - 1 /\ bgVersion[s][c] \in Int /\ version[c] \in Nat
         /\ \A m \in OpLogsOf(bgToServer[c][s]) :
              /\ m.version \in Int /\ bgVersion[s][c] < m.version /\ m.version < version[c]
<1> DEFINE q == bgToServer[c][s]
           num == Versions(q)
<1>1. Consecutive(num, bgVersion[s][c], version[c] - 1)
  BY DEF IInv, MessagesInSequence
<1>2. bgVersion[s][c] \in Int /\ version[c] \in Nat
  BY DEF TypeOK, ServersOK, ClientsOK
<1>3. ASSUME NEW m \in OpLogsOf(q) PROVE m.version \in bgVersion[s][c] + 1 .. version[c] - 1
  <2>1. PICK i \in DOMAIN q : m = q[i] /\ q[i].type = "OpLog"
    BY DEF OpLogsOf, ToSet
  <2>2. i \in DOMAIN num /\ num[i] = m.version
    BY <2>1 DEF Versions
  <2> HIDE DEF num
  <2> QED  BY <1>1, <2>2 DEF Consecutive
<1>4. bgVersion[s][c] <= version[c] - 1
  BY <1>1 DEF Consecutive
<1> QED  BY <1>2, <1>3, <1>4

\* A request joins a channel.
LEMMA RequestJoins ==
  ASSUME TypeOK, NEW c \in Clients, NEW s \in Servers, NEW m, m.type # "OpLog",
         \/ bgToServer' = bgToServer
         \/ bgToServer' = [bgToServer EXCEPT ![c][s] = Append(@, m)]
  PROVE  \A d \in Clients, z \in Servers : OpLogsOf(bgToServer'[d][z]) \subseteq OpLogsOf(bgToServer[d][z])
<1> SUFFICES ASSUME NEW d \in Clients, NEW z \in Servers, bgToServer'[d][z] # bgToServer[d][z]
             PROVE  OpLogsOf(bgToServer'[d][z]) \subseteq OpLogsOf(bgToServer[d][z])
  OBVIOUS
<1> DEFINE q == bgToServer[c][s]
<1>1. d = c /\ z = s /\ bgToServer'[d][z] = Append(q, m)
  BY DEF TypeOK, ServersOK
<1>2. IsSeq(q)
  BY QueueToServer
<1>3. OpLogsOf(Append(q, m)) = OpLogsOf(q)
  <2> HIDE DEF q
  <2> QED  BY <1>2, SetOfAppend
<1> QED  BY <1>1, <1>3

\* A step that may drop what workers and servers are done with.
LEMMA NothingMoved ==
  ASSUME TypeOK, NEW t \in Threads, NEW r \in Rows, Shared(t, r)' = Shared(t, r),
         UNCHANGED <<table, bgVersion, bgClock, version, oplog, cache, serverToBg>>,
         \A d \in Clients, z \in Servers : OpLogsOf(bgToServer'[d][z]) \subseteq OpLogsOf(bgToServer[d][z]),
         \A d \in Clients : KeepsOpLogs(mgr[d], mgr'[d])
  PROVE  Quiet(t, r, 0)
<1>1. \A d \in Clients : oplog[d][r][t] \in Nat /\ cache[d][r].data[t] \in Nat /\ cache[d][r].clock \in Int
  BY NumbersOf
<1>2. Shared(t, r) \in Int
  BY DEF TypeOK, ThreadsOK, Shared
<1>3. Shared(t, r)' = Shared(t, r) + 0
  BY <1>2
<1>4. ServerOf[r] \in Servers
  BY PlacesOf
<1>5. ASSUME NEW d \in Clients
      PROVE  /\ oplog'[d][r][t] = oplog[d][r][t] + (IF d = ClientOf[t] THEN 0 ELSE 0)
             /\ cache'[d][r].data[t] = cache[d][r].data[t] + (IF d = ClientOf[t] THEN 0 ELSE 0)
             /\ cache'[d][r].clock = cache[d][r].clock
  BY <1>1
<1> QED  BY <1>3, <1>4, <1>5 DEF Quiet

\* Forwarding a row request keeps the account.
LEMMA ForwardedKeepsAccounts ==
  ASSUME Inv, Inv', Grows, NEW c \in Clients, NEW u \in Threads, RowRequestForwarded(c, u),
         NEW t \in Threads, NEW r \in Rows, NEW f \in [Int -> Nat], Account(t, r, f)
  PROVE  Account(t, r, f)'
<1>0. TypeOK /\ Ended(t, r, f) /\ QueuesOK /\ ServerOf[r] \in Servers
  BY TypeParts, PlacesOf DEF Inv, Account
<1> DEFINE msg == Head(appToBg[u])
           s == ServerOf[msg.row]
<1>1. NextFromApp(c, u, "RowRequest")
  BY DEF RowRequestForwarded
<1>2. msg \in FromApp /\ msg.type = "RowRequest"
  BY <1>0, <1>1, NextFromAppTypes
<1>3. msg.row \in Rows /\ msg.clock \in Nat /\ s \in Servers
  BY <1>2, RowRequestFromApp, RowRequestToServer
<1>4. PICK b \in BOOLEAN :
        mgr' = [mgr EXCEPT ![c] = AddRowRequest(@, msg.row, u, msg.clock, version[c] - 1, b)]
  BY SettingsAssumption DEF RowRequestForwarded
<1>5. /\ UNCHANGED <<clock, oplogIndex, oplog, cache, version, made, threadOplog>>
      /\ UNCHANGED <<bgClock, bgVersion, table, serverToBg>>
      /\ \/ bgToServer' = bgToServer
         \/ bgToServer' = [bgToServer EXCEPT ![c][s] = Append(@, msg)]
  BY DEF RowRequestForwarded, threadVars, tableVars, clientVars, serverVars, ghostVars
<1> HIDE DEF msg, s
<1>6. \A d \in Clients : KeepsOpLogs(mgr[d], mgr'[d])
  <2>1. IsMgr(mgr[c]) /\ version[c] - 1 \in Int /\ DOMAIN mgr = Clients
    BY <1>0 DEF TypeOK, ClientsOK
  <2>2. mgr'[c].oplogs = mgr[c].oplogs
    <3> DEFINE n == AddRowRequest(mgr[c], msg.row, u, msg.clock, version[c] - 1, b)
               at == Behind(mgr[c], msg.row, msg.clock) + 1
               e == [thread |-> u, clock |-> msg.clock, version |-> version[c] - 1, sent |-> b]
    <3>1. Requested(mgr[c], n, msg.row, at, e)
      BY <1>3, <2>1, AddRowRequestFacts
    <3>2. mgr'[c] = n
      BY <1>4, <2>1
    <3> HIDE DEF n, at, e
    <3> QED  BY <3>1, <3>2 DEF Requested
  <2>3. \A d \in Clients \ {c} : mgr'[d] = mgr[d]
    BY <1>4, <2>1
  <2> QED  BY <2>2, <2>3, KeepsSame
<1>7. \A d \in Clients, z \in Servers : OpLogsOf(bgToServer'[d][z]) \subseteq OpLogsOf(bgToServer[d][z])
  <2>1. msg.type # "OpLog"
    BY <1>2
  <2> QED  BY <1>0, <1>3, <1>5, <2>1, RequestJoins
<1>8. Quiet(t, r, 0)
  <2>1. Shared(t, r)' = Shared(t, r)
    BY <1>5 DEF Shared
  <2> QED  BY <1>0, <1>5, <1>6, <1>7, <2>1, NothingMoved
<1>9. clock'[t] = clock[t] /\ oplogIndex'[ClientOf[t]] = oplogIndex[ClientOf[t]]
  BY <1>5
<1> QED  BY <1>0, <1>8, <1>9, IndexStays, QuietKeeps

\* What a worker sends.
LEMMA SentMessages ==
  ASSUME TypeOK, NEW c \in Clients, NEW isClock \in BOOLEAN, SendOpLogs(c, isClock),
         NEW s \in Servers
  PROVE  /\ OpLogsOf(bgToServer'[c][s]) = OpLogsOf(bgToServer[c][s]) \cup {OpLogMsg(c, s, isClock)}
         /\ \A d \in Clients \ {c} : bgToServer'[d][s] = bgToServer[d][s]
<1> DEFINE q == bgToServer[c][s]
           m == OpLogMsg(c, s, isClock)
<1>1. /\ bgToServer'[c][s] = Append(q, m)
      /\ \A d \in Clients \ {c} : bgToServer'[d][s] = bgToServer[d][s]
  BY DEF TypeOK, ServersOK, SendOpLogs, SendOpLogMsgs
<1>2. IsSeq(q)
  BY QueueToServer
<1>3. m.type = "OpLog"
  BY DEF OpLogMsg
<1> HIDE DEF q, m
<1>4. OpLogsOf(Append(q, m)) = OpLogsOf(q) \cup {m}
  BY <1>2, <1>3, SetOfAppend
<1> QED  BY <1>1, <1>4 DEF q, m

\* What a worker takes of a thread's updates to a row, and what it leaves.
LEMMA TakenPart ==
  ASSUME TypeOK, NEW c \in Clients, NEW isClock \in BOOLEAN, SendOpLogs(c, isClock),
         NEW t \in Threads, NEW r \in Rows
  PROVE  LET n == TakenOpLog(c)[r][t]
         IN  /\ n \in Nat /\ oplog'[c][r][t] \in Nat
             /\ oplog[c][r][t] = n + oplog'[c][r][t]
             /\ n = IF r \in oplogIndex[c] THEN oplog[c][r][t] ELSE 0
             /\ OpLogMsg(c, ServerOf[r], isClock).updates[r][t] = n
             /\ MayKeep(mgr[c], mgr'[c], version[c], TakenOpLog(c))
             /\ \A d \in Clients \ {c} : /\ mgr'[d] = mgr[d] /\ oplog'[d] = oplog[d]
                                         /\ version'[d] = version[d] /\ oplogIndex'[d] = oplogIndex[d]
             /\ version'[c] = version[c] + 1
<1>1. /\ oplog \in [Clients -> Updates] /\ oplogIndex \in [Clients -> SUBSET Rows]
      /\ version \in [Clients -> Nat] /\ DOMAIN mgr = Clients /\ IsMgr(mgr[c])
      /\ TakenOpLog(c) \in Updates
  BY TakenTypes DEF TypeOK, ClientsOK
<1>2. /\ oplog' = [oplog EXCEPT ![c] = LeftOpLog(c)]
      /\ oplogIndex' = [oplogIndex EXCEPT ![c] = {}]
      /\ version' = [version EXCEPT ![c] = @ + 1]
      /\ mgr' = [mgr EXCEPT ![c] = AddOpLog(@, version[c], TakenOpLog(c))]
  BY DEF SendOpLogs, SendOpLogMsgs, ResetIndex
<1>3. oplog[c][r][t] \in Nat
  BY NumbersOf
<1>4. /\ TakenOpLog(c)[r][t] = IF r \in oplogIndex[c] THEN oplog[c][r][t] ELSE 0
      /\ LeftOpLog(c)[r][t] = IF r \in oplogIndex[c] THEN 0 ELSE oplog[c][r][t]
  BY DEF TakenOpLog, LeftOpLog, Zero
<1>5. oplog'[c][r][t] = LeftOpLog(c)[r][t]
  BY <1>1, <1>2
<1>6. OpLogMsg(c, ServerOf[r], isClock).updates[r][t] = TakenOpLog(c)[r][t]
  BY PlacesOf DEF OpLogMsg
<1>7. MayKeep(mgr[c], mgr'[c], version[c], TakenOpLog(c))
  BY <1>1, <1>2, AddOpLogFacts
<1> QED  BY <1>1, <1>2, <1>3, <1>4, <1>5, <1>6, <1>7

\* The updates a worker sends, as the account of another process' thread.
LEMMA OthersSend ==
  ASSUME Inv, Inv', Grows, NEW c \in Clients, NEW isClock \in BOOLEAN, SendOpLogs(c, isClock),
         UNCHANGED <<threadVars, cache, serverVars, serverToBg, ghostVars>>,
         NEW t \in Threads, NEW r \in Rows, NEW f \in [Int -> Nat], Account(t, r, f), c # ClientOf[t]
  PROVE  Account(t, r, f)'
<1>0. TypeOK /\ TypeOK' /\ IInv
  BY DEF Inv
<1>1. PICK a \in Clients, s \in Servers : ClientOf[t] = a /\ ServerOf[r] = s
  BY PlacesOf
<1>2. Sent(t, r, f) /\ Elsewhere(t, r) /\ Ended(t, r, f) /\ Replied(t, r, f) /\ Cached(t, r)
  BY DEF Account
<1>3. UNCHANGED <<clock, made, threadOplog, cache, table, bgVersion, bgClock, serverToBg>>
  BY DEF threadVars, tableVars, serverVars, ghostVars
<1>4. Shared(t, r)' = Shared(t, r) /\ Shared(t, r) \in Nat
  BY <1>3, HistoryTypes DEF Shared, Inv, TypeOK
<1>5. /\ mgr'[a] = mgr[a] /\ oplog'[a] = oplog[a] /\ version'[a] = version[a]
      /\ oplogIndex'[a] = oplogIndex[a]
  BY <1>0, <1>1, TakenPart
<1>6. bgToServer'[a][s] = bgToServer[a][s]
  BY <1>0, <1>1, SentMessages
<1>7. KeepsOpLogs(mgr[a], mgr'[a])
  BY <1>5, KeepsSame
<1>8. Sent(t, r, f)'
  <2>1. Shared(t, r)' = f[version[a] - 1] + oplog'[a][r][t]
    BY <1>1, <1>2, <1>4, <1>5 DEF Sent
  <2> QED  BY <1>1, <1>2, <1>3, <1>5, <1>6, <1>7, <2>1, SentStays
<1>9. Elsewhere(t, r)'
  <2> SUFFICES ASSUME NEW d \in Clients, d # a
               PROVE  /\ oplog'[d][r][t] = 0
                      /\ \A m \in OpLogsOf(bgToServer'[d][s]) : m.updates[r][t] = 0
                      /\ \A v \in DOMAIN mgr'[d].oplogs : mgr'[d].oplogs[v][r][t] = 0
    BY <1>1 DEF Elsewhere
  <2>1. /\ oplog[d][r][t] = 0
        /\ \A m \in OpLogsOf(bgToServer[d][s]) : m.updates[r][t] = 0
        /\ \A v \in DOMAIN mgr[d].oplogs : mgr[d].oplogs[v][r][t] = 0
    BY <1>1, <1>2 DEF Elsewhere
  <2>2. CASE d # c
    BY <1>0, <2>1, <2>2, SentMessages, TakenPart
  <2>3. CASE d = c
    <3>1. /\ TakenOpLog(c)[r][t] = 0 /\ oplog'[c][r][t] = 0
          /\ OpLogMsg(c, s, isClock).updates[r][t] = 0
          /\ MayKeep(mgr[c], mgr'[c], version[c], TakenOpLog(c))
      BY <1>0, <1>1, <2>1, <2>3, TakenPart
    <3>2. OpLogsOf(bgToServer'[c][s]) = OpLogsOf(bgToServer[c][s]) \cup {OpLogMsg(c, s, isClock)}
      BY <1>0, SentMessages
    <3>3. \A v \in DOMAIN mgr'[c].oplogs : mgr'[c].oplogs[v][r][t] = 0
      BY <2>1, <2>3, <3>1 DEF MayKeep
    <3> QED  BY <2>1, <2>3, <3>1, <3>2, <3>3
  <2> QED  BY <2>2, <2>3
<1>10. table'[s][r][t] >= table[s][r][t] /\ \A d \in Clients : bgVersion'[s][d] >= bgVersion[s][d]
  <2>1. table[s][r][t] \in Nat /\ \A d \in Clients : bgVersion[s][d] \in Int
    BY <1>0, <1>1, NumbersOf
  <2> QED  BY <1>3, <2>1
<1>11. Ended(t, r, f)'
  <2>1. r \notin oplogIndex'[a] => MadeBefore(t, r, clock[t])' <= f[version[a] - 1]
    BY <1>1, <1>2, <1>3, <1>5, IndexStays
  <2> QED  BY <1>1, <1>2, <1>3, <1>5, <1>6, <1>10, <2>1, EndedStays
<1>12. Replied(t, r, f)'
  BY <1>1, <1>2, <1>3, <1>10, RepliedStays
<1>13. Cached(t, r)'
  <2>1. \A d \in Clients : cache[d][r].data[t] \in Nat
    BY <1>0, NumbersOf
  <2>2. Shared(t, r)' - Shared(t, r) = 0
    BY <1>4
  <2>3. \A d \in Clients : cache'[d][r].clock >= 0 =>
          /\ cache'[d][r].clock = cache[d][r].clock
          /\ cache'[d][r].data[t] = cache[d][r].data[t] + (IF d = ClientOf[t] THEN Shared(t, r)' - Shared(t, r) ELSE 0)
    BY <1>3, <2>1, <2>2
  <2> QED  BY <1>1, <1>2, <1>10, <2>3, CachedStays
<1> QED  BY <1>8, <1>9, <1>11, <1>12, <1>13 DEF Account

\* The account of a thread of the worker's own process: the version takes n
\* of its updates.
Extended(f, last, n) == [v \in Int |-> IF v < last THEN f[v] ELSE f[last - 1] + n]

\* What it is, before and at the last version.
LEMMA ExtendedFacts ==
  ASSUME NEW f \in [Int -> Nat], NEW last \in Int, NEW n \in Nat, \A v, w \in Int : v <= w => f[v] <= f[w]
  PROVE  LET g == Extended(f, last, n)
         IN  /\ g \in [Int -> Nat]
             /\ \A v, w \in Int : v <= w => g[v] <= g[w]
             /\ \A v \in Int : v < last => g[v] = f[v] /\ g[v - 1] = f[v - 1]
             /\ g[last] = f[last - 1] + n /\ g[last - 1] = f[last - 1]
             /\ \A v \in Int : f[v] \in Nat
<1> DEFINE g == Extended(f, last, n)
<1>0. f[last - 1] \in Nat /\ \A v \in Int : f[v] \in Nat
  OBVIOUS
<1>1. g \in [Int -> Nat] /\ \A v \in Int : g[v] = IF v < last THEN f[v] ELSE f[last - 1] + n
  BY <1>0 DEF Extended
<1> HIDE DEF g
<1>2. ASSUME NEW v \in Int, NEW w \in Int, v <= w PROVE g[v] <= g[w]
  <2>1. CASE w < last
    BY <1>1, <1>2, <2>1
  <2>2. CASE ~(v < last)
    BY <1>0, <1>1, <1>2, <2>2
  <2>3. CASE v < last /\ ~(w < last)
    <3>1. f[v] <= f[last - 1]
      BY <2>3
    <3> QED  BY <1>0, <1>1, <2>3, <3>1
  <2> QED  BY <2>1, <2>2, <2>3
<1>3. \A v \in Int : v < last => g[v] = f[v] /\ g[v - 1] = f[v - 1]
  BY <1>1
<1>4. g[last] = f[last - 1] + n /\ g[last - 1] = f[last - 1]
  BY <1>1
<1> QED  BY <1>0, <1>1, <1>2, <1>3, <1>4 DEF g

\* HandleClockMsg of the thread's own worker opens a new entry of the account.
LEMMA OwnSend ==
  ASSUME Inv, Inv', Grows, NEW c \in Clients, NEW isClock \in BOOLEAN, SendOpLogs(c, isClock),
         UNCHANGED <<threadVars, cache, serverVars, serverToBg, ghostVars>>,
         NEW t \in Threads, NEW r \in Rows, NEW f \in [Int -> Nat], Account(t, r, f), c = ClientOf[t],
         isClock => clientClock[c] + 1 <= clock[t]
  PROVE  \E g \in [Int -> Nat] : Account(t, r, g)'
<1>0. TypeOK /\ TypeOK' /\ IInv /\ HistoryOK
  BY DEF Inv
<1>1. PICK s \in Servers : ServerOf[r] = s
  BY PlacesOf
<1>2. Sent(t, r, f) /\ Elsewhere(t, r) /\ Ended(t, r, f) /\ Replied(t, r, f) /\ Cached(t, r)
  BY DEF Account
<1>3. UNCHANGED <<clock, made, threadOplog, cache, table, bgVersion, bgClock, serverToBg, closed>>
  BY DEF threadVars, tableVars, serverVars, ghostVars
<1>4. Shared(t, r)' = Shared(t, r) /\ Shared(t, r) \in Nat
  BY <1>3, HistoryTypes DEF Shared, Inv, TypeOK
<1>5. PICK n \in Nat : n = TakenOpLog(c)[r][t]
  BY <1>0, TakenPart
<1>6. PICK last \in Nat : last = version[c]
  BY <1>0, NumbersOf
<1>7. /\ oplog'[c][r][t] \in Nat /\ oplog[c][r][t] = n + oplog'[c][r][t]
      /\ n = IF r \in oplogIndex[c] THEN oplog[c][r][t] ELSE 0
      /\ OpLogMsg(c, s, isClock).updates[r][t] = n
      /\ MayKeep(mgr[c], mgr'[c], last, TakenOpLog(c))
      /\ version'[c] = last + 1
  BY <1>0, <1>1, <1>5, <1>6, TakenPart
<1>8. PICK g \in [Int -> Nat] :
        /\ \A v, w \in Int : v <= w => g[v] <= g[w]
        /\ \A v \in Int : v < last => g[v] = f[v] /\ g[v - 1] = f[v - 1]
        /\ g[last] = f[last - 1] + n /\ g[last - 1] = f[last - 1]
        /\ \A v \in Int : f[v] \in Nat
  <2>1. \A v, w \in Int : v <= w => f[v] <= f[w]
    BY <1>2 DEF Sent
  <2> DEFINE x == Extended(f, last, n)
  <2>2. last \in Int
    OBVIOUS
  <2>3. /\ x \in [Int -> Nat]
        /\ \A v, w \in Int : v <= w => x[v] <= x[w]
        /\ \A v \in Int : v < last => x[v] = f[v] /\ x[v - 1] = f[v - 1]
        /\ x[last] = f[last - 1] + n /\ x[last - 1] = f[last - 1]
        /\ \A v \in Int : f[v] \in Nat
    BY <2>1, <2>2, ExtendedFacts
  <2> HIDE DEF x
  <2> QED  BY <2>3
<1>9. /\ OpLogsOf(bgToServer'[c][s]) = OpLogsOf(bgToServer[c][s]) \cup {OpLogMsg(c, s, isClock)}
      /\ \A d \in Clients \ {c} : bgToServer'[d][s] = bgToServer[d][s]
  BY <1>0, SentMessages
<1>10. /\ bgVersion[s][c] < last /\ bgVersion[s][c] \in Int
       /\ \A m \in OpLogsOf(bgToServer[c][s]) : m.version \in Int /\ m.version < last
  BY <1>0, <1>6, VersionsOfOpLogs
<1>20. PICK b \in Int : b = bgVersion[s][c] /\ b < last
  BY <1>10
<1>11. Shared(t, r) = g[last] + oplog'[c][r][t]
  <2>1. Shared(t, r) = f[last - 1] + oplog[c][r][t]
    BY <1>1, <1>2, <1>6 DEF Sent
  <2>2. PICK k \in Nat : k = f[last - 1]
    OBVIOUS
  <2>3. PICK l \in Nat : l = oplog'[c][r][t]
    BY <1>7
  <2>4. oplog[c][r][t] = n + l /\ g[last] = k + n
    BY <1>7, <1>8, <2>2, <2>3
  <2>5. Shared(t, r) = k + (n + l)
    BY <2>1, <2>2, <2>4
  <2> QED  BY <2>3, <2>4, <2>5
<1>12. Sent(t, r, g)'
  <2>1. table'[s][r][t] = g[bgVersion'[s][c]]
    <3>1. table[s][r][t] = f[b]
      BY <1>1, <1>2, <1>20 DEF Sent
    <3> QED  BY <1>3, <1>8, <1>20, <3>1
  <2>2. Shared(t, r)' = g[version'[c] - 1] + oplog'[c][r][t]
    <3>1. version'[c] - 1 = last
      BY <1>7
    <3> QED  BY <1>4, <1>11, <3>1
  <2>3. \A m \in OpLogsOf(bgToServer'[c][s]) : m.updates[r][t] = g[m.version] - g[m.version - 1]
    <3>1. ASSUME NEW m \in OpLogsOf(bgToServer[c][s])
          PROVE  m.updates[r][t] = g[m.version] - g[m.version - 1]
      <4>1. m.updates[r][t] = f[m.version] - f[m.version - 1]
        BY <1>1, <1>2 DEF Sent
      <4>2. PICK v \in Int : v = m.version /\ v < last
        BY <1>10
      <4> QED  BY <1>8, <4>1, <4>2
    <3>2. n = g[last] - g[last - 1]
      <4>1. f[last - 1] \in Nat
        OBVIOUS
      <4> QED  BY <1>8, <4>1
    <3>3. OpLogMsg(c, s, isClock).version = last
      BY <1>6 DEF OpLogMsg
    <3> QED  BY <1>7, <1>9, <3>1, <3>2, <3>3
  <2>4. \A v \in DOMAIN mgr'[c].oplogs : v < version'[c] /\ mgr'[c].oplogs[v][r][t] = g[v] - g[v - 1]
    <3> SUFFICES ASSUME NEW v \in DOMAIN mgr'[c].oplogs
                 PROVE  v < version'[c] /\ mgr'[c].oplogs[v][r][t] = g[v] - g[v - 1]
      OBVIOUS
    <3>1. CASE v \in DOMAIN mgr[c].oplogs /\ mgr'[c].oplogs[v] = mgr[c].oplogs[v]
      <4>1. v < last /\ mgr[c].oplogs[v][r][t] = f[v] - f[v - 1]
        BY <1>2, <1>6, <3>1 DEF Sent
      <4>2. v \in Int
        <5>1. IsMgr(mgr[c])
          BY <1>0 DEF TypeOK
        <5>2. DOMAIN mgr[c].oplogs \subseteq Nat
          BY <5>1 DEF IsMgr
        <5> QED  BY <3>1, <5>2
      <4> QED  BY <1>7, <1>8, <3>1, <4>1, <4>2
    <3>2. CASE v = last /\ mgr'[c].oplogs[v] = TakenOpLog(c)
      <4>1. f[last - 1] \in Nat
        OBVIOUS
      <4>2. n = g[last] - g[last - 1]
        BY <1>8, <4>1
      <4>3. mgr'[c].oplogs[v][r][t] = n
        BY <1>5, <3>2
      <4>4. last < version'[c]
        BY <1>7
      <4> QED  BY <3>2, <4>2, <4>3, <4>4
    <3> QED  BY <1>7, <3>1, <3>2 DEF MayKeep
  <2> QED  BY <1>1, <1>8, <2>1, <2>2, <2>3, <2>4 DEF Sent
<1>13. Elsewhere(t, r)'
  <2>1. \A d \in Clients : d # ClientOf[t] =>
          /\ oplog'[d][r][t] = oplog[d][r][t]
          /\ OpLogsOf(bgToServer'[d][ServerOf[r]]) \subseteq OpLogsOf(bgToServer[d][ServerOf[r]])
          /\ KeepsOpLogs(mgr[d], mgr'[d])
    <3> SUFFICES ASSUME NEW d \in Clients, d # c
                 PROVE  /\ oplog'[d] = oplog[d] /\ bgToServer'[d][s] = bgToServer[d][s]
                        /\ KeepsOpLogs(mgr[d], mgr'[d])
      BY <1>1
    <3>1. mgr'[d] = mgr[d] /\ oplog'[d] = oplog[d]
      BY <1>0, TakenPart
    <3> QED  BY <1>9, <3>1, KeepsSame
  <2> QED  BY <1>2, <2>1, ElsewhereStays
<1>14. Ended(t, r, g)'
  <2>1. PICK k \in Nat : k = clock[t]
    BY <1>0, NumbersOf
  <2>2. MadeBefore(t, r, k) <= g[last] /\ MadeBefore(t, r, k) \in Nat
    <3>1. MadeBefore(t, r, k) <= Shared(t, r) /\ MadeBefore(t, r, k) \in Nat
      <4>1. k \in 0 .. clock[t]
        BY <2>1
      <4>2. ThreadsOK
        BY <1>0 DEF TypeOK
      <4>3. MadeBefore(t, r, k) \in Nat
        BY <1>0, <4>1, <4>2, HistoryTypes
      <4>4. MadeBefore(t, r, clock[t]) <= Shared(t, r)
        BY <1>0 DEF HistoryOK, HistoryOf
      <4> QED  BY <2>1, <4>3, <4>4
    <3>2. CASE r \in oplogIndex[c]
      <4>1. oplog'[c][r][t] = 0
        <5>1. PICK l \in Nat : l = oplog'[c][r][t]
          BY <1>7
        <5>2. n = n + l
          BY <1>7, <3>2, <5>1
        <5>3. l = 0
          BY <5>2
        <5> QED  BY <5>1, <5>3
      <4> QED  BY <1>11, <3>1, <4>1
    <3>3. CASE r \notin oplogIndex[c]
      <4>1. MadeBefore(t, r, k) <= f[last - 1]
        BY <1>2, <1>6, <2>1, <3>3 DEF Ended
      <4>2. f[last - 1] \in Nat
        OBVIOUS
      <4> QED  BY <1>8, <3>1, <4>1, <4>2
    <3> QED  BY <3>2, <3>3
  <2>3. \A l \in Nat : l <= k => MadeBefore(t, r, l)' = MadeBefore(t, r, l) /\ l <= clock'[t]
    BY <1>0, <2>1, PastStays
  <2>4. \A l \in Nat : l <= k => MadeBefore(t, r, l) <= g[last]
    <3> SUFFICES ASSUME NEW l \in Nat, l <= k PROVE MadeBefore(t, r, l) <= g[last]
      OBVIOUS
    <3>1. l \in 0 .. clock[t] /\ k \in 0 .. clock[t]
      BY <2>1
    <3>2. MadeBefore(t, r, l) <= MadeBefore(t, r, k) /\ MadeBefore(t, r, l) \in Nat
      BY <1>0, <3>1, HistoryTypes DEF HistoryOK, HistoryOf, TypeOK
    <3> QED  BY <2>2, <3>2
  <2>5. MadeBefore(t, r, clock[t])' <= g[version'[c] - 1]
    <3>1. MadeBefore(t, r, clock[t])' = MadeBefore(t, r, k)'
      BY <1>3, <2>1
    <3>2. version'[c] - 1 = last
      BY <1>7
    <3> QED  BY <2>2, <2>3, <3>1, <3>2
  <2>6. ASSUME NEW m \in OpLogsOf(bgToServer'[c][s]), m.isClock
        PROVE  m.bgClock <= clock'[t] /\ MadeBefore(t, r, m.bgClock)' <= g[m.version]
    <3>1. CASE m \in OpLogsOf(bgToServer[c][s])
      <4>1. PICK l \in Nat : l = m.bgClock
        BY <1>0, <1>1, <3>1, NumbersOfOpLogs
      <4>2. l <= k /\ MadeBefore(t, r, l) <= f[m.version]
        BY <1>1, <1>2, <2>1, <2>6, <3>1, <4>1 DEF Ended
      <4>3. MadeBefore(t, r, m.bgClock)' = MadeBefore(t, r, l)'
        BY <4>1
      <4> QED  BY <1>8, <1>10, <2>3, <3>1, <4>1, <4>2, <4>3
    <3>2. CASE m = OpLogMsg(c, s, isClock)
      <4>1. PICK l \in Nat : l = clientClock[c] + 1
        BY <1>0, NumbersOf
      <4>2. m.isClock = isClock /\ m.version = last /\ m.bgClock = l
        BY <1>6, <3>2, <4>1 DEF OpLogMsg
      <4>3. l <= k
        BY <2>1, <2>6, <4>1, <4>2
      <4>4. MadeBefore(t, r, m.bgClock)' = MadeBefore(t, r, l)'
        BY <4>2
      <4> QED  BY <2>3, <2>4, <4>2, <4>3, <4>4
    <3> QED  BY <1>9, <3>1, <3>2
  <2>7. bgClock'[s].vec[c] <= clock'[t] /\ MadeBefore(t, r, bgClock[s].vec[c])' <= table'[s][r][t]
    <3>1. PICK l \in Nat : l = bgClock[s].vec[c]
      BY <1>0, <1>1, NumbersOf
    <3>2. l <= k /\ MadeBefore(t, r, l) <= table[s][r][t]
      BY <1>1, <1>2, <2>1, <3>1 DEF Ended
    <3>3. MadeBefore(t, r, bgClock[s].vec[c])' = MadeBefore(t, r, l)'
      BY <1>3, <3>1
    <3> QED  BY <1>3, <2>3, <3>1, <3>2, <3>3
  <2> QED  BY <1>1, <2>5, <2>6, <2>7 DEF Ended
<1>15. table'[s][r][t] >= table[s][r][t] /\ \A d \in Clients : bgVersion'[s][d] >= bgVersion[s][d]
  <2>1. table[s][r][t] \in Nat /\ \A d \in Clients : bgVersion[s][d] \in Int
    BY <1>0, <1>1, NumbersOf
  <2> QED  BY <1>3, <2>1
<1>16. Replied(t, r, g)'
  <2>1. \A v \in Int : v <= bgVersion[s][c] => g[v] = f[v]
    <3> SUFFICES ASSUME NEW v \in Int, v <= b PROVE g[v] = f[v]
      BY <1>20
    <3>1. v < last
      BY <1>20
    <3> QED  BY <1>8, <3>1
  <2> QED  BY <1>1, <1>2, <1>3, <1>15, <2>1, RepliedStays
<1>17. Cached(t, r)'
  <2>1. \A d \in Clients : cache[d][r].data[t] \in Nat
    BY <1>0, NumbersOf
  <2>2. Shared(t, r)' - Shared(t, r) = 0
    BY <1>4
  <2>3. \A d \in Clients : cache'[d][r].clock >= 0 =>
          /\ cache'[d][r].clock = cache[d][r].clock
          /\ cache'[d][r].data[t] = cache[d][r].data[t] + (IF d = ClientOf[t] THEN Shared(t, r)' - Shared(t, r) ELSE 0)
    BY <1>3, <2>1, <2>2
  <2> QED  BY <1>1, <1>2, <1>15, <2>3, CachedStays
<1>18. Account(t, r, g)'
  BY <1>12, <1>13, <1>14, <1>16, <1>17 DEF Account
<1> QED  BY <1>18

\* HandleClockMsg keeps the account.
LEMMA HandleBgKeepsAccounts ==
  ASSUME Inv, Inv', Grows, NEW c \in Clients, NEW u \in Threads, HandleBgClock(c, u) \/ HandleBgSendOpLog(c, u),
         NEW t \in Threads, NEW r \in Rows, NEW f \in [Int -> Nat], Account(t, r, f)
  PROVE  \E g \in [Int -> Nat] : Account(t, r, g)'
<1>1. UNCHANGED <<threadVars, cache, serverVars, serverToBg, ghostVars>>
  BY DEF HandleBgClock, HandleBgSendOpLog
<1>2. PICK isClock \in BOOLEAN : SendOpLogs(c, isClock) /\ (isClock => HandleBgClock(c, u))
  BY DEF HandleBgClock, HandleBgSendOpLog
<1>3. CASE c # ClientOf[t]
  BY <1>1, <1>2, <1>3, OthersSend
<1>4. CASE c = ClientOf[t]
  <2>1. isClock => clientClock[c] + 1 <= clock[t]
    <3> SUFFICES ASSUME isClock PROVE clientClock[c] + 1 <= clock[t]
      OBVIOUS
    <3>1. ClocksTyped /\ ProcessOK
      BY ClocksAreTyped DEF Inv
    <3>2. clientClock[c] + 1 <= threadClocks[c].min
      <4>1. /\ NextFromApp(c, u, "BgClock") /\ UNCHANGED <<pc, threadClocks>>
            /\ clientClock' = [clientClock EXCEPT ![c] = @ + 1]
        BY <1>2 DEF HandleBgClock, threadVars
      <4> QED  BY <3>1, <4>1, AdvancesOfBgClock DEF ProcessOK
    <3>3. threadClocks[c].min <= clock[t]
      BY <1>4, <3>1, WorkersAreBehind
    <3>4. clientClock[c] \in Nat /\ threadClocks[c].min \in Nat /\ clock[t] \in Nat
      BY <1>4, <3>1, ClockTypesOf
    <3> QED  BY <3>2, <3>3, <3>4
  <2> QED  BY <1>1, <1>2, <1>4, <2>1, OwnSend
<1> QED  BY <1>3, <1>4

\* Of another process' thread, a reply's row is all there is.
LEMMA ForeignFromReply ==
  ASSUME Inv, NEW t \in Threads, NEW r \in Rows, Elsewhere(t, r),
         NEW c \in Clients, c # ClientOf[t], NEW m \in RowReplies(ServerOf[r]), m.row = r, OldOpLogsKept(c, m)
  PROVE  RowFromReply(c, m).data[t] = m.data[t]
<1> DEFINE kept == [v \in OldVersions(c, m) |-> mgr[c].oplogs[v][r][t]]
<1>1. PICK n \in Nat, low \in Int, high \in Int : n = m.data[t] /\ low = m.version /\ high = version[c] - 1
  <2>1. m.data[t] \in Nat /\ m.version \in Int
    BY DEF RowReplies, Vec
  <2>2. version[c] \in Nat
    BY NumbersOf DEF Inv
  <2> QED  BY <2>1, <2>2
<1>2. OldVersions(c, m) = low + 1 .. high
  BY <1>1 DEF OldVersions
<1>3. oplog[c][r][t] = 0
  BY DEF Elsewhere
<1>4. RowFromReply(c, m).data[t] = n + SumFunction(kept) + 0
  BY <1>1, <1>3 DEF RowFromReply
<1>5. SumFunction(kept) = SumFunctionOnSet(kept, low + 1 .. high)
  BY <1>2 DEF SumFunction
<1>6. \A v \in low + 1 .. high : kept[v] = 0
  BY <1>2 DEF OldOpLogsKept, Elsewhere
<1> HIDE DEF kept
<1>7. IsFiniteSet(low + 1 .. high)
  <2>1. low + 1 \in Int
    OBVIOUS
  <2> QED  BY <2>1, FS_Interval
<1>8. SumFunctionOnSet(kept, low + 1 .. high) = 0
  BY <1>6, <1>7, SumOfZeros
<1> QED  BY <1>1, <1>4, <1>5, <1>8

\* The row that a fair reply and the updates since its version make.
LEMMA FairRowFromReply ==
  ASSUME Inv, NEW t \in Threads, NEW r \in Rows, NEW f \in [Int -> Nat], Account(t, r, f),
         NEW c \in Clients, NEW m \in RowReplies(ServerOf[r]), m.row = r, FairReply(t, r, f, c, m),
         OldOpLogsKept(c, m)
  PROVE  /\ RowFromReply(c, m).data[t] \in Nat
         /\ FairRow(t, r, c, m.clock, RowFromReply(c, m).data[t])
<1> DEFINE kept == [v \in OldVersions(c, m) |-> mgr[c].oplogs[v][r][t]]
<1>0. TypeOK /\ IInv
  BY DEF Inv
<1>1. PICK s \in Servers : ServerOf[r] = s
  BY PlacesOf
<1>2. PICK n \in Nat : n = m.data[t]
  BY DEF RowReplies, Vec
<1>3. PICK low \in Int : low = m.version
  BY DEF RowReplies
<1>4. PICK high \in Int : high = version[c] - 1
  <2>1. version[c] \in Nat
    BY <1>0, NumbersOf
  <2> QED  BY <2>1
<1>5. PICK o \in Nat : o = oplog[c][r][t]
  BY <1>0, NumbersOf
<1>6. OldVersions(c, m) = low + 1 .. high
  BY <1>3, <1>4 DEF OldVersions
<1>7. RowFromReply(c, m).data[t] = n + SumFunction(kept) + o
  BY <1>2, <1>5 DEF RowFromReply
<1>8. SumFunction(kept) = SumFunctionOnSet(kept, low + 1 .. high)
  BY <1>6 DEF SumFunction
<1>9. \A v \in low + 1 .. high : v \in DOMAIN mgr[c].oplogs /\ kept[v] = mgr[c].oplogs[v][r][t]
  BY <1>6 DEF OldOpLogsKept
<1>10. DOMAIN kept = low + 1 .. high
  BY <1>6
<1>11. PICK k \in Nat : k = m.clock
  BY DEF RowReplies
<1>12. k <= clock[t] /\ MadeBefore(t, r, k) <= n
  BY <1>2, <1>11 DEF FairReply
<1>13. MadeBefore(t, r, k) \in Nat
  <2>1. k \in 0 .. clock[t] /\ ThreadsOK /\ HistoryOK
    BY <1>0, <1>12, NumbersOf DEF Inv, TypeOK
  <2> QED  BY <2>1, HistoryTypes
<1> HIDE DEF kept
<1>14. CASE c = ClientOf[t]
  <2>1. /\ table[s][r][t] = f[bgVersion[s][c]]
        /\ Shared(t, r) = f[version[c] - 1] + oplog[c][r][t]
        /\ \A v \in DOMAIN mgr[c].oplogs : v < version[c] /\ mgr[c].oplogs[v][r][t] = f[v] - f[v - 1]
        /\ \A v, w \in Int : v <= w => f[v] <= f[w]
    BY <1>1, <1>14 DEF Account, Sent
  <2>2. low <= bgVersion[s][c] /\ n = f[low]
    BY <1>1, <1>2, <1>3, <1>14 DEF FairReply
  <2>3. bgVersion[s][c] <= version[c] - 1 /\ bgVersion[s][c] \in Int /\ version[c] \in Nat
    BY <1>0, <1>1, VersionsOfOpLogs
  <2>4. low <= high
    BY <1>4, <2>2, <2>3
  <2>5. \A v \in Int : f[v] \in Int
    OBVIOUS
  <2>6. \A v \in low + 1 .. high : kept[v] = f[v] - f[v - 1]
    BY <1>9, <2>1
  <2>7. SumFunctionOnSet(kept, low + 1 .. high) = f[high] - f[low]
    <3>1. Differences(kept, f, low, high)
      BY <2>5, <2>6 DEF Differences
    <3>2. Grown(kept, f, low, high)
      BY <2>4, <3>1, DifferencesAddUp
    <3> QED  BY <3>2 DEF Grown
  <2>8. PICK F \in Nat, G \in Nat : F = f[low] /\ G = f[high] /\ F <= G
    BY <2>1, <2>4
  <2>9. Shared(t, r) = G + o
    BY <1>4, <1>5, <2>1, <2>8
  <2>10. SumFunction(kept) = G - F
    BY <1>8, <2>7, <2>8
  <2>11. n = F
    BY <2>2, <2>8
  <2>12. RowFromReply(c, m).data[t] = G + o
    BY <1>7, <2>10, <2>11
  <2>13. MadeBefore(t, r, k) <= G + o
    BY <1>12, <1>13, <2>8, <2>11
  <2> QED  BY <1>11, <1>12, <1>14, <2>9, <2>12, <2>13 DEF FairRow
<1>15. CASE c # ClientOf[t]
  <2>5. RowFromReply(c, m).data[t] = n
    BY <1>2, <1>15, ForeignFromReply DEF Account
  <2>6. n <= table[s][r][t]
    BY <1>1, <1>2, <1>15 DEF FairReply
  <2> QED  BY <1>1, <1>11, <1>12, <1>15, <2>5, <2>6 DEF FairRow
<1> QED  BY <1>14, <1>15

\* A reply's row enters the cache, and another may leave it.
LEMMA CacheOfReply ==
  ASSUME Inv, NEW c \in Clients, NEW s0 \in Servers, HandleReply(c, s0)
  PROVE  LET reply == Head(serverToBg[s0][c])
         IN  \A d \in Clients, r \in Rows :
               IF d = c /\ r = reply.row
               THEN /\ cache'[d][r] = RowFromReply(c, reply) /\ cache'[d][r].clock = reply.clock
               ELSE cache'[d][r].clock >= 0 => cache'[d][r] = cache[d][r]
<1> DEFINE reply == Head(serverToBg[s0][c])
<1>0. TypeOK /\ ClientsOK /\ WaitingOK /\ QueuesOK
  BY TypeParts DEF Inv
<1>1. reply \in RowReplies(s0) /\ reply.row \in Rows /\ reply.clock \in Nat
  BY <1>0, AnswersOfReply
<1>2. /\ OldOpLogsKept(c, reply)
      /\ \E after \in CachesAfter(c, reply.row, RowFromReply(c, reply)) : cache' = [cache EXCEPT ![c] = after]
  BY DEF HandleReply
<1>3. PICK row \in [clock : Nat \cup {-1}, data : Vec] : row = RowFromReply(c, reply) /\ row.clock = reply.clock
  <2> DEFINE x == RowFromReply(c, reply)
  <2>1. x \in [clock : Nat \cup {-1}, data : Vec]
    <3>1. reply.version \in Int /\ reply.data \in Vec
      BY <1>1 DEF RowReplies
    <3> HIDE DEF reply
    <3> QED  BY <1>0, <1>1, <1>2, <3>1, RowFromReplyTypes
  <2>2. x.clock = reply.clock
    BY DEF RowFromReply
  <2> HIDE DEF x
  <2>3. \E row \in [clock : Nat \cup {-1}, data : Vec] : row = x /\ row.clock = reply.clock
    BY <2>1, <2>2
  <2> QED  BY <2>3 DEF x
<1>4. PICK r0 \in Rows : r0 = reply.row
  BY <1>1
<1>5. PICK after \in CachesAfter(c, r0, row) : cache' = [cache EXCEPT ![c] = after]
  BY <1>2, <1>3, <1>4
<1>6. cache \in [Clients -> [Rows -> [clock : Nat \cup {-1}, data : Vec]]]
  BY <1>0 DEF ClientsOK
<1>7. \/ after = [cache[c] EXCEPT ![r0] = row]
      \/ \E v \in CachedRows(c) : /\ v # r0
                                  /\ after = [[cache[c] EXCEPT ![r0] = row] EXCEPT ![v] = NotCached]
  BY <1>0, CachesAfterTypes
<1>8. ASSUME NEW r \in Rows
      PROVE  IF r = r0 THEN after[r] = row ELSE after[r].clock >= 0 => after[r] = cache[c][r]
  <2>1. CASE after = [cache[c] EXCEPT ![r0] = row]
    BY <1>6, <2>1
  <2>2. ASSUME NEW v \in CachedRows(c), v # r0,
               after = [[cache[c] EXCEPT ![r0] = row] EXCEPT ![v] = NotCached]
        PROVE  IF r = r0 THEN after[r] = row ELSE after[r].clock >= 0 => after[r] = cache[c][r]
    <3>1. after[r] = IF r = v THEN NotCached ELSE IF r = r0 THEN row ELSE cache[c][r]
      BY <1>6, <2>2
    <3> QED  BY <2>2, <3>1 DEF NotCached
  <2> QED  BY <1>7, <2>1, <2>2
<1>9. cache'[c] = after /\ \A d \in Clients \ {c} : cache'[d] = cache[d]
  BY <1>5, <1>6
<1> HIDE DEF reply
<1>10. \A d \in Clients, r \in Rows :
         IF d = c /\ r = r0 THEN cache'[d][r] = row ELSE cache'[d][r].clock >= 0 => cache'[d][r] = cache[d][r]
  BY <1>8, <1>9
<1> QED  BY <1>3, <1>4, <1>10 DEF reply

\* HandleServerRowRequestReply keeps the account.
LEMMA ReplyKeepsAccounts ==
  ASSUME Inv, Inv', Grows, NEW c \in Clients, NEW s0 \in Servers, HandleReply(c, s0),
         NEW t \in Threads, NEW r \in Rows, NEW f \in [Int -> Nat], Account(t, r, f)
  PROVE  Account(t, r, f)'
<1> DEFINE reply == Head(serverToBg[s0][c])
           r0 == reply.row
           k0 == reply.clock
           again == ClockToRequest(mgr[c], r0, k0, version[c])
<1>0. TypeOK /\ TypeOK' /\ IInv /\ WaitingOK /\ QueuesOK
  BY TypeParts DEF Inv
<1>1. PICK s \in Servers : ServerOf[r] = s
  BY PlacesOf
<1>2. Sent(t, r, f) /\ Elsewhere(t, r) /\ Ended(t, r, f) /\ Replied(t, r, f) /\ Cached(t, r)
  BY DEF Account
<1>3. /\ UNCHANGED <<clock, made, threadOplog, oplog, oplogIndex, version>>
      /\ UNCHANGED <<table, bgVersion, bgClock, closed>>
  BY DEF HandleReply, tableVars, serverVars, ghostVars
<1>4. Shared(t, r)' = Shared(t, r) /\ Shared(t, r) \in Nat
  BY <1>3, HistoryTypes DEF Shared, Inv, TypeOK
<1>5. /\ reply \in RowReplies(s0) /\ r0 \in Rows /\ ServerOf[r0] = s0 /\ k0 \in Nat
      /\ Answered(mgr[c], mgr'[c], r0, Len(Satisfied(mgr[c], r0, k0)), again)
      /\ \A z \in Clients \ {c} : mgr'[z] = mgr[z]
  BY <1>0, AnswersOfReply
<1>6. /\ OldOpLogsKept(c, reply)
      /\ \E after \in CachesAfter(c, r0, RowFromReply(c, reply)) : cache' = [cache EXCEPT ![c] = after]
      /\ \/ bgToServer' = bgToServer
         \/ bgToServer' = [bgToServer EXCEPT ![c][s0] = Append(@, RowRequest(r0, again))]
      /\ serverToBg' = [serverToBg EXCEPT ![s0][c] = Tail(@)] /\ serverToBg[s0][c] # << >>
  BY <1>5 DEF HandleReply
<1>7. \A d \in Clients : KeepsOpLogs(mgr[d], mgr'[d])
  <2>1. KeepsOpLogs(mgr[c], mgr'[c])
    BY <1>5 DEF Answered
  <2> QED  BY <1>5, <2>1, KeepsSame
<1>8. \A d \in Clients, z \in Servers : OpLogsOf(bgToServer'[d][z]) \subseteq OpLogsOf(bgToServer[d][z])
  <2>1. PICK m : m = RowRequest(r0, again)
    OBVIOUS
  <2>2. m.type # "OpLog"
    BY <2>1 DEF RowRequest
  <2>3. \/ bgToServer' = bgToServer
        \/ bgToServer' = [bgToServer EXCEPT ![c][s0] = Append(@, m)]
    BY <1>6, <2>1
  <2> QED  BY <1>0, <2>2, <2>3, RequestJoins
<1>9. \A d \in Clients : ToSet(serverToBg'[s][d]) \subseteq ToSet(serverToBg[s][d])
  <2> SUFFICES ASSUME NEW d \in Clients, serverToBg'[s][d] # serverToBg[s][d]
               PROVE  ToSet(serverToBg'[s][d]) \subseteq ToSet(serverToBg[s][d])
    OBVIOUS
  <2> DEFINE q == serverToBg[s0][c]
  <2>1. d = c /\ s = s0 /\ serverToBg'[s][d] = Tail(q)
    BY <1>0, <1>6 DEF TypeOK
  <2>2. q \in Seq(RowReplies(s0)) /\ q # << >>
    BY <1>0, <1>6 DEF TypeOK
  <2>3. ToSet(Tail(q)) \subseteq ToSet(q)
    <3> HIDE DEF q
    <3>1. IsSeq(q)
      BY <2>2, SeqParts
    <3> QED  BY <2>2, <3>1, SetOfTail
  <2> QED  BY <2>1, <2>3
<1>10. reply \in ToSet(serverToBg[s0][c])
  <2> DEFINE q == serverToBg[s0][c]
  <2>1. q \in Seq(RowReplies(s0)) /\ q # << >>
    BY <1>0, <1>6 DEF TypeOK
  <2>2. Head(q) \in ToSet(q)
    <3> HIDE DEF q
    <3>1. IsSeq(q)
      BY <2>1, SeqParts
    <3> QED  BY <2>1, <3>1, SetOfTail
  <2> QED  BY <2>2
<1>11. PICK row \in [clock : Nat \cup {-1}, data : Vec] : row = RowFromReply(c, reply) /\ row.clock = k0
  <2> DEFINE x == RowFromReply(c, reply)
  <2>1. x \in [clock : Nat \cup {-1}, data : Vec]
    <3>1. ClientsOK /\ reply.version \in Int /\ reply.data \in Vec
      BY <1>0, <1>5 DEF TypeOK, RowReplies
    <3> HIDE DEF reply
    <3> QED  BY <1>0, <1>5, <1>6, <3>1, RowFromReplyTypes
  <2>2. x.clock = k0
    BY DEF RowFromReply
  <2> HIDE DEF x
  <2>3. \E row \in [clock : Nat \cup {-1}, data : Vec] : row = x /\ row.clock = k0
    BY <2>1, <2>2
  <2> QED  BY <2>3 DEF x
<1> HIDE DEF reply, r0, k0, again
<1>12. \A d \in Clients : cache'[d][r].clock >= 0 =>
         \/ cache'[d][r] = cache[d][r]
         \/ (d = c /\ r = r0 /\ cache'[d][r] = row)
  BY <1>11, CacheOfReply DEF reply, r0
<1>13. Sent(t, r, f)'
  <2>1. PICK a \in Clients : ClientOf[t] = a
    BY PlacesOf
  <2>2. Shared(t, r)' = f[version[a] - 1] + oplog'[a][r][t]
    BY <1>2, <1>3, <1>4, <2>1 DEF Sent
  <2> QED  BY <1>1, <1>2, <1>3, <1>7, <1>8, <2>1, <2>2, SentStays
<1>14. Elsewhere(t, r)'
  BY <1>1, <1>2, <1>3, <1>7, <1>8, ElsewhereStays
<1>15. table'[s][r][t] >= table[s][r][t] /\ \A d \in Clients : bgVersion'[s][d] >= bgVersion[s][d]
  <2>1. table[s][r][t] \in Nat /\ \A d \in Clients : bgVersion[s][d] \in Int
    BY <1>0, <1>1, NumbersOf
  <2> QED  BY <1>3, <2>1
<1>16. Ended(t, r, f)'
  <2>1. PICK a \in Clients : ClientOf[t] = a
    BY PlacesOf
  <2>2. r \notin oplogIndex'[a] => MadeBefore(t, r, clock[t])' <= f[version[a] - 1]
    BY <1>2, <1>3, <2>1, IndexStays
  <2> QED  BY <1>1, <1>2, <1>3, <1>8, <1>15, <2>1, <2>2, EndedStays
<1>17. Replied(t, r, f)'
  BY <1>1, <1>2, <1>9, <1>15, RepliedStays
<1>18. Cached(t, r)'
  <2>1. \A d \in Clients : cache[d][r].data[t] \in Nat
    BY <1>0, NumbersOf
  <2>2. Shared(t, r)' - Shared(t, r) = 0
    BY <1>4
  <2>3. ASSUME r = r0 PROVE FairRow(t, r, c, row.clock, row.data[t])'
    <3>1. PICK k \in Nat, n \in Nat : k = row.clock /\ n = row.data[t] /\ FairRow(t, r, c, k, n)
      <4>1. FairReply(t, r, f, c, reply) /\ s = s0
        BY <1>1, <1>2, <1>5, <1>10, <2>3 DEF Replied, r0
      <4>2. row.data[t] \in Nat /\ FairRow(t, r, c, k0, row.data[t])
        BY <1>1, <1>5, <1>6, <2>3, <4>1, <1>11, FairRowFromReply DEF k0, r0
      <4> QED  BY <1>5, <1>11, <4>2
    <3>2. FairRow(t, r, c, k, n)'
      <4>1. IF c = ClientOf[t] THEN n - n = Shared(t, r)' - Shared(t, r) ELSE n = n
        BY <2>2
      <4> QED  BY <1>1, <1>15, <3>1, <4>1, FairRowStays
    <3>3. FairRow(t, r, c, row.clock, row.data[t]) = FairRow(t, r, c, k, n)
      BY <3>1
    <3> QED  BY <3>1, <3>2
  <2>4. \A d \in Clients : cache'[d][r].clock >= 0 =>
          \/ /\ cache'[d][r].clock = cache[d][r].clock
             /\ cache'[d][r].data[t] = cache[d][r].data[t] + (IF d = ClientOf[t] THEN Shared(t, r)' - Shared(t, r) ELSE 0)
          \/ FairRow(t, r, d, cache[d][r].clock, cache[d][r].data[t])'
    <3> SUFFICES ASSUME NEW d \in Clients, cache'[d][r].clock >= 0
                 PROVE  \/ /\ cache'[d][r].clock = cache[d][r].clock
                           /\ cache'[d][r].data[t] = cache[d][r].data[t] + (IF d = ClientOf[t] THEN Shared(t, r)' - Shared(t, r) ELSE 0)
                        \/ FairRow(t, r, d, cache[d][r].clock, cache[d][r].data[t])'
      OBVIOUS
    <3>1. CASE cache'[d][r] = cache[d][r]
      BY <2>1, <2>2, <3>1
    <3>2. CASE d = c /\ r = r0 /\ cache'[d][r] = row
      BY <2>3, <3>2
    <3> QED  BY <1>12, <3>1, <3>2
  <2> QED  BY <1>1, <1>2, <1>15, <2>4, CachedStays
<1> QED  BY <1>13, <1>14, <1>16, <1>17, <1>18 DEF Account

\* Background workers keep the account.
LEMMA BgKeepsAccounts ==
  ASSUME Inv, Inv', Grows, NEW c \in Clients, BgNext(c),
         NEW t \in Threads, NEW r \in Rows, NEW f \in [Int -> Nat], Account(t, r, f)
  PROVE  \E g \in [Int -> Nat] : Account(t, r, g)'
<1>0. TypeOK /\ Ended(t, r, f)
  BY DEF Inv, Account
<1>1. CASE UNCHANGED <<table, bgVersion, bgClock, version, oplog, cache, mgr, bgToServer, serverToBg,
                       made, threadOplog, clock, oplogIndex>>
  <2>1. Shared(t, r)' = Shared(t, r)
    BY <1>1 DEF Shared
  <2>2. Account(t, r, f)'
    BY <1>0, <1>1, <2>1, NothingShared, IndexStays, QuietKeeps
  <2> QED  BY <2>2
<1>2. CASE \E u \in Threads : RowRequestAnswered(c, u)
  BY <1>1, <1>2 DEF RowRequestAnswered, threadVars, tableVars, clientVars, bgVars, serverVars,
                    channelVars, ghostVars
<1>3. CASE \E s \in Servers : HandleReplyAbort(c, s)
  BY <1>1, <1>3 DEF HandleReplyAbort, threadVars, tableVars, clientVars, bgVars, serverVars,
                    channelVars, ghostVars
<1>4. CASE \E u \in Threads : RowRequestForwarded(c, u)
  <2>1. Account(t, r, f)'
    BY <1>4, ForwardedKeepsAccounts
  <2> QED  BY <2>1
<1>5. CASE \E u \in Threads : HandleBgClock(c, u) \/ HandleBgSendOpLog(c, u)
  BY <1>5, HandleBgKeepsAccounts
<1>6. CASE \E s \in Servers : HandleReply(c, s)
  <2>1. Account(t, r, f)'
    BY <1>6, ReplyKeepsAccounts
  <2> QED  BY <2>1
<1> QED  BY <1>2, <1>3, <1>4, <1>5, <1>6 DEF BgNext

-----------------------------------------------------------------------------
(* Steps of servers.                                                       *)

\* Taking a message from a channel to a server.
LEMMA TakenMessages ==
  ASSUME TypeOK, NEW c \in Clients, NEW s \in Servers, NEW type, NextFromBg(s, c, type)
  PROVE  /\ \A d \in Clients, z \in Servers : OpLogsOf(bgToServer'[d][z]) \subseteq OpLogsOf(bgToServer[d][z])
         /\ Head(bgToServer[c][s]) \in ToSet(bgToServer[c][s]) /\ Head(bgToServer[c][s]).type = type
<1> DEFINE q == bgToServer[c][s]
<1>1. q # << >> /\ Head(q).type = type /\ bgToServer' = [bgToServer EXCEPT ![c][s] = Tail(@)]
  BY DEF NextFromBg
<1>2. IsSeq(q)
  BY QueueToServer
<1>3. OpLogsOf(Tail(q)) \subseteq OpLogsOf(q) /\ Head(q) \in ToSet(q)
  <2> HIDE DEF q
  <2> QED  BY <1>1, <1>2, SetOfTail
<1>4. DOMAIN bgToServer = Clients /\ \A d \in Clients : DOMAIN bgToServer[d] = Servers
  BY DEF TypeOK, ServersOK
<1>5. \A d \in Clients, z \in Servers :
        bgToServer'[d][z] = IF d = c /\ z = s THEN Tail(q) ELSE bgToServer[d][z]
  BY <1>1, <1>4
<1> QED  BY <1>1, <1>3, <1>5

\* Buffering a row request keeps the account.
LEMMA BufferedKeepsAccounts ==
  ASSUME Inv, Inv', Grows, NEW c \in Clients, NEW s \in Servers, RowRequestBuffered(s, c),
         NEW t \in Threads, NEW r \in Rows, NEW f \in [Int -> Nat], Account(t, r, f)
  PROVE  Account(t, r, f)'
<1>0. TypeOK /\ Ended(t, r, f)
  BY DEF Inv, Account
<1>1. UNCHANGED <<table, bgVersion, bgClock, version, oplog, cache, mgr, serverToBg,
                  made, threadOplog, clock, oplogIndex>>
  BY DEF RowRequestBuffered, threadVars, tableVars, clientVars, bgVars, ghostVars
<1>2. Shared(t, r)' = Shared(t, r)
  BY <1>1 DEF Shared
<1>3. \A d \in Clients, z \in Servers : OpLogsOf(bgToServer'[d][z]) \subseteq OpLogsOf(bgToServer[d][z])
  BY <1>0, TakenMessages DEF RowRequestBuffered
<1>4. \A d \in Clients : KeepsOpLogs(mgr[d], mgr'[d])
  BY <1>1, KeepsSame
<1>5. Quiet(t, r, 0)
  BY <1>0, <1>1, <1>2, <1>3, <1>4, NothingMoved
<1> QED  BY <1>0, <1>1, <1>5, IndexStays, QuietKeeps

PastNumbers == \A t \in Threads, r \in Rows : \A k \in 0 .. clock[t] : MadeBefore(t, r, k) \in Nat

\* What was made before a clock that has come is a number.
LEMMA PastHasNumbers == ThreadsOK /\ HistoryOK => PastNumbers
BY HistoryTypes DEF PastNumbers

\* PastHasNumbers, after a step.
LEMMA PastHasNumbersNext == (ThreadsOK /\ HistoryOK => PastNumbers)'
BY PastHasNumbers, PTL

\* What a server holds is a fair reply.
LEMMA FreshReply ==
  ASSUME Inv', NEW t \in Threads, NEW r \in Rows, NEW f \in [Int -> Nat],
         Sent(t, r, f)', Ended(t, r, f)', NEW d \in Clients, NEW m,
         m.clock = bgClock'[ServerOf[r]].min, m.version = bgVersion'[ServerOf[r]][d],
         m.data[t] = table'[ServerOf[r]][r][t]
  PROVE  FairReply(t, r, f, d, m)'
<1>1. PICK a \in Clients, s \in Servers : ClientOf[t] = a /\ ServerOf[r] = s
  BY PlacesOf
<1>2. ThreadsOK' /\ ServersOK' /\ HistoryOK' /\ ServerClocksExact'
  BY DEF Inv, TypeOK, IInv
<1>3. bgClock'[s] \in VectorClocks(Clients) /\ IsMinimum(bgClock'[s])
  BY <1>2 DEF ServersOK, ServerClocksExact
<1>4. PICK k \in Nat, l \in Nat : k = bgClock'[s].min /\ l = bgClock'[s].vec[a] /\ k <= l
  BY <1>3 DEF VectorClocks, IsMinimum
<1>5. PICK n \in Nat : n = clock'[t]
  BY <1>2 DEF ThreadsOK
<1>6. l <= n /\ MadeBefore(t, r, bgClock[s].vec[a])' <= table'[s][r][t]
  BY <1>1, <1>4, <1>5 DEF Ended
<1>7. MadeBefore(t, r, l)' <= table'[s][r][t]
  <2>1. MadeBefore(t, r, bgClock[s].vec[a])' = MadeBefore(t, r, l)'
    BY <1>4
  <2> QED  BY <1>6, <2>1
<1>8. k \in 0 .. clock'[t] /\ l \in 0 .. clock'[t]
  BY <1>4, <1>5, <1>6
<1>9. MadeBefore(t, r, k)' <= MadeBefore(t, r, l)'
  <2>1. HistoryOf(t)'
    BY <1>2 DEF HistoryOK
  <2> QED  BY <1>4, <1>8, <2>1 DEF HistoryOf
<1>10. MadeBefore(t, r, k)' \in Nat /\ MadeBefore(t, r, l)' \in Nat
  BY <1>2, <1>8, PastHasNumbersNext DEF PastNumbers
<1>11. PICK h \in Nat : h = table'[s][r][t]
  BY <1>1, NumbersNext DEF Inv
<1>12. MadeBefore(t, r, k)' <= h
  BY <1>7, <1>9, <1>10, <1>11
<1>13. MadeBefore(t, r, m.clock)' = MadeBefore(t, r, k)'
  BY <1>1, <1>4
<1>14. m.version \in Int /\ table'[s][r][t] = f[bgVersion'[s][a]]
  <2>1. bgVersion'[s][d] \in Int
    BY <1>1, NumbersNext DEF Inv
  <2> QED  BY <1>1, <2>1 DEF Sent
<1> QED  BY <1>1, <1>4, <1>5, <1>6, <1>11, <1>12, <1>13, <1>14 DEF FairReply

MinimaBounded == \A s \in Servers : bgClock[s].min \in 0 .. MaxClock

\* No server is ahead of the threads.
LEMMA ServersAreBounded == Inv => MinimaBounded
<1> SUFFICES ASSUME Inv, NEW s \in Servers PROVE bgClock[s].min \in 0 .. MaxClock
  BY DEF MinimaBounded
<1>1. PICK c \in Clients : TRUE
  BY ThreadsAssumption
<1>2. TypeOK /\ IInv /\ HistoryOK /\ ProcessOK
  BY DEF Inv
<1>3. bgClock[s] \in VectorClocks(Clients) /\ IsMinimum(bgClock[s]) /\ clientClock[c] \in Nat
  BY <1>2 DEF TypeOK, ServersOK, ClientsOK, IInv, ServerClocksExact
<1>4. bgClock[s].min \in Nat /\ bgClock[s].vec[c] \in Nat /\ bgClock[s].min <= bgClock[s].vec[c]
  BY <1>3 DEF VectorClocks, IsMinimum
<1>5. bgClock[s].vec[c] <= clientClock[c]
  BY <1>2 DEF IInv, MessagesInSequence, Consecutive
<1>6. clientClock[c] <= MaxClock /\ MaxClock \in Nat
  <2>1. \A t \in Threads : clock[t] <= MaxClock
    BY <1>2 DEF HistoryOK, HistoryOf
  <2> QED  BY <1>2, <2>1, ClocksAreTyped, WorkersAreBounded, BoundsAssumption DEF ClocksBounded
<1> QED  BY <1>3, <1>4, <1>5, <1>6

\* ServersAreBounded, after a step.
LEMMA ServersAreBoundedNext == (Inv => MinimaBounded)'
BY ServersAreBounded, PTL

\* A reply made of what server s holds of row r after the step.
Fresh(m, s, d, r) ==
  m.clock = bgClock'[s].min /\ m.version = bgVersion'[s][d] /\ m.data = table'[s][r]

\* What applying a message changes.
LEMMA OpLogApplied ==
  ASSUME Inv, NEW c \in Clients, NEW s \in Servers, HandleOpLog(s, c)
  PROVE  LET msg == Head(bgToServer[c][s])
         IN  /\ msg \in OpLogsOf(bgToServer[c][s]) /\ msg \in ToServer(s)
             /\ msg.type = "OpLog"
             /\ msg.version = bgVersion[s][c] + 1
             /\ \A z \in Servers, d \in Clients :
                  /\ bgVersion'[z][d] = IF z = s /\ d = c THEN msg.version ELSE bgVersion[z][d]
                  /\ bgClock'[z].vec[d] = IF z = s /\ d = c /\ msg.isClock THEN msg.bgClock
                                          ELSE bgClock[z].vec[d]
             /\ \A z \in Servers, r \in Rows : r \in RowsOf(z) =>
                  table'[z][r] = IF z = s THEN ApplyRowOpLog(table[z][r], msg.updates[r]) ELSE table[z][r]
             /\ \A d \in Clients, z \in Servers :
                  OpLogsOf(bgToServer'[d][z]) \subseteq OpLogsOf(bgToServer[d][z])
             /\ UNCHANGED <<version, oplog, oplogIndex, cache, mgr, clock, made, threadOplog, closed>>
<1> DEFINE q == bgToServer[c][s]
           msg == Head(q)
           clocks == ClockUntil(s, c, msg)
<1>0. TypeOK /\ IInv /\ ServersOK
  BY DEF Inv, TypeOK
<1>1. /\ q # << >> /\ msg.type = "OpLog"
      /\ bgVersion' = [bgVersion EXCEPT ![s][c] = msg.version]
      /\ table' = [table EXCEPT ![s] = [r \in RowsOf(s) |-> ApplyRowOpLog(@[r], msg.updates[r])]]
      /\ bgClock' = [bgClock EXCEPT ![s] = clocks]
      /\ UNCHANGED <<version, oplog, oplogIndex, cache, mgr, clock, made, threadOplog, closed>>
      /\ NextFromBg(s, c, "OpLog")
  BY DEF HandleOpLog, ApplyOpLogUpdateVersion, NextFromBg, bgVars, threadVars, clientVars, tableVars, ghostVars
<1>2. /\ IsSeq(q) /\ bgVersion[s][c] \in Int /\ bgClock[s].vec[c] \in Nat
      /\ version[c] - 1 \in Int /\ clientClock[c] \in Int
      /\ Consecutive(Versions(q), bgVersion[s][c], version[c] - 1)
      /\ Consecutive(Clocks(q), bgClock[s].vec[c], clientClock[c])
      /\ bgClock[s] \in VectorClocks(Clients) /\ IsMinimum(bgClock[s])
  BY <1>0 DEF IInv, Shapes, MessagesInSequence, VectorClocks, ServerClocksExact
<1>3. msg.version = bgVersion[s][c] + 1
  <2> HIDE DEF q
  <2> QED  BY <1>1, <1>2, ReceiveVersion
<1>4. msg.isClock => msg.bgClock = bgClock[s].vec[c] + 1
  <2> HIDE DEF q
  <2>1. bgClock[s].vec[c] \in Int
    BY <1>2
  <2> QED  BY <1>1, <1>2, <2>1, ReceiveClock
<1>5. msg \in OpLogsOf(q)
  <2> HIDE DEF q
  <2> QED  BY <1>1, <1>2, SetOfTail
<1>6. msg \in ToServer(s)
  BY <1>0, <1>1, NextFromBgTypes
<1>7. \A d \in Clients : clocks.vec[d] = IF d = c /\ msg.isClock THEN msg.bgClock ELSE bgClock[s].vec[d]
  <2>1. CASE msg.isClock
    BY <1>2, <1>4, <2>1, NextClock DEF ClockUntil
  <2>2. CASE ~msg.isClock
    BY <1>2, <2>2 DEF ClockUntil
  <2> QED  BY <2>1, <2>2
<1> HIDE DEF msg, clocks
<1>8. \A z \in Servers, d \in Clients :
        /\ bgVersion'[z][d] = IF z = s /\ d = c THEN msg.version ELSE bgVersion[z][d]
        /\ bgClock'[z].vec[d] = IF z = s /\ d = c /\ msg.isClock THEN msg.bgClock ELSE bgClock[z].vec[d]
  BY <1>0, <1>1, <1>7 DEF ServersOK
<1>9. \A z \in Servers, r \in Rows : r \in RowsOf(z) =>
        table'[z][r] = IF z = s THEN ApplyRowOpLog(table[z][r], msg.updates[r]) ELSE table[z][r]
  BY <1>0, <1>1 DEF ServersOK
<1>10. \A d \in Clients, z \in Servers : OpLogsOf(bgToServer'[d][z]) \subseteq OpLogsOf(bgToServer[d][z])
  BY <1>0, <1>1, TakenMessages
<1> QED  BY <1>1, <1>3, <1>5, <1>6, <1>8, <1>9, <1>10 DEF msg

\* All replies that an oplog message releases are what the server then holds.
LEMMA FreshReplies ==
  ASSUME Inv, Inv', NEW c \in Clients, NEW s \in Servers, HandleOpLog(s, c),
         NEW d \in Clients, NEW z \in Servers, NEW m \in ToSet(serverToBg'[z][d])
  PROVE  m \in ToSet(serverToBg[z][d]) \/ (m.row \in RowsOf(z) /\ Fresh(m, z, d, m.row))
<1> DEFINE msg == Head(bgToServer[c][s])
           k == ClockUntil(s, c, msg).min
           p == FulfilledReplies(s, k, d)
<1>0. TypeOK /\ TypeOK' /\ ServersOK /\ ServersOK'
  BY DEF Inv, TypeOK
<1>1. /\ bgClock' = [bgClock EXCEPT ![s] = ClockUntil(s, c, msg)]
      /\ \/ serverToBg' = serverToBg
         \/ serverToBg' = [serverToBg EXCEPT ![s] = [e \in Clients |-> @[e] \o FulfilledReplies(s, k, e)]]
  BY DEF HandleOpLog
<1>2. CASE serverToBg'[z][d] = serverToBg[z][d]
  BY <1>2
<1>3. CASE serverToBg'[z][d] # serverToBg[z][d]
  <2>1. z = s /\ serverToBg'[z][d] = serverToBg[s][d] \o p
    BY <1>0, <1>1, <1>3 DEF TypeOK
  <2>2. k = bgClock'[s].min
    BY <1>0, <1>1 DEF ServersOK
  <2>3. k \in 0 .. MaxClock /\ k \in Nat
    BY <2>2, ServersAreBoundedNext DEF MinimaBounded
  <2>4. FulfilledRowRequests(s, k, d) \in Seq(RowsOf(s))
    <3>1. rowRequests[s] \in [0 .. MaxClock -> [Clients -> Seq(RowsOf(s))]]
      BY <1>0 DEF ServersOK
    <3>2. rowRequests[s][k] \in [Clients -> Seq(RowsOf(s))]
      BY <2>3, <3>1
    <3> QED  BY <3>2 DEF FulfilledRowRequests
  <2>5. p \in Seq(RowReplies(s)) /\ serverToBg[s][d] \in Seq(RowReplies(s))
    BY <1>0, <2>3, <2>4, FulfilledTypes DEF TypeOK
  <2> HIDE DEF k
  <2>6. ASSUME NEW i \in DOMAIN p
        PROVE  p[i].row \in RowsOf(s) /\ Fresh(p[i], s, d, p[i].row)
    <3>1. i \in DOMAIN FulfilledRowRequests(s, k, d) /\ FulfilledRowRequests(s, k, d)[i] \in RowsOf(s)
      BY <2>4, <2>6, SeqParts DEF FulfilledReplies
    <3> QED  BY <2>2, <3>1 DEF FulfilledReplies, Reply, Fresh
  <2>7. m \in ToSet(serverToBg[s][d]) \cup ToSet(p)
    <3> HIDE DEF p
    <3> QED  BY <2>1, <2>5, SetOfJoined
  <2> QED  BY <2>1, <2>6, <2>7 DEF ToSet
<1> QED  BY <1>2, <1>3

\* A step of a server, once what it does to its own row has been accounted for.
LEMMA ServerKeepsAccount ==
  ASSUME Inv, Inv', Grows, NEW t \in Threads, NEW r \in Rows, NEW f \in [Int -> Nat], Account(t, r, f),
         UNCHANGED <<oplog, cache, mgr, made, threadOplog>>,
         Sent(t, r, f)', Ended(t, r, f)',
         table'[ServerOf[r]][r][t] >= table[ServerOf[r]][r][t],
         \A d \in Clients : bgVersion'[ServerOf[r]][d] >= bgVersion[ServerOf[r]][d],
         \A d \in Clients, z \in Servers : OpLogsOf(bgToServer'[d][z]) \subseteq OpLogsOf(bgToServer[d][z]),
         \A d \in Clients : \A m \in ToSet(serverToBg'[ServerOf[r]][d]) :
           m.row = r => m \in ToSet(serverToBg[ServerOf[r]][d]) \/ Fresh(m, ServerOf[r], d, r)
  PROVE  Account(t, r, f)'
<1>0. TypeOK /\ TypeOK' /\ ServerOf[r] \in Servers
  BY PlacesOf DEF Inv
<1>1. Sent(t, r, f) /\ Elsewhere(t, r) /\ Replied(t, r, f) /\ Cached(t, r)
  BY DEF Account
<1>2. Elsewhere(t, r)'
  <2>1. \A d \in Clients : KeepsOpLogs(mgr[d], mgr'[d])
    BY KeepsSame
  <2> QED  BY <1>0, <1>1, <2>1, ElsewhereStays
<1>3. Replied(t, r, f)'
  <2>1. ASSUME NEW d \in Clients, NEW m \in ToSet(serverToBg'[ServerOf[r]][d]), m.row = r
        PROVE  m \in ToSet(serverToBg[ServerOf[r]][d]) \/ FairReply(t, r, f, d, m)'
    <3>1. CASE Fresh(m, ServerOf[r], d, r)
      <4>1. /\ m.clock = bgClock'[ServerOf[r]].min /\ m.version = bgVersion'[ServerOf[r]][d]
            /\ m.data[t] = table'[ServerOf[r]][r][t]
        BY <3>1 DEF Fresh
      <4>2. FairReply(t, r, f, d, m)'
        BY <4>1, FreshReply
      <4> QED  BY <4>2
    <3> QED  BY <2>1, <3>1
  <2> QED  BY <1>1, <2>1, RepliedStays
<1>4. Cached(t, r)'
  <2>1. \A d \in Clients : cache[d][r].data[t] \in Nat
    BY <1>0, NumbersOf
  <2>2. Shared(t, r)' - Shared(t, r) = 0
    <3>1. Shared(t, r)' = Shared(t, r) /\ Shared(t, r) \in Int
      BY <1>0 DEF Shared, TypeOK, ThreadsOK
    <3> QED  BY <3>1
  <2>3. \A d \in Clients : cache'[d][r].clock >= 0 =>
          /\ cache'[d][r].clock = cache[d][r].clock
          /\ cache'[d][r].data[t] = cache[d][r].data[t] + (IF d = ClientOf[t] THEN Shared(t, r)' - Shared(t, r) ELSE 0)
    BY <2>1, <2>2
  <2> QED  BY <1>1, <2>3, CachedStays
<1> QED  BY <1>2, <1>3, <1>4 DEF Account

\* The account of what has left the process, as a server applies a version.
LEMMA SentUnmoved ==
  ASSUME TypeOK, NEW t \in Threads, NEW r \in Rows, NEW f \in [Int -> Nat], Sent(t, r, f),
         UNCHANGED <<version, oplog, mgr, made, threadOplog>>,
         table'[ServerOf[r]][r][t] = f[bgVersion'[ServerOf[r]][ClientOf[t]]],
         \A d \in Clients, z \in Servers : OpLogsOf(bgToServer'[d][z]) \subseteq OpLogsOf(bgToServer[d][z])
  PROVE  Sent(t, r, f)'
<1>1. ClientOf[t] \in Clients /\ ServerOf[r] \in Servers
  BY PlacesOf
<1>2. Shared(t, r)' = Shared(t, r)
  BY DEF Shared
<1>3. OpLogsOf(bgToServer'[ClientOf[t]][ServerOf[r]]) \subseteq OpLogsOf(bgToServer[ClientOf[t]][ServerOf[r]])
  BY <1>1
<1> QED  BY <1>2, <1>3 DEF Sent

\* Replying to a row request keeps the account.
LEMMA RepliedKeepsAccounts ==
  ASSUME Inv, Inv', Grows, NEW c \in Clients, NEW s \in Servers, RowRequestReplied(s, c),
         NEW t \in Threads, NEW r \in Rows, NEW f \in [Int -> Nat], Account(t, r, f)
  PROVE  Account(t, r, f)'
<1>0. TypeOK /\ TypeOK' /\ Sent(t, r, f) /\ Ended(t, r, f) /\ ClientOf[t] \in Clients /\ ServerOf[r] \in Servers
  BY PlacesOf DEF Inv, Account
<1>1. UNCHANGED <<table, bgVersion, bgClock, version, oplog, oplogIndex, cache, mgr, made, threadOplog, clock>>
  BY DEF RowRequestReplied, threadVars, tableVars, clientVars, bgVars, serverVars, ghostVars
<1>2. \A d \in Clients, z \in Servers : OpLogsOf(bgToServer'[d][z]) \subseteq OpLogsOf(bgToServer[d][z])
  BY <1>0, TakenMessages DEF RowRequestReplied
<1>3. /\ table[ServerOf[r]][r][t] \in Nat /\ \A d \in Clients : bgVersion[ServerOf[r]][d] \in Int
  BY <1>0, NumbersOf
<1>4. /\ table'[ServerOf[r]][r][t] >= table[ServerOf[r]][r][t]
      /\ \A d \in Clients : bgVersion'[ServerOf[r]][d] >= bgVersion[ServerOf[r]][d]
  BY <1>1, <1>3
<1>5. Sent(t, r, f)'
  <2>1. table'[ServerOf[r]][r][t] = f[bgVersion'[ServerOf[r]][ClientOf[t]]]
    BY <1>0, <1>1 DEF Sent
  <2> QED  BY <1>0, <1>1, <1>2, <2>1, SentUnmoved
<1>6. Ended(t, r, f)'
  BY <1>0, <1>1, <1>2, <1>4, IndexStays, EndedStays
<1>7. ASSUME NEW d \in Clients, NEW m \in ToSet(serverToBg'[ServerOf[r]][d]), m.row = r
      PROVE  m \in ToSet(serverToBg[ServerOf[r]][d]) \/ Fresh(m, ServerOf[r], d, r)
  <2> DEFINE q == serverToBg[s][c]
             row == Head(bgToServer[c][s]).row
             new == Reply(row, bgClock[s].min, bgVersion[s][c], table[s][row])
  <2>1. serverToBg' = [serverToBg EXCEPT ![s][c] = Append(@, new)]
    BY DEF RowRequestReplied
  <2>2. CASE serverToBg'[ServerOf[r]][d] = serverToBg[ServerOf[r]][d]
    BY <1>7, <2>2
  <2>3. CASE serverToBg'[ServerOf[r]][d] # serverToBg[ServerOf[r]][d]
    <3>1. d = c /\ ServerOf[r] = s /\ serverToBg'[ServerOf[r]][d] = Append(q, new)
      BY <1>0, <2>1, <2>3 DEF TypeOK
    <3>2. IsSeq(q)
      <4>1. q \in Seq(RowReplies(s))
        BY <1>0 DEF TypeOK
      <4> HIDE DEF q
      <4> QED  BY <4>1, SeqParts
    <3>3. m \in ToSet(q) \/ m = new
      <4> HIDE DEF q, new
      <4> QED  BY <1>7, <3>1, <3>2, SetOfAppend
    <3>4. CASE m = new
      BY <1>1, <1>7, <3>1, <3>4 DEF Fresh, Reply
    <3> QED  BY <3>1, <3>3, <3>4
  <2> QED  BY <2>2, <2>3
<1> QED  BY <1>1, <1>2, <1>4, <1>5, <1>6, <1>7, ServerKeepsAccount

\* What a message does to one thread's account of one row.
LEMMA AppliedToRow ==
  ASSUME Inv, Inv', Grows, NEW c \in Clients, NEW s \in Servers, HandleOpLog(s, c),
         NEW t \in Threads, NEW r \in Rows, NEW f \in [Int -> Nat], Account(t, r, f)
  PROVE  /\ table'[ServerOf[r]][r][t] >= table[ServerOf[r]][r][t]
         /\ table'[ServerOf[r]][r][t] = f[bgVersion'[ServerOf[r]][ClientOf[t]]]
         /\ bgClock'[ServerOf[r]].vec[ClientOf[t]] <= clock'[t]
         /\ MadeBefore(t, r, bgClock[ServerOf[r]].vec[ClientOf[t]])' <= table'[ServerOf[r]][r][t]
<1> DEFINE msg == Head(bgToServer[c][s])
<1>0. TypeOK /\ TypeOK' /\ HistoryOK /\ Sent(t, r, f) /\ Ended(t, r, f) /\ Elsewhere(t, r)
  BY DEF Inv, Account
<1>1. PICK a \in Clients, z \in Servers : ClientOf[t] = a /\ ServerOf[r] = z /\ r \in RowsOf(z)
  BY PlacesOf
<1>2. /\ msg \in OpLogsOf(bgToServer[c][s]) /\ msg.version = bgVersion[s][c] + 1
      /\ bgVersion'[z][a] = IF z = s /\ a = c THEN msg.version ELSE bgVersion[z][a]
      /\ bgClock'[z].vec[a] = IF z = s /\ a = c /\ msg.isClock THEN msg.bgClock ELSE bgClock[z].vec[a]
      /\ table'[z][r] = IF z = s THEN ApplyRowOpLog(table[z][r], msg.updates[r]) ELSE table[z][r]
  BY <1>1, OpLogApplied
<1> HIDE DEF msg
<1>3. PICK n \in Nat, v \in Int, k \in Nat : n = table[z][r][t] /\ v = bgVersion[z][a] /\ k = bgClock[z].vec[a]
  BY <1>0, <1>1, NumbersOf
<1>4. /\ n = f[v] /\ k <= clock[t] /\ MadeBefore(t, r, k) <= n
  BY <1>0, <1>1, <1>3 DEF Sent, Ended
<1>5. k <= clock'[t] /\ MadeBefore(t, r, k)' <= n /\ MadeBefore(t, r, k)' \in Nat
  BY <1>0, <1>4, PastStays
<1>6. CASE z = s /\ a = c
  <2>1. PICK u \in Nat : u = msg.updates[r][t]
    BY <1>0, <1>1, <1>2, <1>6, NumbersOfOpLogs
  <2>2. PICK w \in Int : w = msg.version /\ w = v + 1
    BY <1>2, <1>3, <1>6
  <2>3. PICK F \in Nat : F = f[w]
    OBVIOUS
  <2>4. u = F - n
    <3>1. u = f[w] - f[w - 1] /\ w - 1 = v
      BY <1>0, <1>1, <1>2, <1>6, <2>1, <2>2 DEF Sent
    <3> QED  BY <1>4, <2>3, <3>1
  <2>5. table'[z][r][t] = F
    <3>1. table'[z][r][t] = n + u
      BY <1>2, <1>3, <1>6, <2>1 DEF ApplyRowOpLog
    <3> QED  BY <2>4, <3>1
  <2>6. n <= F
    BY <2>1, <2>4
  <2>7. bgVersion'[z][a] = w
    BY <1>2, <1>6, <2>2
  <2>8. CASE msg.isClock
    <3>1. PICK l \in Nat : l = msg.bgClock
      BY <1>0, <1>1, <1>2, <1>6, NumbersOfOpLogs
    <3>2. l <= clock[t] /\ MadeBefore(t, r, l) <= F
      BY <1>0, <1>1, <1>2, <1>6, <2>2, <2>3, <2>8, <3>1 DEF Ended
    <3>3. l <= clock'[t] /\ MadeBefore(t, r, l)' <= F
      BY <1>0, <3>2, PastStays
    <3>4. bgClock'[z].vec[a] = l
      BY <1>2, <1>6, <2>8, <3>1
    <3>5. MadeBefore(t, r, bgClock[z].vec[a])' = MadeBefore(t, r, l)'
      BY <3>4
    <3> QED  BY <1>1, <1>3, <2>3, <2>5, <2>6, <2>7, <3>3, <3>4, <3>5
  <2>9. CASE ~msg.isClock
    <3>1. bgClock'[z].vec[a] = k
      BY <1>2, <1>3, <1>6, <2>9
    <3>2. MadeBefore(t, r, bgClock[z].vec[a])' = MadeBefore(t, r, k)'
      BY <3>1
    <3> QED  BY <1>1, <1>3, <1>5, <2>3, <2>5, <2>6, <2>7, <3>1, <3>2
  <2> QED  BY <2>8, <2>9
<1>7. CASE ~(z = s /\ a = c)
  <2>1. table'[z][r][t] = n
    <3>1. CASE z = s
      <4>1. msg.updates[r][t] = 0
        BY <1>0, <1>1, <1>2, <1>7, <3>1 DEF Elsewhere
      <4> QED  BY <1>2, <1>3, <3>1, <4>1 DEF ApplyRowOpLog
    <3>2. CASE z # s
      BY <1>2, <1>3, <3>2
    <3> QED  BY <3>1, <3>2
  <2>2. bgVersion'[z][a] = v /\ bgClock'[z].vec[a] = k
    BY <1>2, <1>3, <1>7
  <2>3. MadeBefore(t, r, bgClock[z].vec[a])' = MadeBefore(t, r, k)'
    BY <2>2
  <2> QED  BY <1>1, <1>3, <1>4, <1>5, <2>1, <2>2, <2>3
<1> QED  BY <1>6, <1>7

\* Applying an oplog message keeps the account.
LEMMA OpLogKeepsAccounts ==
  ASSUME Inv, Inv', Grows, NEW c \in Clients, NEW s \in Servers, HandleOpLog(s, c),
         NEW t \in Threads, NEW r \in Rows, NEW f \in [Int -> Nat], Account(t, r, f)
  PROVE  Account(t, r, f)'
<1>0. TypeOK /\ TypeOK' /\ Sent(t, r, f) /\ Ended(t, r, f) /\ ClientOf[t] \in Clients /\ ServerOf[r] \in Servers
  BY PlacesOf DEF Inv, Account
<1>1. /\ UNCHANGED <<version, oplog, oplogIndex, cache, mgr, clock, made, threadOplog, closed>>
      /\ \A d \in Clients, z \in Servers : OpLogsOf(bgToServer'[d][z]) \subseteq OpLogsOf(bgToServer[d][z])
  BY OpLogApplied
<1>2. /\ table'[ServerOf[r]][r][t] >= table[ServerOf[r]][r][t]
      /\ table'[ServerOf[r]][r][t] = f[bgVersion'[ServerOf[r]][ClientOf[t]]]
      /\ bgClock'[ServerOf[r]].vec[ClientOf[t]] <= clock'[t]
      /\ MadeBefore(t, r, bgClock[ServerOf[r]].vec[ClientOf[t]])' <= table'[ServerOf[r]][r][t]
  BY AppliedToRow
<1>3. ASSUME NEW d \in Clients
      PROVE  bgVersion'[ServerOf[r]][d] >= bgVersion[ServerOf[r]][d]
  <2>1. bgVersion[ServerOf[r]][d] \in Int
    BY <1>0, NumbersOf
  <2>2. \/ bgVersion'[ServerOf[r]][d] = bgVersion[ServerOf[r]][d]
        \/ bgVersion'[ServerOf[r]][d] = bgVersion[ServerOf[r]][d] + 1
    BY <1>0, OpLogApplied
  <2> QED  BY <2>1, <2>2
<1>4. Sent(t, r, f)'
  BY <1>0, <1>1, <1>2, SentUnmoved
<1>5. Ended(t, r, f)'
  BY <1>0, <1>1, <1>2, IndexStays, EndedFollows
<1>6. \A d \in Clients : \A m \in ToSet(serverToBg'[ServerOf[r]][d]) :
        m.row = r => m \in ToSet(serverToBg[ServerOf[r]][d]) \/ Fresh(m, ServerOf[r], d, r)
  BY <1>0, FreshReplies
<1> QED  BY <1>1, <1>2, <1>3, <1>4, <1>5, <1>6, ServerKeepsAccount

-----------------------------------------------------------------------------
\* Nothing has been shared at the start.
LEMMA InitAccounts == Init => AccountsOK
<1> SUFFICES ASSUME Init, NEW t \in Threads, NEW r \in Rows
             PROVE  \E f \in [Int -> Nat] : Account(t, r, f)
  BY DEF AccountsOK
<1> DEFINE f == [v \in Int |-> 0]
<1>1. ClientOf[t] \in Clients /\ ServerOf[r] \in Servers /\ r \in RowsOf(ServerOf[r])
  BY PlacesOf
<1>2. f \in [Int -> Nat] /\ \A v \in Int : f[v] = 0
  OBVIOUS
<1> HIDE DEF f
<1>3. Sent(t, r, f)
  BY <1>1, <1>2 DEF Init, Start, Sent, Shared, OpLogsOf, ToSet, NoUpdates, Zero, EmptyMgr
<1>4. Elsewhere(t, r)
  BY <1>1 DEF Init, Start, Elsewhere, OpLogsOf, ToSet, NoUpdates, Zero, EmptyMgr
<1>5. Ended(t, r, f)
  BY <1>1, <1>2 DEF Init, Start, Ended, OpLogsOf, ToSet, MadeBefore, StartClock, Zero
<1>6. Replied(t, r, f)
  BY <1>1 DEF Init, Start, Replied, ToSet
<1>7. Cached(t, r)
  BY DEF Init, Start, Cached, NotCached
<1>8. Account(t, r, f)
  BY <1>3, <1>4, <1>5, <1>6, <1>7 DEF Account
<1> QED  BY <1>2, <1>8

\* Every step keeps all accounts.
LEMMA StepKeepsAccounts == Inv /\ AccountsOK /\ [Next]_vars => AccountsOK'
<1> SUFFICES ASSUME Inv, AccountsOK, [Next]_vars, NEW t \in Threads, NEW r \in Rows
             PROVE  \E g \in [Int -> Nat] : Account(t, r, g)'
  BY DEF AccountsOK
<1>1. PICK f \in [Int -> Nat] : Account(t, r, f)
  BY DEF AccountsOK
<1>2. Inv' /\ Grows
  BY StepKeepsInv, StepKeepsHistory DEF Inv
<1>3. ASSUME NEW u \in Threads, ThreadNext(u) PROVE \E g \in [Int -> Nat] : Account(t, r, g)'
  <2>1. Account(t, r, f)'
    BY <1>1, <1>2, <1>3, ThreadKeepsAccounts
  <2> QED  BY <2>1
<1>4. ASSUME NEW c \in Clients, BgNext(c) PROVE \E g \in [Int -> Nat] : Account(t, r, g)'
  BY <1>1, <1>2, <1>4, BgKeepsAccounts
<1>5. ASSUME NEW s \in Servers, ServerNext(s) PROVE \E g \in [Int -> Nat] : Account(t, r, g)'
  <2>1. Account(t, r, f)'
    BY <1>1, <1>2, <1>5, BufferedKeepsAccounts, RepliedKeepsAccounts, OpLogKeepsAccounts DEF ServerNext
  <2> QED  BY <2>1
<1>6. CASE UNCHANGED vars
  <2>1. UNCHANGED <<table, bgVersion, bgClock, version, oplog, cache, mgr, bgToServer, serverToBg,
                    made, threadOplog, clock, oplogIndex>>
    BY <1>6 DEF vars, threadVars, tableVars, clientVars, bgVars, serverVars, channelVars, ghostVars
  <2>2. Shared(t, r)' = Shared(t, r)
    BY <2>1 DEF Shared
  <2>3. TypeOK /\ Ended(t, r, f)
    BY <1>1 DEF Inv, Account
  <2>4. Account(t, r, f)'
    BY <1>1, <1>2, <2>1, <2>2, <2>3, NothingShared, IndexStays, QuietKeeps
  <2> QED  BY <2>4
<1> QED  BY <1>3, <1>4, <1>5, <1>6 DEF Next

\* There always is an account of every thread and row.
LEMMA AccountsHold == Spec => []AccountsOK
<1> QED  BY InitAccounts, StepKeepsAccounts, InvHolds, PTL DEF Spec

-----------------------------------------------------------------------------
(* The messages of a channel.                                              *)

Reached(num, i, v) == \A j \in DOMAIN num : j <= i <=> num[j] <= v

\* The next message of a run carries the next version, or none.
LEMMA NextReached ==
  ASSUME NEW n \in Nat, NEW num, NEW low \in Int, NEW high \in Int, Consecutive(num, low, high),
         DOMAIN num \subseteq 1 .. n, NEW i \in 1 .. n, NEW v \in low .. high, Reached(num, i - 1, v)
  PROVE  IF i \in DOMAIN num THEN num[i] = v + 1 /\ v + 1 \in low .. high /\ Reached(num, i, v + 1)
         ELSE Reached(num, i, v)
<1> USE DEF Consecutive, Reached
<1>0. \A j \in DOMAIN num : j \in Nat /\ num[j] \in low + 1 .. high
  OBVIOUS
<1>1. CASE i \notin DOMAIN num
  BY <1>0, <1>1
<1>2. CASE i \in DOMAIN num
  <2>1. num[i] > v /\ num[i] \in Int
    BY <1>0, <1>2
  <2>2. v + 1 \in low + 1 .. high
    BY <1>0, <1>2, <2>1
  <2>3. PICK j \in DOMAIN num : num[j] = v + 1
    BY <2>2
  <2>4. i <= j
    BY <1>0, <2>3
  <2>5. j = i
    <3>1. i < j => num[i] < num[j]
      BY <1>2
    <3> QED  BY <1>0, <2>1, <2>3, <2>4, <3>1
  <2>6. num[i] = v + 1
    BY <2>3, <2>5
  <2>7. ASSUME NEW k \in DOMAIN num PROVE k <= i <=> num[k] <= v + 1
    <3>0. k \in Nat /\ num[k] \in Int
      BY <1>0
    <3>1. CASE k < i
      <4>1. num[k] <= v
        BY <3>0, <3>1
      <4> QED  BY <3>0, <3>1, <4>1
    <3>2. CASE k = i
      BY <2>6, <3>2
    <3>3. CASE k > i
      <4>1. num[i] < num[k]
        BY <1>2, <3>3
      <4> QED  BY <2>6, <3>0, <3>3, <4>1
    <3> QED  BY <3>0, <3>1, <3>2, <3>3
  <2> QED  BY <1>2, <2>2, <2>6, <2>7
<1> QED  BY <1>1, <1>2

\* Each message F carries what was sent in its version.
Carries(F, num, f, n) ==
  \A i \in 1 .. n : F[i] = IF i \in DOMAIN num THEN f[num[i]] - f[num[i] - 1] ELSE 0

Together(F, n, f, low, high) == SumFunctionOnSet(F, 1 .. n) = f[high] - f[low]

\* Those of consecutive versions hold what was sent from low to high.
LEMMA MessagesAddUp ==
  ASSUME NEW n \in Nat, NEW num, NEW F, NEW f \in [Int -> Nat], NEW low \in Int, NEW high \in Int,
         Consecutive(num, low, high), DOMAIN num \subseteq 1 .. n, Carries(F, num, f, n)
  PROVE  Together(F, n, f, low, high)
<1> DEFINE Sum(i) == SumFunctionOnSet(F, 1 .. i)
           good(i) == \E v \in low .. high : Sum(i) = f[v] - f[low] /\ Reached(num, i, v)
           Bad == {i \in Nat : i <= n /\ ~ good(i)}
<1>0. low <= high /\ \A i \in DOMAIN num : i \in Nat /\ num[i] \in low + 1 .. high
  BY DEF Consecutive
<1>1. good(0)
  <2>1. Sum(0) = 0
    <3>1. 1 .. 0 = {}
      OBVIOUS
    <3> QED  BY <3>1, SumOfNone
  <2>2. Reached(num, 0, low)
    <3> SUFFICES ASSUME NEW j \in DOMAIN num PROVE ~(j <= 0) /\ ~(num[j] <= low)
      BY DEF Reached
    <3>1. j \in 1 .. n /\ num[j] \in low + 1 .. high
      BY <1>0
    <3> QED  BY <3>1
  <2>3. f[low] \in Nat /\ low \in low .. high
    BY <1>0
  <2>4. Sum(0) = f[low] - f[low]
    BY <2>1, <2>3
  <2> QED  BY <2>2, <2>3, <2>4
<1>2. ASSUME NEW i \in 1 .. n, good(i - 1) PROVE good(i)
  <2>1. PICK v \in low .. high : Sum(i - 1) = f[v] - f[low] /\ Reached(num, i - 1, v)
    BY <1>2
  <2>2. IF i \in DOMAIN num THEN num[i] = v + 1 /\ v + 1 \in low .. high /\ Reached(num, i, v + 1)
        ELSE Reached(num, i, v)
    BY <2>1, NextReached
  <2>3. \A x \in 1 .. i : F[x] \in Int
    <3> SUFFICES ASSUME NEW x \in 1 .. n PROVE F[x] \in Int
      OBVIOUS
    <3>1. CASE x \in DOMAIN num
      <4>1. num[x] \in Int /\ num[x] - 1 \in Int
        BY <1>0, <3>1
      <4>2. f[num[x]] \in Nat /\ f[num[x] - 1] \in Nat
        BY <4>1
      <4>3. F[x] = f[num[x]] - f[num[x] - 1]
        BY <3>1 DEF Carries
      <4> QED  BY <4>2, <4>3
    <3> QED  BY <3>1 DEF Carries
  <2>4. Sum(i) = F[i] + Sum(i - 1)
    <3>1. 1 \in Int /\ i \in Int /\ 1 <= i
      OBVIOUS
    <3> QED  BY <2>3, <3>1, SumTakesLast
  <2> HIDE DEF Sum
  <2>5. f[v] \in Nat /\ f[low] \in Nat /\ f[v + 1] \in Nat
    OBVIOUS
  <2>6. CASE i \in DOMAIN num
    <3>1. F[i] = f[v + 1] - f[v]
      BY <2>2, <2>6 DEF Carries
    <3>2. Sum(i) = f[v + 1] - f[low]
      BY <2>1, <2>4, <2>5, <3>1
    <3> QED  BY <2>2, <2>6, <3>2
  <2>7. CASE i \notin DOMAIN num
    <3>1. F[i] = 0
      BY <2>7 DEF Carries
    <3>2. Sum(i) = f[v] - f[low]
      BY <2>1, <2>4, <2>5, <3>1
    <3> QED  BY <2>2, <2>7, <3>2
  <2> QED  BY <2>6, <2>7
<1>3. good(n)
  <2> HIDE DEF good
  <2> SUFFICES ASSUME ~ good(n) PROVE FALSE
    OBVIOUS
  <2>1. PICK i \in Bad : \A j \in Bad : i <= j
    <3>1. Bad \in SUBSET Nat /\ Bad # {}
      OBVIOUS
    <3> HIDE DEF Bad
    <3> QED  BY <3>1, NatHasLeast
  <2>2. i \in 1 .. n
    BY <1>1, <2>1
  <2>3. good(i - 1)
    <3>1. i - 1 \in Nat /\ i - 1 <= n /\ ~(i <= i - 1)
      BY <2>2
    <3> QED  BY <2>1, <3>1
  <2> QED  BY <1>2, <2>1, <2>2, <2>3
<1>4. PICK v \in low .. high : Sum(n) = f[v] - f[low] /\ Reached(num, n, v)
  BY <1>3
<1>5. v = high
  <2> SUFFICES ASSUME v < high PROVE FALSE
    OBVIOUS
  <2>1. high \in low + 1 .. high
    OBVIOUS
  <2>2. PICK j \in DOMAIN num : num[j] = high
    BY <2>1 DEF Consecutive
  <2>3. j <= n
    OBVIOUS
  <2> QED  BY <1>4, <2>2, <2>3 DEF Reached
<1> QED  BY <1>4, <1>5 DEF Together

-----------------------------------------------------------------------------
\* An account has every update in one place.
LEMMA AccountsConserve == Inv /\ AccountsOK => UpdatesConserved
<1> SUFFICES ASSUME Inv, AccountsOK, NEW t \in Threads, NEW r \in Rows
             PROVE  LET ch == bgToServer[ClientOf[t]][ServerOf[r]]
                        inFlight == [i \in DOMAIN ch |-> IF ch[i].type = "OpLog" THEN ch[i].updates[r][t] ELSE 0]
                    IN  Shared(t, r) = table[ServerOf[r]][r][t] + oplog[ClientOf[t]][r][t] + SumFunction(inFlight)
  BY DEF UpdatesConserved
<1>0. TypeOK /\ IInv
  BY DEF Inv
<1>1. PICK c \in Clients, s \in Servers : ClientOf[t] = c /\ ServerOf[r] = s
  BY PlacesOf
<1>2. PICK f \in [Int -> Nat] : Sent(t, r, f)
  BY DEF AccountsOK, Account
<1> DEFINE ch == bgToServer[c][s]
           inFlight == [i \in DOMAIN ch |-> IF ch[i].type = "OpLog" THEN ch[i].updates[r][t] ELSE 0]
           num == Versions(ch)
<1>3. PICK low \in Int, high \in Int :
        low = bgVersion[s][c] /\ high = version[c] - 1 /\ Consecutive(num, low, high)
  <2>1. bgVersion[s][c] \in Int /\ version[c] - 1 \in Int
    BY <1>0, <1>1, NumbersOf
  <2> QED  BY <1>0, <2>1 DEF IInv, MessagesInSequence
<1>4. PICK n \in Nat : DOMAIN ch = 1 .. n
  <2>1. ch \in Seq(ToServer(s))
    BY <1>0 DEF TypeOK, ServersOK
  <2> HIDE DEF ch
  <2> QED  BY <2>1, SeqParts
<1>5. DOMAIN num \subseteq 1 .. n
  BY <1>4 DEF Versions
<1>6. ASSUME NEW i \in 1 .. n
      PROVE  inFlight[i] = IF i \in DOMAIN num THEN f[num[i]] - f[num[i] - 1] ELSE 0
  <2>1. i \in DOMAIN num <=> ch[i].type = "OpLog"
    BY <1>4 DEF Versions
  <2>2. CASE ch[i].type = "OpLog"
    <3>1. ch[i] \in OpLogsOf(ch)
      BY <1>4, <2>2 DEF OpLogsOf, ToSet
    <3>2. ch[i].updates[r][t] = f[ch[i].version] - f[ch[i].version - 1]
      BY <1>1, <1>2, <3>1 DEF Sent
    <3>3. num[i] = ch[i].version
      BY <1>4, <2>2 DEF Versions
    <3> QED  BY <1>4, <2>1, <2>2, <3>2, <3>3
  <2>3. CASE ch[i].type # "OpLog"
    BY <1>4, <2>1, <2>3
  <2> QED  BY <2>2, <2>3
<1>7. SumFunctionOnSet(inFlight, 1 .. n) = f[high] - f[low]
  <2>1. Carries(inFlight, num, f, n)
    BY <1>6 DEF Carries
  <2> HIDE DEF inFlight, num
  <2>2. Together(inFlight, n, f, low, high)
    BY <1>3, <1>5, <2>1, MessagesAddUp
  <2> QED  BY <2>2 DEF Together
<1>8. SumFunction(inFlight) = f[high] - f[low]
  BY <1>4, <1>7 DEF SumFunction
<1> HIDE DEF inFlight
<1>9. /\ table[s][r][t] = f[low] /\ Shared(t, r) = f[high] + oplog[c][r][t]
      /\ oplog[c][r][t] \in Nat /\ f[low] \in Nat /\ f[high] \in Nat
  BY <1>0, <1>1, <1>2, <1>3, NumbersOf DEF Sent
<1>10. Shared(t, r) = table[s][r][t] + oplog[c][r][t] + SumFunction(inFlight)
  BY <1>8, <1>9
<1> QED  BY <1>1, <1>10 DEF inFlight

\* The increments a thread has shared (SSPConsistencyController::Inc, BatchInc,
\* and FlushThreadCache) are, at every moment and to the last one, in the
\* server's row, in the process' oplog, or in oplog messages between the two:
\* none is lost when ShouldSendOpLog drains the oplog while other threads
\* increment, and none is applied twice.
THEOREM NoUpdateIsLost == Spec => []UpdatesConserved
BY AccountsHold, InvHolds, AccountsConserve, PTL

\* An account bounds what a cached row shows from both sides.
LEMMA AccountsCache == Inv /\ AccountsOK => OwnUpdatesOnce /\ CachedRowsAsFreshAsTheirClock
<1> SUFFICES ASSUME Inv, AccountsOK, NEW c \in Clients, NEW r \in CachedRows(c), NEW t \in Threads
             PROVE  /\ t \in ThreadsOf(c) => cache[c][r].data[t] = Shared(t, r)
                    /\ cache[c][r].clock <= clock[t]
                    /\ MadeBefore(t, r, cache[c][r].clock) <= cache[c][r].data[t]
  BY DEF OwnUpdatesOnce, CachedRowsAsFreshAsTheirClock, ThreadsOf
<1>1. r \in Rows /\ cache[c][r].clock >= 0
  BY DEF CachedRows
<1>2. FairRow(t, r, c, cache[c][r].clock, cache[c][r].data[t])
  BY <1>1 DEF AccountsOK, Account, Cached
<1> QED  BY <1>2 DEF FairRow, ThreadsOf

\* A cached row shows its process' own updates exactly once: those it had when
\* a reply was on its way, which HandleServerRowRequestReply adds again from
\* the oplogs it kept, and those still in the process' oplog.
THEOREM EveryThreadSeesItsUpdatesOnce == Spec => []OwnUpdatesOnce
BY AccountsHold, InvHolds, AccountsCache, PTL

\* A row that is cached with a clock shows every update that any thread made
\* before that clock, although the clocks of the servers, the workers and the
\* threads advance by different messages.
THEOREM RowsAreAsFreshAsTheirClock == Spec => []CachedRowsAsFreshAsTheirClock
BY AccountsHold, InvHolds, AccountsCache, PTL

-----------------------------------------------------------------------------
(* Replies and cached rows, in order.                                      *)

\* A row, as a reply or a cache holds it: its clock and its data.
IsRow(a) == a.clock \in Int /\ \A t \in Threads : a.data[t] \in Int

\* What process c learns of other processes' updates does not go back from row
\* a to row b.
Later(c, a, b) ==
  a.clock <= b.clock /\ \A t \in Threads : ClientOf[t] # c => a.data[t] <= b.data[t]

Alike(c, a, b) == Later(c, a, b) /\ Later(c, b, a)

\* The replies in q for row r come in order, after the cached row and before
\* what the server holds.
Ordered(c, r, q, row, server) ==
  /\ \A i \in DOMAIN q : q[i].row = r =>
       /\ Later(c, q[i], server)
       /\ \A j \in DOMAIN q : i < j /\ q[j].row = r => Later(c, q[i], q[j])
  /\ row.clock >= 0 => /\ Later(c, row, server)
                       /\ \A i \in DOMAIN q : q[i].row = r => Later(c, row, q[i])

\* Nothing that a process still gets, or has, of row r is older than clock k.
AsNew(r, q, row, server, k) ==
  /\ k <= server.clock
  /\ \A i \in DOMAIN q : q[i].row = r => k <= q[i].clock
  /\ row.clock >= 0 => k <= row.clock

\* What the server would reply now.
AtServer(r) == [clock |-> bgClock[ServerOf[r]].min, data |-> table[ServerOf[r]][r]]

InOrder(c, r) == Ordered(c, r, serverToBg[ServerOf[r]][c], cache[c][r], AtServer(r))

Recent(c, r, k) == AsNew(r, serverToBg[ServerOf[r]][c], cache[c][r], AtServer(r), k)

RepliesInOrder == \A c \in Clients, r \in Rows : InOrder(c, r)

\* A thread that has been woken finds no row that is older than it wants.
WokenThreads ==
  \A t \in Threads : pc[t] = "woken" => Recent(ClientOf[t], want[t].row, want[t].clock)

FreshOK == RepliesInOrder /\ WokenThreads

-----------------------------------------------------------------------------
\* No server goes back.
LEMMA ServersAdvance ==
  ASSUME Inv, Inv', Grows, AccountsOK, [Next]_vars, NEW r \in Rows
  PROVE  /\ bgClock[ServerOf[r]].min \in Nat /\ bgClock'[ServerOf[r]].min \in Nat
         /\ bgClock[ServerOf[r]].min <= bgClock'[ServerOf[r]].min
         /\ \A t \in Threads : /\ table[ServerOf[r]][r][t] \in Nat /\ table'[ServerOf[r]][r][t] \in Nat
                               /\ table[ServerOf[r]][r][t] <= table'[ServerOf[r]][r][t]
<1>0. TypeOK /\ TypeOK' /\ ServersOK /\ ServersOK' /\ IInv
  BY DEF Inv, TypeOK
<1>1. PICK z \in Servers : ServerOf[r] = z
  BY ServersAssumption
<1>2. bgClock[z] \in VectorClocks(Clients) /\ bgClock'[z] \in VectorClocks(Clients) /\ IsMinimum(bgClock[z])
  BY <1>0 DEF ServersOK, IInv, ServerClocksExact
<1>3. bgClock[z].min \in Nat /\ bgClock'[z].min \in Nat
  BY <1>2 DEF VectorClocks
<1>4. \A t \in Threads : table[z][r][t] \in Nat /\ table'[z][r][t] \in Nat
  BY <1>0, <1>1, NumbersOf, NumbersNext, ThreadsAssumption
<1>5. CASE UNCHANGED <<bgClock, table>>
  BY <1>1, <1>3, <1>4, <1>5
<1>6. ASSUME NEW c \in Clients, NEW s \in Servers, HandleOpLog(s, c)
      PROVE  bgClock[z].min <= bgClock'[z].min /\ \A t \in Threads : table[z][r][t] <= table'[z][r][t]
  <2>1. \A t \in Threads : table[z][r][t] <= table'[z][r][t]
    <3> SUFFICES ASSUME NEW t \in Threads PROVE table[z][r][t] <= table'[z][r][t]
      OBVIOUS
    <3>1. PICK f \in [Int -> Nat] : Account(t, r, f)
      BY DEF AccountsOK
    <3>2. table'[z][r][t] >= table[z][r][t]
      BY <1>1, <1>6, <3>1, AppliedToRow
    <3> QED  BY <1>4, <3>2
  <2>2. bgClock[z].min <= bgClock'[z].min
    <3> DEFINE q == bgToServer[c][s]
               msg == Head(q)
    <3>1. /\ bgClock' = [bgClock EXCEPT ![s] = ClockUntil(s, c, msg)] /\ q # << >> /\ msg.type = "OpLog"
      BY <1>6 DEF HandleOpLog, NextFromBg
    <3>2. CASE z = s /\ msg.isClock
      <4>1. IsSeq(q) /\ Consecutive(Clocks(q), bgClock[s].vec[c], clientClock[c])
        BY <1>0 DEF IInv, Shapes, MessagesInSequence
      <4>2. bgClock[s].vec[c] \in Int /\ clientClock[c] \in Int
        BY <1>0, <1>2, <3>2 DEF VectorClocks, ClientsOK, TypeOK
      <4>3. msg.bgClock = bgClock[s].vec[c] + 1
        <5> HIDE DEF q
        <5> QED  BY <3>1, <3>2, <4>1, <4>2, ReceiveClock
      <4>4. bgClock'[z] = TickUntil(bgClock[s], c, bgClock[s].vec[c] + 1)
        BY <1>0, <3>1, <3>2, <4>3 DEF ClockUntil, ServersOK
      <4>5. bgClock'[z].min = bgClock[z].min \/ bgClock'[z].min = bgClock[z].min + 1
        BY <1>2, <3>2, <4>4, NextClock
      <4> QED  BY <1>3, <4>5
    <3>3. CASE ~(z = s /\ msg.isClock)
      <4>1. bgClock'[z] = bgClock[z]
        BY <1>0, <3>1, <3>3 DEF ClockUntil, ServersOK
      <4> QED  BY <1>3, <4>1
    <3> QED  BY <3>2, <3>3
  <2> QED  BY <2>1, <2>2
<1>7. ASSUME NEW t \in Threads, ThreadNext(t) PROVE UNCHANGED serverVars
  <2>1. CASE \E x \in Rows : Inc(t, x) \/ ThreadInc(t, x) \/ FlushRow(t, x)
    BY <2>1 DEF Inc, ThreadInc, FlushRow
  <2>2. CASE \E x \in Rows, b \in BOOLEAN : GetCached(t, x) \/ ThreadGetCached(t, x) \/ RequestAndWait(t, x, b)
    BY <2>2 DEF GetCached, ThreadGetCached, RequestAndWait
  <2>3. CASE GetReturn(t) \/ ThreadGetReturn(t) \/ GetAgain(t) \/ GetAbort(t)
    BY <2>3 DEF GetReturn, ThreadGetReturn, GetAgain, GetAbort
  <2>4. CASE FlushThreadCache(t) \/ Clock(t) \/ TickThread(t) \/ TellBg(t)
    BY <2>4 DEF FlushThreadCache, Clock, TickThread, TellBg
  <2> QED  BY <1>7, <2>1, <2>2, <2>3, <2>4 DEF ThreadNext, GetRequest, ThreadGetRequest
<1>8. CASE \E c \in Clients : BgNext(c)
  BY ZenonT(40), <1>5, <1>8 DEF BgNext, RowRequestAnswered, RowRequestForwarded, HandleBgClock, HandleBgSendOpLog,
       HandleReply, HandleReplyAbort, serverVars
<1>9. CASE \E s \in Servers : ServerNext(s)
  <2>1. CASE \E s \in Servers, c \in Clients : RowRequestBuffered(s, c) \/ RowRequestReplied(s, c)
    BY <1>5, <2>1 DEF RowRequestBuffered, RowRequestReplied, serverVars
  <2> QED  BY <1>1, <1>3, <1>4, <1>6, <1>9, <2>1 DEF ServerNext
<1>10. CASE UNCHANGED vars
  BY <1>5, <1>10 DEF vars, serverVars
<1> QED  BY <1>5, <1>7, <1>8, <1>9, <1>10 DEF Next, serverVars

\* A queue of replies, to which fresh ones may be added.
Joined(z, d) ==
  LET q == serverToBg[z][d]
      p == serverToBg'[z][d]
  IN  /\ DOMAIN q \subseteq DOMAIN p
      /\ \A i \in DOMAIN p : /\ i \in Nat
                             /\ IF i \in DOMAIN q THEN p[i] = q[i]
                                ELSE (\A j \in DOMAIN q : j < i) /\ Fresh(p[i], z, d, p[i].row)

\* A queue of replies is a sequence of replies.
LEMMA QueueOfReplies ==
  ASSUME TypeOK, NEW z \in Servers, NEW d \in Clients
  PROVE  /\ serverToBg[z][d] \in Seq(RowReplies(z)) /\ IsSeq(serverToBg[z][d])
         /\ Len(serverToBg[z][d]) \in Nat /\ DOMAIN serverToBg[z][d] = 1 .. Len(serverToBg[z][d])
         /\ \A i \in DOMAIN serverToBg[z][d] : serverToBg[z][d][i] \in RowReplies(z)
<1> DEFINE q == serverToBg[z][d]
<1>1. q \in Seq(RowReplies(z))
  BY DEF TypeOK
<1> HIDE DEF q
<1>2. IsSeq(q) /\ Len(q) \in Nat /\ DOMAIN q = 1 .. Len(q) /\ \A i \in 1 .. Len(q) : q[i] \in RowReplies(z)
  BY <1>1, SeqParts
<1> QED  BY <1>1, <1>2 DEF q

\* A queue that does not change.
LEMMA NothingJoins ==
  ASSUME TypeOK, NEW z \in Servers, NEW d \in Clients, serverToBg'[z][d] = serverToBg[z][d]
  PROVE  Joined(z, d)
BY QueueOfReplies DEF Joined

\* ServerThread::HandleRowRequest adds one reply.
LEMMA OneJoins ==
  ASSUME Inv, NEW c \in Clients, NEW s \in Servers, RowRequestReplied(s, c), NEW z \in Servers, NEW d \in Clients
  PROVE  Joined(z, d)
<1> DEFINE q == serverToBg[s][c]
           row == Head(bgToServer[c][s]).row
           new == Reply(row, bgClock[s].min, bgVersion[s][c], table[s][row])
<1>0. TypeOK
  BY DEF Inv
<1>1. serverToBg' = [serverToBg EXCEPT ![s][c] = Append(@, new)] /\ UNCHANGED <<bgClock, bgVersion, table>>
  BY DEF RowRequestReplied, serverVars
<1>2. CASE ~(z = s /\ d = c)
  <2>1. serverToBg'[z][d] = serverToBg[z][d]
    BY <1>0, <1>1, <1>2 DEF TypeOK
  <2> QED  BY <1>0, <2>1, NothingJoins
<1>3. CASE z = s /\ d = c
  <2>1. serverToBg'[z][d] = Append(q, new)
    BY <1>0, <1>1, <1>3 DEF TypeOK
  <2>2. IsSeq(q)
    BY <1>0, QueueOfReplies
  <2>3. Fresh(new, z, d, new.row)
    BY <1>1, <1>3 DEF Fresh, Reply
  <2>4. serverToBg[z][d] = q
    BY <1>3
  <2> HIDE DEF q, new
  <2>5. /\ Len(q) \in Nat /\ DOMAIN q = 1 .. Len(q) /\ DOMAIN Append(q, new) = 1 .. Len(q) + 1
        /\ \A i \in 1 .. Len(q) : Append(q, new)[i] = q[i]
        /\ Append(q, new)[Len(q) + 1] = new
    BY <2>2, AppendToSeq
  <2> QED  BY <2>1, <2>3, <2>4, <2>5 DEF Joined
<1> QED  BY <1>2, <1>3

\* ServerThread::HandleOpLogMsg adds the replies to fulfilled requests.
LEMMA ManyJoin ==
  ASSUME Inv, Inv', NEW c \in Clients, NEW s \in Servers, HandleOpLog(s, c), NEW z \in Servers, NEW d \in Clients
  PROVE  Joined(z, d)
<1> DEFINE msg == Head(bgToServer[c][s])
           k == ClockUntil(s, c, msg).min
           p == FulfilledReplies(s, k, d)
<1>0. TypeOK /\ TypeOK' /\ ServersOK /\ ServersOK'
  BY DEF Inv, TypeOK
<1>1. /\ bgClock' = [bgClock EXCEPT ![s] = ClockUntil(s, c, msg)]
      /\ \/ serverToBg' = serverToBg
         \/ serverToBg' = [serverToBg EXCEPT ![s] = [e \in Clients |-> @[e] \o FulfilledReplies(s, k, e)]]
  BY DEF HandleOpLog
<1>2. CASE serverToBg'[z][d] = serverToBg[z][d]
  BY <1>0, <1>2, NothingJoins
<1>3. CASE serverToBg'[z][d] # serverToBg[z][d]
  <2>1. z = s /\ serverToBg'[z][d] = serverToBg[s][d] \o p
    BY <1>0, <1>1, <1>3 DEF TypeOK
  <2>2. k = bgClock'[s].min
    BY <1>0, <1>1 DEF ServersOK
  <2>3. k \in 0 .. MaxClock /\ k \in Nat
    BY <2>2, ServersAreBoundedNext DEF MinimaBounded
  <2>4. FulfilledRowRequests(s, k, d) \in Seq(RowsOf(s))
    <3>1. rowRequests[s] \in [0 .. MaxClock -> [Clients -> Seq(RowsOf(s))]]
      BY <1>0 DEF ServersOK
    <3>2. rowRequests[s][k] \in [Clients -> Seq(RowsOf(s))]
      BY <2>3, <3>1
    <3> QED  BY <3>2 DEF FulfilledRowRequests
  <2>5. p \in Seq(RowReplies(s)) /\ serverToBg[s][d] \in Seq(RowReplies(s))
    BY <1>0, <2>3, <2>4, FulfilledTypes DEF TypeOK
  <2> HIDE DEF k
  <2>6. ASSUME NEW i \in DOMAIN p
        PROVE  Fresh(p[i], s, d, p[i].row)
    BY <2>2, <2>6 DEF FulfilledReplies, Reply, Fresh
  <2> DEFINE q == serverToBg[s][d]
  <2> HIDE DEF p
  <2>7. /\ Len(q) \in Nat /\ DOMAIN q = 1 .. Len(q) /\ Len(p) \in Nat /\ DOMAIN p = 1 .. Len(p)
        /\ DOMAIN (q \o p) = 1 .. Len(q) + Len(p)
        /\ \A i \in 1 .. Len(q) : (q \o p)[i] = q[i]
        /\ \A i \in Len(q) + 1 .. Len(q) + Len(p) : (q \o p)[i] = p[i - Len(q)]
    BY <2>5, ConcatProperties, LenProperties
  <2>8. ASSUME NEW i \in 1 .. Len(q) + Len(p), i \notin 1 .. Len(q)
        PROVE  Fresh((q \o p)[i], s, d, (q \o p)[i].row)
    <3>1. i \in Len(q) + 1 .. Len(q) + Len(p) /\ i - Len(q) \in DOMAIN p
      BY <2>7, <2>8
    <3> QED  BY <2>6, <2>7, <3>1
  <2> QED  BY <2>1, <2>7, <2>8 DEF Joined
<1> QED  BY <1>2, <1>3

-----------------------------------------------------------------------------
\* Queue p of replies for row r is queue q without its first n replies, with
\* replies b behind it.
Follows(r, q, p, b, n) ==
  \A i \in DOMAIN p : p[i].row = r =>
    IF i + n \in DOMAIN q THEN p[i] = q[i + n]
    ELSE (\A j \in DOMAIN q : j < i + n) /\ p[i].clock = b.clock /\ p[i].data = b.data

\* The cached row is what it was, or comes from one of the first n replies.
From(c, r, q, row, new, n) ==
  new.clock >= 0 => \/ row.clock >= 0 /\ Alike(c, new, row)
                    \/ \E i \in DOMAIN q : i <= n /\ q[i].row = r /\ Alike(c, new, q[i])

AllRows(q) == \A i \in DOMAIN q : i \in Nat /\ IsRow(q[i])

\* Later is transitive.
LEMMA LaterIsTransitive ==
  ASSUME NEW c, NEW x, NEW y, NEW z, IsRow(x), IsRow(y), IsRow(z), Later(c, x, y), Later(c, y, z)
  PROVE  Later(c, x, z)
<1>1. x.clock <= z.clock
  BY DEF IsRow, Later
<1>2. ASSUME NEW t \in Threads, ClientOf[t] # c PROVE x.data[t] <= z.data[t]
  BY <1>2 DEF IsRow, Later
<1> QED  BY <1>1, <1>2 DEF Later

\* A row is no later than one with the same contents.
LEMMA LaterIsReflexive ==
  ASSUME NEW c, NEW x, NEW y, IsRow(y), x.clock = y.clock, x.data = y.data
  PROVE  Later(c, x, y)
<1>1. \A t \in Threads : x.data[t] = y.data[t] /\ y.data[t] \in Int
  BY DEF IsRow
<1> QED  BY <1>1 DEF IsRow, Later

\* Order, and how new rows are, survive the arrival of what the server holds
\* and the caching of what has arrived.
LEMMA OrderFollows ==
  ASSUME NEW c, NEW r, NEW q, NEW p, NEW a, NEW b, NEW row, NEW new, NEW n \in Nat,
         AllRows(q), AllRows(p), IsRow(a), IsRow(b), IsRow(row), IsRow(new), Later(c, a, b),
         Ordered(c, r, q, row, a), Follows(r, q, p, b, n), From(c, r, q, row, new, n)
  PROVE  /\ Ordered(c, r, p, new, b)
         /\ row.clock >= 0 /\ new.clock >= 0 => Later(c, row, new)
         /\ \A k \in Int : AsNew(r, q, row, a, k) => AsNew(r, p, new, b, k)
<1>1. ASSUME NEW x, IsRow(x), Later(c, x, a),
             NEW i \in DOMAIN p, p[i].row = r,
             \A j \in DOMAIN q : j = i + n => Later(c, x, q[j])
      PROVE  Later(c, x, p[i])
  <2>1. CASE i + n \in DOMAIN q
    BY <1>1, <2>1 DEF Follows
  <2>2. CASE i + n \notin DOMAIN q
    <3>1. Later(c, x, b)
      BY <1>1, LaterIsTransitive
    <3>2. p[i].clock = b.clock /\ p[i].data = b.data
      BY <1>1, <2>2 DEF Follows
    <3> QED  BY <3>1, <3>2 DEF Later
  <2> QED  BY <2>1, <2>2
<1>2. ASSUME NEW i \in DOMAIN p, p[i].row = r PROVE Later(c, p[i], b)
  <2>1. CASE i + n \in DOMAIN q
    <3>1. p[i] = q[i + n] /\ Later(c, q[i + n], a)
      BY <1>2, <2>1 DEF Follows, Ordered
    <3> QED  BY <1>2, <3>1, LaterIsTransitive DEF AllRows
  <2>2. CASE i + n \notin DOMAIN q
    BY <1>2, <2>2, LaterIsReflexive DEF Follows
  <2> QED  BY <2>1, <2>2
<1>3. ASSUME NEW i \in DOMAIN p, p[i].row = r, NEW j \in DOMAIN p, i < j, p[j].row = r
      PROVE  Later(c, p[i], p[j])
  <2>1. CASE i + n \in DOMAIN q
    <3>1. p[i] = q[i + n] /\ q[i + n].row = r /\ Later(c, q[i + n], a) /\ IsRow(q[i + n])
      BY <1>3, <2>1 DEF Follows, Ordered, AllRows
    <3>2. i + n < j + n
      BY <1>3 DEF AllRows
    <3>3. CASE j + n \in DOMAIN q
      <4>1. p[j] = q[j + n] /\ q[j + n].row = r
        BY <1>3, <3>3 DEF Follows
      <4> QED  BY <2>1, <3>1, <3>2, <3>3, <4>1 DEF Ordered
    <3>4. CASE j + n \notin DOMAIN q
      BY <1>1, <1>3, <3>1, <3>4
    <3> QED  BY <3>3, <3>4
  <2>2. CASE i + n \notin DOMAIN q
    <3>1. p[i].clock = b.clock /\ p[i].data = b.data /\ \A l \in DOMAIN q : l < i + n
      BY <1>3, <2>2 DEF Follows
    <3>2. j + n \notin DOMAIN q
      <4>1. i \in Nat /\ j \in Nat
        BY DEF AllRows
      <4> QED  BY <1>3, <3>1, <4>1
    <3>3. p[j].clock = b.clock /\ p[j].data = b.data
      BY <1>3, <3>2 DEF Follows
    <3> QED  BY <3>1, <3>3, LaterIsReflexive DEF AllRows
  <2> QED  BY <2>1, <2>2
<1>4. ASSUME new.clock >= 0
      PROVE  Later(c, new, b) /\ \A i \in DOMAIN p : p[i].row = r => Later(c, new, p[i])
  <2>1. PICK x : /\ IsRow(x) /\ Alike(c, new, x) /\ Later(c, x, a)
                 /\ \A i \in DOMAIN p, j \in DOMAIN q : j = i + n /\ q[j].row = r => Later(c, x, q[j])
    <3>1. CASE row.clock >= 0 /\ Alike(c, new, row)
      BY <3>1 DEF Ordered
    <3>2. ASSUME NEW i \in DOMAIN q, i <= n, q[i].row = r, Alike(c, new, q[i])
          PROVE  \E x : /\ IsRow(x) /\ Alike(c, new, x) /\ Later(c, x, a)
                        /\ \A l \in DOMAIN p, j \in DOMAIN q : j = l + n /\ q[j].row = r => Later(c, x, q[j])
      <4>1. IsRow(q[i]) /\ Later(c, q[i], a)
        BY <3>2 DEF Ordered, AllRows
      <4>2. ASSUME NEW l \in DOMAIN p, NEW j \in DOMAIN q, j = l + n, q[j].row = r
            PROVE  Later(c, q[i], q[j])
        <5>1. CASE i < j
          BY <3>2, <4>2, <5>1 DEF Ordered
        <5>2. CASE i = j
          BY <4>1, <5>2, LaterIsReflexive
        <5>3. i <= j
          BY <3>2, <4>2 DEF AllRows
        <5> QED  BY <5>1, <5>2, <5>3 DEF AllRows
      <4> QED  BY <3>2, <4>1, <4>2
    <3> QED  BY <1>4, <3>1, <3>2 DEF From
  <2>2. Later(c, x, b)
    BY <2>1, LaterIsTransitive
  <2>3. ASSUME NEW i \in DOMAIN p, p[i].row = r PROVE Later(c, x, p[i])
    <3>1. \A j \in DOMAIN q : j = i + n => q[j].row = r
      BY <2>3 DEF Follows
    <3> QED  BY <1>1, <2>1, <2>3, <3>1
  <2>4. Later(c, new, x)
    BY <2>1 DEF Alike
  <2>5. Later(c, new, b)
    BY <2>1, <2>2, <2>4, LaterIsTransitive
  <2>6. ASSUME NEW i \in DOMAIN p, p[i].row = r PROVE Later(c, new, p[i])
    <3>1. IsRow(p[i])
      BY DEF AllRows
    <3> QED  BY <2>1, <2>3, <2>4, <2>6, <3>1, LaterIsTransitive
  <2> QED  BY <2>5, <2>6
<1>5. ASSUME row.clock >= 0, new.clock >= 0 PROVE Later(c, row, new)
  <2>1. ASSUME NEW i \in DOMAIN q, q[i].row = r, Alike(c, new, q[i]) PROVE Later(c, row, new)
    <3>1. Later(c, row, q[i]) /\ Later(c, q[i], new) /\ IsRow(q[i])
      BY <1>5, <2>1 DEF Ordered, Alike, AllRows
    <3> QED  BY <3>1, LaterIsTransitive
  <2> QED  BY <1>5, <2>1 DEF From, Alike
<1>6. ASSUME NEW k \in Int, AsNew(r, q, row, a, k) PROVE AsNew(r, p, new, b, k)
  <2>1. k <= b.clock
    BY <1>6 DEF AsNew, Later, IsRow
  <2>2. ASSUME NEW i \in DOMAIN p, p[i].row = r PROVE k <= p[i].clock
    BY <1>6, <2>1, <2>2 DEF Follows, AsNew
  <2>3. ASSUME new.clock >= 0 PROVE k <= new.clock
    <3>1. CASE row.clock >= 0 /\ Alike(c, new, row)
      BY <1>6, <3>1 DEF AsNew, Alike, Later, IsRow
    <3>2. ASSUME NEW i \in DOMAIN q, q[i].row = r, Alike(c, new, q[i]) PROVE k <= new.clock
      <4>1. k <= q[i].clock /\ q[i].clock <= new.clock /\ q[i].clock \in Int
        BY <1>6, <3>2 DEF AsNew, Alike, Later, AllRows, IsRow
      <4> QED  BY <4>1 DEF IsRow
    <3> QED  BY <2>3, <3>1, <3>2 DEF From
  <2> QED  BY <2>1, <2>2, <2>3 DEF AsNew
<1> QED  BY <1>2, <1>3, <1>4, <1>5, <1>6 DEF Ordered

-----------------------------------------------------------------------------
\* What a step leaves of the order, of the cached row and of what is recent.
Proceeds(c, r) ==
  /\ InOrder(c, r)'
  /\ cache[c][r].clock >= 0 /\ cache'[c][r].clock >= 0 => Later(c, cache[c][r], cache'[c][r])
  /\ \A k \in Int : Recent(c, r, k) => Recent(c, r, k)'

RowsAreRows ==
  \A c \in Clients, r \in Rows : /\ AllRows(serverToBg[ServerOf[r]][c]) /\ IsRow(cache[c][r]) /\ IsRow(AtServer(r))

\* Replies, cached rows and what servers hold are rows.
LEMMA RowsOfState == TypeOK => RowsAreRows
<1> SUFFICES ASSUME TypeOK, NEW c \in Clients, NEW r \in Rows
             PROVE  /\ AllRows(serverToBg[ServerOf[r]][c]) /\ IsRow(cache[c][r]) /\ IsRow(AtServer(r))
  BY DEF RowsAreRows
<1>1. PICK s \in Servers : ServerOf[r] = s
  BY ServersAssumption
<1>2. AllRows(serverToBg[s][c])
  <2>1. \A i \in DOMAIN serverToBg[s][c] : i \in Nat /\ serverToBg[s][c][i] \in RowReplies(s)
    BY QueueOfReplies
  <2>2. ASSUME NEW m \in RowReplies(s) PROVE IsRow(m)
    BY DEF RowReplies, IsRow, Vec
  <2> QED  BY <2>1, <2>2 DEF AllRows
<1>3. IsRow(cache[c][r])
  <2>1. cache[c][r] \in [clock : Nat \cup {-1}, data : Vec]
    BY DEF TypeOK, ClientsOK
  <2> QED  BY <2>1 DEF IsRow, Vec
<1>4. IsRow(AtServer(r))
  <2>1. ServersOK /\ r \in RowsOf(s)
    BY <1>1 DEF TypeOK, RowsOf
  <2>2. table[s][r] \in Vec
    BY <2>1 DEF ServersOK
  <2>3. bgClock[s] \in VectorClocks(Clients)
    BY <2>1 DEF ServersOK
  <2> QED  BY <1>1, <2>2, <2>3 DEF AtServer, IsRow, Vec, VectorClocks
<1> QED  BY <1>1, <1>2, <1>3, <1>4

\* RowsOfState, after a step.
LEMMA RowsOfStateNext == (TypeOK => RowsAreRows)'
BY RowsOfState, PTL

\* OrderFollows, for the queue and the cache of a process.
LEMMA OrderStays ==
  ASSUME Inv, Inv', Grows, AccountsOK, [Next]_vars, NEW c \in Clients, NEW r \in Rows, InOrder(c, r),
         NEW n \in Nat, Follows(r, serverToBg[ServerOf[r]][c], serverToBg'[ServerOf[r]][c], AtServer(r)', n),
         From(c, r, serverToBg[ServerOf[r]][c], cache[c][r], cache'[c][r], n)
  PROVE  Proceeds(c, r)
<1>1. PICK q, p, a, b, row, new :
         /\ q = serverToBg[ServerOf[r]][c] /\ p = serverToBg'[ServerOf[r]][c]
         /\ a = AtServer(r) /\ b = AtServer(r)' /\ row = cache[c][r] /\ new = cache'[c][r]
  OBVIOUS
<1>2. RowsAreRows /\ RowsAreRows'
  BY RowsOfState, RowsOfStateNext DEF Inv
<1>3. AllRows(q) /\ IsRow(row) /\ IsRow(a)
  BY <1>1, <1>2 DEF RowsAreRows
<1>4. AllRows(p) /\ IsRow(new) /\ IsRow(b)
  BY <1>1, <1>2 DEF RowsAreRows
<1>5. Later(c, a, b)
  BY <1>1, ServersAdvance DEF AtServer, Later
<1>6. Ordered(c, r, q, row, a)
  BY <1>1 DEF InOrder
<1>7. Follows(r, q, p, b, n) /\ From(c, r, q, row, new, n)
  BY <1>1
<1>8. /\ Ordered(c, r, p, new, b)
      /\ row.clock >= 0 /\ new.clock >= 0 => Later(c, row, new)
      /\ \A k \in Int : AsNew(r, q, row, a, k) => AsNew(r, p, new, b, k)
  BY <1>3, <1>4, <1>5, <1>6, <1>7, OrderFollows
<1>9. InOrder(c, r)' = Ordered(c, r, p, new, b)
  BY <1>1 DEF InOrder
<1>10. \A k \in Int : /\ Recent(c, r, k) = AsNew(r, q, row, a, k)
                     /\ Recent(c, r, k)' = AsNew(r, p, new, b, k)
  BY <1>1 DEF Recent
<1> QED  BY <1>1, <1>8, <1>9, <1>10 DEF Proceeds

\* No reply is taken, and no row enters the cache.
LEMMA OrderJoined ==
  ASSUME Inv, Inv', Grows, AccountsOK, [Next]_vars, NEW c \in Clients, NEW r \in Rows, InOrder(c, r),
         Joined(ServerOf[r], c),
         cache'[c][r].clock >= 0 => cache[c][r].clock >= 0 /\ Alike(c, cache'[c][r], cache[c][r])
  PROVE  Proceeds(c, r)
<1>1. PICK s \in Servers : ServerOf[r] = s
  BY ServersAssumption
<1>2. PICK q, p, b : q = serverToBg[s][c] /\ p = serverToBg'[s][c] /\ b = AtServer(r)'
  OBVIOUS
<1>3. b.clock = bgClock'[s].min /\ b.data = table'[s][r]
  BY <1>1, <1>2 DEF AtServer
<1>4. \A i \in DOMAIN p : /\ i \in Nat
                          /\ IF i \in DOMAIN q THEN p[i] = q[i]
                             ELSE (\A j \in DOMAIN q : j < i) /\ p[i].clock = bgClock'[s].min /\ p[i].data = table'[s][p[i].row]
  BY <1>1, <1>2 DEF Joined, Fresh
<1>5. Follows(r, q, p, b, 0)
  <2> SUFFICES ASSUME NEW i \in DOMAIN p, p[i].row = r
               PROVE IF i + 0 \in DOMAIN q THEN p[i] = q[i + 0]
                     ELSE (\A j \in DOMAIN q : j < i + 0) /\ p[i].clock = b.clock /\ p[i].data = b.data
    BY DEF Follows
  <2>1. i + 0 = i
    BY <1>4
  <2> QED  BY <1>3, <1>4, <2>1
<1>6. From(c, r, q, cache[c][r], cache'[c][r], 0)
  BY DEF From
<1> QED  BY <1>1, <1>2, <1>5, <1>6, OrderStays

\* A row is like itself.
LEMMA SameRow ==
  ASSUME NEW c, NEW x, IsRow(x)
  PROVE  Alike(c, x, x)
BY LaterIsReflexive DEF Alike

\* What a thread shares changes no other process' updates in a cached row.
LEMMA SharedIsOwn ==
  ASSUME TypeOK, NEW t \in Threads, NEW x \in Rows, NEW l \in Nat, ShareUpdates(t, x, l),
         NEW c \in Clients, NEW r \in Rows, cache'[c][r].clock >= 0
  PROVE  cache[c][r].clock >= 0 /\ Alike(c, cache'[c][r], cache[c][r])
<1>1. PICK d \in Clients : ClientOf[t] = d
  BY PlacesOf
<1>2. cache \in [Clients -> [Rows -> [clock : Nat \cup {-1}, data : [Threads -> Nat]]]]
  BY DEF TypeOK, ClientsOK, Vec
<1>3. cache' = IF x \in CachedRows(d) THEN [cache EXCEPT ![d][x].data[t] = @ + l] ELSE cache
  BY <1>1 DEF ShareUpdates
<1>4. cache'[c][r].clock = cache[c][r].clock /\ cache[c][r].clock \in Int
  BY <1>2, <1>3
<1>5. \A u \in Threads : ClientOf[u] # c => cache'[c][r].data[u] = cache[c][r].data[u] /\ cache[c][r].data[u] \in Int
  BY <1>1, <1>2, <1>3
<1> QED  BY <1>4, <1>5 DEF Alike, Later

\* A step that leaves all caches alone.
LEMMA UntouchedProceeds ==
  ASSUME Inv, Inv', Grows, AccountsOK, [Next]_vars, NEW c \in Clients, NEW r \in Rows, InOrder(c, r),
         Joined(ServerOf[r], c), UNCHANGED cache
  PROVE  Proceeds(c, r)
<1>1. RowsAreRows
  BY RowsOfState DEF Inv
<1>2. Alike(c, cache[c][r], cache[c][r])
  BY <1>1, SameRow DEF RowsAreRows
<1> QED  BY <1>2, OrderJoined

\* Threads keep replies in order.
LEMMA ThreadProceeds ==
  ASSUME Inv, Inv', Grows, AccountsOK, NEW t \in Threads, ThreadNext(t),
         NEW c \in Clients, NEW r \in Rows, InOrder(c, r)
  PROVE  Proceeds(c, r)
<1>0. TypeOK /\ [Next]_vars
  BY DEF Inv, Next
<1>1. PICK s \in Servers : ServerOf[r] = s
  BY ServersAssumption
<1>2. CASE UNCHANGED <<cache, serverToBg>>
  <2>1. Joined(s, c)
    BY <1>0, <1>2, NothingJoins
  <2> QED  BY <1>0, <1>1, <1>2, <2>1, UntouchedProceeds
<1>3. CASE UNCHANGED serverToBg /\ \E x \in Rows, l \in Nat : ShareUpdates(t, x, l)
  <2>1. Joined(s, c)
    BY <1>0, <1>3, NothingJoins
  <2>2. cache'[c][r].clock >= 0 => cache[c][r].clock >= 0 /\ Alike(c, cache'[c][r], cache[c][r])
    BY <1>0, <1>3, SharedIsOwn
  <2> QED  BY <1>0, <1>1, <2>1, <2>2, OrderJoined
<1>4. CASE \E x \in Rows : Inc(t, x)
  <2>1. UNCHANGED serverToBg /\ \E x \in Rows : ShareUpdates(t, x, 1)
    BY <1>4 DEF Inc, channelVars
  <2> QED  BY <1>3, <2>1
<1>5. CASE \E x \in Rows : FlushRow(t, x)
  <2>1. UNCHANGED serverToBg /\ \E x \in Rows : ShareUpdates(t, x, threadOplog[t][x])
    BY <1>5 DEF FlushRow, channelVars
  <2>2. \A x \in Rows : threadOplog[t][x] \in Nat
    BY <1>0 DEF TypeOK, ThreadsOK
  <2> QED  BY <1>3, <2>1, <2>2
<1>6. CASE \E x \in Rows, b \in BOOLEAN : ThreadInc(t, x) \/ GetCached(t, x) \/ ThreadGetCached(t, x) \/ RequestAndWait(t, x, b)
  BY <1>2, <1>6 DEF ThreadInc, GetCached, ThreadGetCached, RequestAndWait, clientVars, channelVars
<1>7. CASE GetReturn(t) \/ ThreadGetReturn(t) \/ GetAgain(t) \/ GetAbort(t)
  BY <1>2, <1>7 DEF GetReturn, ThreadGetReturn, GetAgain, GetAbort, clientVars, channelVars
<1>8. CASE FlushThreadCache(t) \/ Clock(t) \/ TickThread(t) \/ TellBg(t)
  BY <1>2, <1>8 DEF FlushThreadCache, Clock, TickThread, TellBg, clientVars, channelVars
<1> QED  BY <1>4, <1>5, <1>6, <1>7, <1>8 DEF ThreadNext, GetRequest, ThreadGetRequest

\* A reply is taken from the head of the queue and its row is cached.
LEMMA ReplyProceeds ==
  ASSUME Inv, Inv', Grows, AccountsOK, NEW d \in Clients, NEW z \in Servers, HandleReply(d, z),
         NEW c \in Clients, NEW r \in Rows, InOrder(c, r)
  PROVE  Proceeds(c, r)
<1>0. TypeOK /\ RowsAreRows
  BY RowsOfState DEF Inv
<1>1. [Next]_vars
  BY DEF Next, BgNext
<1>2. PICK s \in Servers : ServerOf[r] = s
  BY ServersAssumption
<1>3. PICK q, reply : q = serverToBg[s][c] /\ reply = Head(serverToBg[z][d])
  OBVIOUS
<1>4. /\ OldOpLogsKept(d, reply) /\ serverToBg[z][d] # << >>
      /\ serverToBg' = [serverToBg EXCEPT ![z][d] = Tail(@)]
  BY <1>3 DEF HandleReply
<1>5. reply \in RowReplies(z) /\ reply.row \in Rows /\ ServerOf[reply.row] = z
  BY <1>0, <1>3, <1>4, ReplyTypes, TypeParts
<1>6. IF c = d /\ r = reply.row
      THEN cache'[c][r] = RowFromReply(d, reply) /\ cache'[c][r].clock = reply.clock
      ELSE cache'[c][r].clock >= 0 => cache'[c][r] = cache[c][r]
  <2>1. \A e \in Clients, x \in Rows :
               IF e = d /\ x = reply.row
               THEN /\ cache'[e][x] = RowFromReply(d, reply) /\ cache'[e][x].clock = reply.clock
               ELSE cache'[e][x].clock >= 0 => cache'[e][x] = cache[e][x]
    BY <1>3, CacheOfReply
  <2> QED  BY <2>1
<1>7. Alike(c, cache[c][r], cache[c][r])
  BY <1>0, SameRow DEF RowsAreRows
<1>8. CASE ~(s = z /\ c = d)
  <2>1. serverToBg'[s][c] = serverToBg[s][c]
    BY <1>0, <1>4, <1>8 DEF TypeOK
  <2>2. Joined(s, c)
    BY <1>0, <2>1, NothingJoins
  <2>3. cache'[c][r].clock >= 0 => cache[c][r].clock >= 0 /\ Alike(c, cache'[c][r], cache[c][r])
    BY <1>2, <1>5, <1>6, <1>7, <1>8
  <2> QED  BY <1>1, <1>2, <2>2, <2>3, OrderJoined
<1>9. CASE s = z /\ c = d
  <2>1. serverToBg'[s][c] = Tail(q)
    BY <1>0, <1>3, <1>4, <1>9 DEF TypeOK
  <2>2. IsSeq(q) /\ q # << >> /\ reply = Head(q)
    BY <1>0, <1>3, <1>4, <1>9, QueueOfReplies
  <2>3. /\ Len(q) \in Nat \ {0} /\ DOMAIN q = 1 .. Len(q) /\ DOMAIN Tail(q) = 1 .. Len(q) - 1
        /\ \A i \in 1 .. Len(q) - 1 : Tail(q)[i] = q[i + 1]
        /\ Head(q) = q[1]
    BY <2>2, TailOfSeq
  <2>4. Follows(r, q, Tail(q), AtServer(r)', 1)
    BY <2>3 DEF Follows
  <2>5. From(c, r, q, cache[c][r], cache'[c][r], 1)
    <3>1. CASE r = reply.row
      <4>1. 1 \in DOMAIN q /\ 1 <= 1 /\ q[1].row = r /\ q[1] = reply
        BY <2>2, <2>3, <3>1
      <4>2. IsRow(reply)
        BY <1>0, <1>2, <1>3, <4>1 DEF RowsAreRows, AllRows
      <4>3. cache'[c][r].clock = reply.clock
        BY <1>6, <1>9, <3>1
      <4>4. ASSUME NEW t \in Threads, ClientOf[t] # c
            PROVE  cache'[c][r].data[t] = reply.data[t]
        <5>1. PICK f \in [Int -> Nat] : Account(t, r, f)
          BY DEF AccountsOK
        <5>2. RowFromReply(c, reply).data[t] = reply.data[t]
          BY <1>2, <1>4, <1>5, <1>9, <3>1, <4>4, <5>1, ForeignFromReply DEF Account
        <5> QED  BY <1>6, <1>9, <3>1, <5>2
      <4>5. Alike(c, cache'[c][r], q[1])
        <5>1. \A t \in Threads : ClientOf[t] # c => cache'[c][r].data[t] = reply.data[t] /\ reply.data[t] \in Int
          BY <4>2, <4>4 DEF IsRow
        <5>2. reply.clock \in Int
          BY <4>2 DEF IsRow
        <5> QED  BY <4>1, <4>3, <5>1, <5>2 DEF Alike, Later
      <4> QED  BY <4>1, <4>5 DEF From
    <3>2. CASE r # reply.row
      BY <1>6, <1>7, <3>2 DEF From
    <3> QED  BY <3>1, <3>2
  <2> QED  BY <1>1, <1>2, <1>3, <2>1, <2>4, <2>5, OrderStays
<1> QED  BY <1>8, <1>9

\* Background workers keep replies in order.
LEMMA BgProceeds ==
  ASSUME Inv, Inv', Grows, AccountsOK, NEW d \in Clients, BgNext(d),
         NEW c \in Clients, NEW r \in Rows, InOrder(c, r)
  PROVE  Proceeds(c, r)
<1>0. TypeOK /\ [Next]_vars
  BY DEF Inv, Next
<1>1. PICK s \in Servers : ServerOf[r] = s
  BY ServersAssumption
<1>2. CASE UNCHANGED <<cache, serverToBg>>
  <2>1. Joined(s, c)
    BY <1>0, <1>2, NothingJoins
  <2> QED  BY <1>0, <1>1, <1>2, <2>1, UntouchedProceeds
<1>3. CASE \E t \in Threads : RowRequestAnswered(d, t) \/ RowRequestForwarded(d, t)
  BY <1>2, <1>3 DEF RowRequestAnswered, RowRequestForwarded, clientVars
<1>4. CASE \E t \in Threads : HandleBgClock(d, t) \/ HandleBgSendOpLog(d, t)
  BY <1>2, <1>4 DEF HandleBgClock, HandleBgSendOpLog
<1>5. CASE \E z \in Servers : HandleReplyAbort(d, z)
  BY <1>2, <1>5 DEF HandleReplyAbort, channelVars
<1> QED  BY <1>3, <1>4, <1>5, ReplyProceeds DEF BgNext

\* Servers keep replies in order.
LEMMA ServerProceeds ==
  ASSUME Inv, Inv', Grows, AccountsOK, NEW z \in Servers, ServerNext(z),
         NEW c \in Clients, NEW r \in Rows, InOrder(c, r)
  PROVE  Proceeds(c, r)
<1>0. TypeOK /\ [Next]_vars
  BY DEF Inv, Next
<1>1. PICK s \in Servers : ServerOf[r] = s
  BY ServersAssumption
<1>2. UNCHANGED cache
  BY DEF ServerNext, RowRequestBuffered, RowRequestReplied, HandleOpLog, clientVars
<1>3. Joined(s, c)
  <2>1. ASSUME NEW d \in Clients, RowRequestBuffered(z, d) PROVE Joined(s, c)
    <3>1. serverToBg' = serverToBg
      BY <2>1 DEF RowRequestBuffered
    <3> QED  BY <1>0, <3>1, NothingJoins
  <2> QED  BY <2>1, OneJoins, ManyJoin DEF ServerNext
<1> QED  BY <1>0, <1>1, <1>2, <1>3, UntouchedProceeds

\* Every step keeps replies in order.
LEMMA StepProceeds ==
  ASSUME Inv, Inv', Grows, AccountsOK, [Next]_vars, NEW c \in Clients, NEW r \in Rows, InOrder(c, r)
  PROVE  Proceeds(c, r)
<1>1. CASE UNCHANGED vars
  <2>1. PICK s \in Servers : ServerOf[r] = s
    BY ServersAssumption
  <2>2. UNCHANGED <<cache, serverToBg>>
    BY <1>1 DEF vars, clientVars, channelVars
  <2>3. Joined(s, c)
    BY <2>2, NothingJoins DEF Inv
  <2> QED  BY <2>1, <2>2, <2>3, UntouchedProceeds
<1> QED  BY <1>1, ThreadProceeds, BgProceeds, ServerProceeds DEF Next

-----------------------------------------------------------------------------
\* A row that is cached bounds what the process still gets.
CachedIsRecent ==
  \A c \in Clients, r \in Rows : \A k \in Int :
    cache[c][r].clock >= 0 /\ k <= cache[c][r].clock => Recent(c, r, k)

\* What is still to come is no older than what is cached.
LEMMA CachedRowsBound == TypeOK /\ RepliesInOrder => CachedIsRecent
<1> SUFFICES ASSUME TypeOK, RepliesInOrder, NEW c \in Clients, NEW r \in Rows, NEW k \in Int,
                    cache[c][r].clock >= 0, k <= cache[c][r].clock
             PROVE  Recent(c, r, k)
  BY DEF CachedIsRecent
<1>1. PICK q, row, a : q = serverToBg[ServerOf[r]][c] /\ row = cache[c][r] /\ a = AtServer(r)
  OBVIOUS
<1>2. AllRows(q) /\ IsRow(row) /\ IsRow(a)
  BY <1>1, RowsOfState DEF RowsAreRows
<1>3. Ordered(c, r, q, row, a)
  BY <1>1 DEF RepliesInOrder, InOrder
<1>4. k <= row.clock /\ row.clock <= a.clock /\ \A i \in DOMAIN q : q[i].row = r => row.clock <= q[i].clock
  BY <1>1, <1>3 DEF Ordered, Later
<1>5. AsNew(r, q, row, a, k)
  BY <1>2, <1>4 DEF AsNew, IsRow, AllRows
<1> QED  BY <1>1, <1>5 DEF Recent

\* CachedRowsBound, after a step.
LEMMA CachedRowsBoundNext == (TypeOK /\ RepliesInOrder => CachedIsRecent)'
BY CachedRowsBound, PTL

StillWoken(t) == pc[t] = "woken" /\ want'[t] = want[t]

\* No thread wakes itself or another one.
LEMMA ThreadsWakeNobody ==
  ASSUME Inv, NEW u \in Threads, ThreadNext(u), NEW t \in Threads, pc'[t] = "woken"
  PROVE  StillWoken(t)
<1>0. /\ pc \in [Threads -> {"run", "wait", "woken", "flush", "tick", "clock", "send"}]
      /\ DOMAIN want = Threads
  BY DEF Inv, TypeOK, ThreadsOK
<1>1. CASE \E x \in Rows, b \in BOOLEAN : RequestAndWait(u, x, b)
  BY <1>0, <1>1 DEF RequestAndWait, StillWoken
<1>2. CASE GetReturn(u) \/ ThreadGetReturn(u)
  BY <1>0, <1>2 DEF GetReturn, ThreadGetReturn, StillWoken
<1>3. CASE UNCHANGED <<pc, want>>
  BY <1>3 DEF StillWoken
<1>4. CASE \E x \in Rows : Inc(u, x) \/ ThreadInc(u, x) \/ GetCached(u, x) \/ ThreadGetCached(u, x)
  BY <1>3, <1>4 DEF Inc, ThreadInc, GetCached, ThreadGetCached, threadVars
<1>5. CASE \E x \in Rows : FlushRow(u, x)
  BY <1>0, <1>5 DEF FlushRow, StillWoken
<1>6. CASE GetAgain(u) \/ FlushThreadCache(u) \/ Clock(u) \/ TellBg(u)
  BY <1>0, <1>6 DEF GetAgain, FlushThreadCache, Clock, TellBg, StillWoken
<1>7. CASE TickThread(u)
  BY <1>0, <1>7 DEF TickThread, StillWoken
<1>8. CASE GetAbort(u)
  BY <1>3, <1>8 DEF GetAbort, threadVars
<1> QED  BY <1>1, <1>2, <1>4, <1>5, <1>6, <1>7, <1>8 DEF ThreadNext, GetRequest, ThreadGetRequest

\* A thread that wakes finds in the cache a row that is as new as it wants.
WakesUp(t) ==
  /\ want'[t] = want[t] /\ want[t].row \in Rows /\ want[t].clock \in Int
  /\ cache'[ClientOf[t]][want[t].row].clock >= 0
  /\ want[t].clock <= cache'[ClientOf[t]][want[t].row].clock

\* A worker wakes a thread only when the row it wants is cached.
LEMMA WorkersWake ==
  ASSUME Inv, NEW c \in Clients, BgNext(c), NEW t \in Threads, pc'[t] = "woken"
  PROVE  StillWoken(t) \/ WakesUp(t)
<1>0. TypeOK /\ WaitingOK /\ WaitersKnow
  BY DEF Inv, WaitingOK
<1>1. pc \in [Threads -> {"run", "wait", "woken", "flush", "tick", "clock", "send"}]
  BY <1>0 DEF TypeOK
<1>2. CASE UNCHANGED <<pc, want>>
  BY <1>2 DEF StillWoken
<1>3. ASSUME NEW u \in Threads, RowRequestAnswered(c, u) PROVE StillWoken(t) \/ WakesUp(t)
  <2>1. /\ UNCHANGED <<want, cache>> /\ pc' = [pc EXCEPT ![u] = "woken"]
        /\ NextFromApp(c, u, "RowRequest")
        /\ cache[c][Head(appToBg[u]).row].clock >= Head(appToBg[u]).clock
    BY <1>3 DEF RowRequestAnswered, clientVars
  <2>2. CASE u # t
    BY <1>1, <2>1, <2>2 DEF StillWoken
  <2>3. CASE u = t
    <3>1. /\ Head(appToBg[u]).row = want[u].row /\ Head(appToBg[u]).clock = want[u].clock
          /\ want[u] \in [row : Rows, clock : Nat, byThread : BOOLEAN]
      BY <1>0, <2>1, TakesTheRequest
    <3>2. ClientOf[u] = c
      BY <2>1 DEF NextFromApp
    <3>3. PICK x \in Rows, k \in Nat : want[u].row = x /\ want[u].clock = k
      BY <3>1
    <3>4. cache'[c][x].clock >= k /\ cache'[c][x].clock \in Int
      <4>1. cache[c][x].clock \in Int
        BY <1>0 DEF TypeOK, ClientsOK
      <4> QED  BY <2>1, <3>1, <3>3, <4>1
    <3> QED  BY <2>1, <2>3, <3>2, <3>3, <3>4 DEF WakesUp
  <2> QED  BY <2>2, <2>3
<1>4. ASSUME NEW s \in Servers, HandleReply(c, s) PROVE StillWoken(t) \/ WakesUp(t)
  <2>1. PICK reply : reply = Head(serverToBg[s][c])
    OBVIOUS
  <2>2. /\ want' = want
        /\ pc'[t] = IF t \in AnsweredThreads(c, reply) THEN "woken" ELSE pc[t]
    BY <1>4, <2>1 DEF HandleReply
  <2>3. CASE t \notin AnsweredThreads(c, reply)
    BY <2>2, <2>3 DEF StillWoken
  <2>4. CASE t \in AnsweredThreads(c, reply)
    <3>1. pc[t] = "wait" /\ ClientOf[t] = c /\ want[t].row = reply.row /\ want[t].clock <= reply.clock
      BY <1>0, <1>4, <2>1, <2>4, AnsweredThreadsWait
    <3>2. want[t] \in [row : Rows, clock : Nat, byThread : BOOLEAN]
      BY <1>0, <3>1 DEF WaitersKnow
    <3>3. cache'[c][reply.row].clock = reply.clock
      <4>1. reply.row \in Rows
        BY <3>1, <3>2
      <4> QED  BY <1>4, <2>1, <4>1, CacheOfReply
    <3>4. reply.clock \in Nat
      BY <1>0, <1>4, <2>1, AnswersOfReply
    <3> QED  BY <2>2, <3>1, <3>2, <3>3, <3>4 DEF WakesUp
  <2> QED  BY <2>3, <2>4
<1>5. CASE \E u \in Threads : RowRequestForwarded(c, u) \/ HandleBgClock(c, u) \/ HandleBgSendOpLog(c, u)
  BY <1>2, <1>5 DEF RowRequestForwarded, HandleBgClock, HandleBgSendOpLog, threadVars
<1>6. CASE \E s \in Servers : HandleReplyAbort(c, s)
  BY <1>2, <1>6 DEF HandleReplyAbort, threadVars
<1> QED  BY <1>3, <1>4, <1>5, <1>6 DEF BgNext

\* So no other step wakes a thread.
LEMMA WhoWakes ==
  ASSUME Inv, [Next]_vars, NEW t \in Threads, pc'[t] = "woken"
  PROVE  StillWoken(t) \/ WakesUp(t)
<1>1. CASE UNCHANGED vars
  BY <1>1 DEF vars, threadVars, StillWoken
<1>2. ASSUME NEW s \in Servers, ServerNext(s) PROVE StillWoken(t)
  BY <1>2 DEF ServerNext, RowRequestBuffered, RowRequestReplied, HandleOpLog, threadVars, StillWoken
<1> QED  BY <1>1, <1>2, ThreadsWakeNobody, WorkersWake DEF Next

\* Every step keeps replies in order and woken threads served.
LEMMA StepKeepsFresh == Inv /\ AccountsOK /\ FreshOK /\ [Next]_vars => FreshOK'
<1> SUFFICES ASSUME Inv, AccountsOK, FreshOK, [Next]_vars PROVE FreshOK'
  OBVIOUS
<1>1. Inv' /\ Grows
  BY StepKeepsInv, StepKeepsHistory DEF Inv
<1>2. \A c \in Clients, r \in Rows : Proceeds(c, r)
  BY <1>1, StepProceeds DEF FreshOK, RepliesInOrder
<1>3. RepliesInOrder'
  BY <1>2 DEF RepliesInOrder, Proceeds
<1>4. WokenThreads'
  <2> SUFFICES ASSUME NEW t \in Threads, pc'[t] = "woken"
               PROVE  Recent(ClientOf[t], want[t].row, want[t].clock)'
    BY DEF WokenThreads
  <2>1. PICK c \in Clients : ClientOf[t] = c
    BY ThreadsAssumption
  <2>2. CASE StillWoken(t)
    <3>1. PICK x \in Rows, k \in Int : want[t].row = x /\ want[t].clock = k
      BY <2>2 DEF StillWoken, Inv, WaitingOK, WaitersKnow
    <3>2. Recent(c, x, k)
      BY <2>1, <2>2, <3>1 DEF StillWoken, FreshOK, WokenThreads
    <3>3. Recent(c, x, k)'
      BY <1>2, <3>2 DEF Proceeds
    <3>4. want'[t].row = x /\ want'[t].clock = k
      BY <2>2, <3>1 DEF StillWoken
    <3>5. Recent(ClientOf[t], want[t].row, want[t].clock)' = Recent(c, x, k)'
      BY <2>1, <3>4
    <3> QED  BY <3>3, <3>5
  <2>3. CASE WakesUp(t)
    <3>1. PICK x \in Rows, k \in Int : want[t].row = x /\ want[t].clock = k
      BY <2>3 DEF WakesUp
    <3>2. want'[t].row = x /\ want'[t].clock = k /\ cache'[c][x].clock >= 0 /\ k <= cache'[c][x].clock
      BY <2>1, <2>3, <3>1 DEF WakesUp
    <3>3. CachedIsRecent'
      BY <1>1, <1>3, CachedRowsBoundNext DEF Inv
    <3>4. Recent(c, x, k)'
      BY <3>2, <3>3 DEF CachedIsRecent
    <3>5. Recent(ClientOf[t], want[t].row, want[t].clock)' = Recent(c, x, k)'
      BY <2>1, <3>2
    <3> QED  BY <3>4, <3>5
  <2> QED  BY <2>2, <2>3, WhoWakes
<1> QED  BY <1>3, <1>4 DEF FreshOK

\* At the start there are no replies and no waiting threads.
LEMMA InitFresh == Init => FreshOK
<1> SUFFICES ASSUME Init PROVE FreshOK
  OBVIOUS
<1>1. RepliesInOrder
  <2> SUFFICES ASSUME NEW c \in Clients, NEW r \in Rows PROVE InOrder(c, r)
    BY DEF RepliesInOrder
  <2>1. PICK s \in Servers : ServerOf[r] = s
    BY ServersAssumption
  <2>2. serverToBg[s][c] = << >> /\ cache[c][r].clock = -1
    BY DEF Init, Start, NotCached
  <2> QED  BY <2>1, <2>2 DEF InOrder, Ordered
<1>2. WokenThreads
  BY DEF Init, Start, WokenThreads
<1> QED  BY <1>1, <1>2 DEF FreshOK

\* All the invariants together.
FullInv == Inv /\ AccountsOK /\ FreshOK

\* Every step keeps them.
LEMMA StepKeepsAll == FullInv /\ [Next]_vars => FullInv'
BY StepKeepsInv, StepKeepsAccounts, StepKeepsFresh DEF FullInv

\* They always hold.
LEMMA AllHolds == Spec => []FullInv
<1>1. Spec => []Inv
  BY InvHolds
<1>2. Spec => []AccountsOK
  BY AccountsHold
<1>3. Spec => []FreshOK
  BY <1>1, <1>2, InitFresh, StepKeepsFresh, PTL DEF Spec
<1> QED  BY <1>1, <1>2, <1>3, PTL DEF FullInv

-----------------------------------------------------------------------------
\* SSPConsistencyController::Get does not look at the clock of the row it
\* finds after the worker has answered, but CHECKs it: the CHECK never fails,
\* whatever other threads of the process fetch and evict between the answer
\* and the second Find.
THEOREM FetchedRowsAreFreshEnough == Spec => []FetchedRowIsFreshEnough
<1>1. FullInv => FetchedRowIsFreshEnough
  <2> SUFFICES ASSUME FullInv, NEW t \in Threads, pc[t] = "woken", want[t].row \in CachedRows(ClientOf[t])
               PROVE  cache[ClientOf[t]][want[t].row].clock >= want[t].clock
    BY DEF FetchedRowIsFreshEnough
  <2>1. PICK x \in Rows, k \in Nat : want[t].row = x /\ want[t].clock = k
    BY DEF FullInv, Inv, WaitingOK, WaitersKnow
  <2>2. PICK c \in Clients : ClientOf[t] = c
    BY ThreadsAssumption
  <2>3. Recent(c, x, k)
    BY <2>1, <2>2 DEF FullInv, FreshOK, WokenThreads
  <2>4. cache[c][x].clock >= 0 /\ cache[c][x].clock \in Int
    BY <2>1, <2>2 DEF CachedRows, FullInv, Inv, TypeOK, ClientsOK
  <2>5. k <= cache[c][x].clock
    BY <2>3, <2>4 DEF Recent, AsNew
  <2> QED  BY <2>1, <2>2, <2>4, <2>5
<1> QED  BY <1>1, AllHolds, PTL

CachedRowsAdvance ==
  \A c \in Clients : \A r \in CachedRows(c) :
    cache'[c][r].clock >= 0 =>
      /\ cache'[c][r].clock >= cache[c][r].clock
      /\ \A t \in Threads : cache'[c][r].data[t] >= cache[c][r].data[t]

\* OwnUpdatesOnce, after a step.
LEMMA OwnUpdates == (Inv /\ AccountsOK => OwnUpdatesOnce)'
BY AccountsCache, PTL

\* No step takes back what a cached row has shown.
LEMMA StepAdvances == FullInv /\ FullInv' /\ [Next]_vars => CachedRowsAdvance
<1> SUFFICES ASSUME FullInv, FullInv', [Next]_vars, NEW c \in Clients, NEW r \in Rows,
                    cache[c][r].clock >= 0, cache'[c][r].clock >= 0
             PROVE  /\ cache'[c][r].clock >= cache[c][r].clock
                    /\ \A t \in Threads : cache'[c][r].data[t] >= cache[c][r].data[t]
  BY DEF CachedRowsAdvance, CachedRows
<1>0. Inv /\ Inv' /\ AccountsOK /\ AccountsOK' /\ Grows /\ InOrder(c, r)
  BY StepKeepsHistory DEF FullInv, FreshOK, RepliesInOrder, Inv
<1>1. Later(c, cache[c][r], cache'[c][r])
  BY <1>0, StepProceeds DEF Proceeds
<1>2. TypeOK /\ TypeOK'
  BY <1>0 DEF Inv
<1>3. cache[c][r].clock \in Int /\ cache'[c][r].clock \in Int
  BY <1>2 DEF TypeOK, ClientsOK
<1>4. ASSUME NEW t \in Threads PROVE cache'[c][r].data[t] >= cache[c][r].data[t]
  <2>1. cache[c][r].data[t] \in Int /\ cache'[c][r].data[t] \in Int
    BY <1>2, NumbersOf, NumbersNext
  <2>2. CASE ClientOf[t] # c
    BY <1>1, <2>1, <2>2 DEF Later
  <2>3. CASE ClientOf[t] = c
    <3>1. cache[c][r].data[t] = Shared(t, r)
      <4>1. OwnUpdatesOnce /\ r \in CachedRows(c) /\ t \in ThreadsOf(c)
        BY <1>0, <2>3, AccountsCache DEF CachedRows, ThreadsOf
      <4> QED  BY <4>1 DEF OwnUpdatesOnce
    <3>2. cache'[c][r].data[t] = Shared(t, r)'
      <4>1. OwnUpdatesOnce' /\ r \in CachedRows(c)' /\ t \in ThreadsOf(c)
        BY <1>0, <2>3, OwnUpdates DEF CachedRows, ThreadsOf
      <4> QED  BY <4>1 DEF OwnUpdatesOnce
    <3>3. Shared(t, r)' >= Shared(t, r)
      BY <1>0 DEF Grows
    <3> QED  BY <3>1, <3>2, <3>3
  <2> QED  BY <2>2, <2>3
<1> QED  BY <1>1, <1>3, <1>4 DEF Later

\* SSPBgWorker::HandleServerRowRequestReply replaces the contents of a cached
\* row: no replacement shows less of any thread, or an older clock, than was
\* there before.
THEOREM CachedRowsNeverGoBack == Spec => RowsNeverGoBack
<1>1. FullInv /\ FullInv' /\ [Next]_vars =>
        [\A c \in Clients : \A r \in CachedRows(c) :
           cache'[c][r].clock >= 0 =>
             /\ cache'[c][r].clock >= cache[c][r].clock
             /\ \A t \in Threads : cache'[c][r].data[t] >= cache[c][r].data[t]]_vars
  BY StepAdvances DEF CachedRowsAdvance
<1> QED  BY <1>1, AllHolds, PTL DEF Spec, RowsNeverGoBack

-----------------------------------------------------------------------------
\* What a Get may count on when the cached row's clock is k or later.
LEMMA CachedRowIsFresh ==
  ASSUME Inv, AccountsOK, NEW c \in Clients, NEW r \in Rows, NEW k \in Nat,
         k <= cache[c][r].clock, NEW u \in Threads
  PROVE  /\ k <= clock[u] /\ MadeBefore(u, r, k) \in Nat /\ cache[c][r].data[u] \in Nat
         /\ MadeBefore(u, r, k) <= cache[c][r].data[u]
         /\ cache[c][r].data[u] <= Shared(u, r) /\ Shared(u, r) \in Nat
         /\ ClientOf[u] = c => cache[c][r].data[u] = Shared(u, r)
<1>0. TypeOK /\ ThreadsOK /\ HistoryOK /\ IInv
  BY DEF Inv, TypeOK
<1>1. PICK f \in [Int -> Nat] : Account(u, r, f)
  BY DEF AccountsOK
<1>2. PICK s \in Servers, d \in Clients : ServerOf[r] = s /\ ClientOf[u] = d
  BY PlacesOf
<1>3. PICK l \in Nat, n \in Nat : l = cache[c][r].clock /\ n = cache[c][r].data[u] /\ k <= l
  <2>1. cache[c][r].clock \in Int /\ cache[c][r].data[u] \in Nat
    BY <1>0, NumbersOf
  <2> QED  BY <2>1
<1>4. FairRow(u, r, c, l, n)
  BY <1>1, <1>3 DEF Account, Cached
<1>5. l <= clock[u] /\ MadeBefore(u, r, l) <= n /\ clock[u] \in Nat
  BY <1>0, <1>4, NumbersOf DEF FairRow
<1>6. MadeBefore(u, r, k) <= MadeBefore(u, r, l) /\ MadeBefore(u, r, k) \in Nat /\ MadeBefore(u, r, l) \in Nat
  <2>1. k \in 0 .. clock[u] /\ l \in 0 .. clock[u]
    BY <1>3, <1>5
  <2>2. HistoryOf(u)
    BY <1>0 DEF HistoryOK
  <2>3. MadeBefore(u, r, k) <= MadeBefore(u, r, l)
    BY <1>3, <2>1, <2>2 DEF HistoryOf
  <2>4. MadeBefore(u, r, k) \in Nat /\ MadeBefore(u, r, l) \in Nat
    BY <1>0, <2>1, HistoryTypes
  <2> QED  BY <2>3, <2>4
<1>7. Shared(u, r) \in Nat
  BY <1>0, HistoryTypes
<1>8. table[s][r][u] <= Shared(u, r)
  <2>1. /\ \A v, w \in Int : v <= w => f[v] <= f[w]
        /\ table[s][r][u] = f[bgVersion[s][d]]
        /\ Shared(u, r) = f[version[d] - 1] + oplog[d][r][u]
    BY <1>1, <1>2 DEF Account, Sent
  <2>2. bgVersion[s][d] <= version[d] - 1 /\ bgVersion[s][d] \in Int /\ version[d] \in Nat
    BY <1>0, <1>2, VersionsOfOpLogs
  <2>3. oplog[d][r][u] \in Nat
    BY <1>0, NumbersOf
  <2>4. f[bgVersion[s][d]] <= f[version[d] - 1]
    BY <2>1, <2>2
  <2>5. PICK F \in Nat, G \in Nat : F = f[bgVersion[s][d]] /\ G = f[version[d] - 1]
    BY <2>2
  <2> QED  BY <2>1, <2>3, <2>4, <2>5
<1>9. n <= Shared(u, r) /\ (ClientOf[u] = c => n = Shared(u, r))
  <2>1. CASE c = ClientOf[u]
    BY <1>4, <1>7, <2>1 DEF FairRow
  <2>2. CASE c # ClientOf[u]
    <3>1. n <= table[s][r][u] /\ table[s][r][u] \in Nat
      BY <1>0, <1>2, <1>4, <2>2, NumbersOf DEF FairRow
    <3> QED  BY <1>7, <1>8, <2>2, <3>1
  <2> QED  BY <2>1, <2>2
<1>10. k <= clock[u]
  BY <1>3, <1>5
<1>11. MadeBefore(u, r, k) <= n
  BY <1>5, <1>6
<1> QED  BY <1>3, <1>6, <1>7, <1>9, <1>10, <1>11

\* A woken thread that finds its row finds one that is fresh enough.
LEMMA WokenRowIsFresh ==
  ASSUME FullInv, NEW t \in Threads, pc[t] = "woken", want[t].row \in CachedRows(ClientOf[t])
  PROVE  /\ want[t].row \in Rows /\ StalestClock(t) \in Nat
         /\ StalestClock(t) <= cache[ClientOf[t]][want[t].row].clock
<1>1. want[t].row \in Rows /\ want[t].clock = StalestClock(t) /\ want[t].clock \in Nat
  BY DEF FullInv, Inv, WaitingOK, WaitersKnow
<1>2. PICK c \in Clients : ClientOf[t] = c
  BY ThreadsAssumption
<1>3. PICK x \in Rows, k \in Nat : want[t].row = x /\ want[t].clock = k
  BY <1>1
<1>4. Recent(c, x, k)
  BY <1>2, <1>3 DEF FullInv, FreshOK, WokenThreads
<1>5. cache[c][x].clock >= 0
  BY <1>2, <1>3 DEF CachedRows
<1>6. k <= cache[c][x].clock
  BY <1>4, <1>5 DEF Recent, AsNew
<1> QED  BY <1>1, <1>2, <1>3, <1>6

\* A row of thread t's own cache, as far as thread u's updates go.
ThreadRowFresh(t, r, u, row) ==
  /\ StalestClock(t) <= clock[u]
  /\ MadeBefore(u, r, StalestClock(t)) <= row[u] /\ row[u] <= made[u][r]
  /\ u = t => row[t] >= MadeBefore(t, r, clock[t]) + threadOplog[t][r]

\* What keeps a row in a thread's own cache fresh.
LEMMA ThreadRowStaysFresh ==
  ASSUME Inv, Inv', Grows, NEW t \in Threads, NEW r \in Rows, NEW u \in Threads,
         NEW row, NEW new, row[u] \in Nat, new[u] \in Nat, ThreadRowFresh(t, r, u, row),
         clock'[t] = clock[t], made'[u][r] >= made[u][r] + (new[u] - row[u]), new[u] >= row[u],
         u = t => threadOplog'[t][r] <= threadOplog[t][r] + (new[u] - row[u])
  PROVE  ThreadRowFresh(t, r, u, new)'
<1>0. TypeOK /\ TypeOK' /\ ThreadsOK /\ ThreadsOK' /\ HistoryOK
  BY DEF Inv, TypeOK
<1>1. PICK k \in Nat : k = StalestClock(t) /\ k <= clock[t]
  BY <1>0, Stalest
<1>2. StalestClock(t)' = k
  BY <1>1 DEF StalestClock
<1>3. clock[u] \in Nat /\ clock'[u] \in Nat /\ clock'[u] >= clock[u]
  BY <1>0 DEF Grows, ThreadsOK
<1>4. k <= clock[u]
  BY <1>1 DEF ThreadRowFresh
<1>5. MadeBefore(u, r, k)' = MadeBefore(u, r, k) /\ MadeBefore(u, r, k) \in Nat
  <2>1. k \in 0 .. clock[u]
    BY <1>3, <1>4
  <2> QED  BY <1>0, <2>1, HistoryTypes DEF Grows
<1>6. PICK l \in Nat : l = clock[t]
  BY <1>0 DEF ThreadsOK
<1>7. MadeBefore(t, r, l)' = MadeBefore(t, r, l) /\ MadeBefore(t, r, l) \in Nat
  <2>1. l \in 0 .. clock[t]
    BY <1>6
  <2> QED  BY <1>0, <2>1, HistoryTypes DEF Grows
<1>8. /\ made[u][r] \in Nat /\ made'[u][r] \in Nat
      /\ threadOplog[t][r] \in Nat /\ threadOplog'[t][r] \in Nat
  BY <1>0 DEF ThreadsOK
<1>9. MadeBefore(u, r, k) <= row[u] /\ row[u] <= made[u][r]
  BY <1>1 DEF ThreadRowFresh
<1>10. MadeBefore(u, r, k) <= new[u] /\ new[u] <= made'[u][r]
  BY <1>5, <1>8, <1>9
<1>11. u = t => new[t] >= MadeBefore(t, r, l) + threadOplog'[t][r]
  <2>1. u = t => row[t] >= MadeBefore(t, r, l) + threadOplog[t][r]
    BY <1>6 DEF ThreadRowFresh
  <2> QED  BY <1>7, <1>8, <2>1
<1>12. MadeBefore(u, r, StalestClock(t))' = MadeBefore(u, r, k)
  BY <1>2, <1>5
<1>13. MadeBefore(t, r, clock[t])' = MadeBefore(t, r, l)
  BY <1>6, <1>7
<1>14. StalestClock(t)' <= clock'[u]
  BY <1>2, <1>3, <1>4
<1> QED  BY <1>10, <1>11, <1>12, <1>13, <1>14 DEF ThreadRowFresh

ThreadRowsOf(t) ==
  \A r \in DOMAIN threadRows[t], u \in Threads : ThreadRowFresh(t, r, u, threadRows[t][r])

\* The invariant, thread by thread.
LEMMA ThreadRowsFresh == ThreadRowsStayFresh <=> \A t \in Threads : ThreadRowsOf(t)
BY DEF ThreadRowsStayFresh, ThreadRowsOf, ThreadRowFresh

\* ThreadRowsFresh, after a step.
LEMMA ThreadRowsFreshNext == (ThreadRowsStayFresh <=> \A t \in Threads : ThreadRowsOf(t))'
BY ThreadRowsFresh, PTL

\* A row in a thread's own cache.
LEMMA ThreadRowTypes ==
  ASSUME ThreadsOK, NEW t \in Threads, NEW r \in DOMAIN threadRows[t], NEW u \in Threads
  PROVE  r \in Rows /\ threadRows[t][r][u] \in Nat
<1>1. DOMAIN threadRows[t] \subseteq Rows /\ threadRows[t][r] \in Vec
  BY DEF ThreadsOK
<1> QED  BY <1>1 DEF Vec

\* The rows of a thread that a step leaves alone.
LEMMA ThreadRowsStay ==
  ASSUME Inv, Inv', Grows, NEW t \in Threads, ThreadRowsOf(t),
         threadRows'[t] = threadRows[t], clock'[t] = clock[t],
         \A r \in Rows : /\ threadOplog'[t][r] <= threadOplog[t][r]
                         /\ \A u \in Threads : made'[u][r] >= made[u][r]
  PROVE  ThreadRowsOf(t)'
<1> SUFFICES ASSUME NEW r \in DOMAIN threadRows'[t], NEW u \in Threads
             PROVE  ThreadRowFresh(t, r, u, threadRows[t][r])'
  BY DEF ThreadRowsOf
<1>1. ThreadsOK /\ ThreadsOK'
  BY DEF Inv, TypeOK
<1>2. r \in DOMAIN threadRows[t] /\ r \in Rows
  BY <1>1, ThreadRowTypes
<1>3. PICK row : row = threadRows[t][r]
  OBVIOUS
<1>4. row[u] \in Nat /\ ThreadRowFresh(t, r, u, row)
  BY <1>1, <1>2, <1>3, ThreadRowTypes DEF ThreadRowsOf
<1>5. /\ made[u][r] \in Nat /\ made'[u][r] \in Nat
      /\ threadOplog[t][r] \in Nat /\ threadOplog'[t][r] \in Nat
  BY <1>1, <1>2 DEF ThreadsOK
<1>6. made'[u][r] >= made[u][r] + (row[u] - row[u]) /\ threadOplog'[t][r] <= threadOplog[t][r] + (row[u] - row[u])
  BY <1>2, <1>4, <1>5
<1>7. ThreadRowFresh(t, r, u, row)'
  BY <1>2, <1>4, <1>6, ThreadRowStaysFresh
<1>8. ThreadRowFresh(t, r, u, threadRows[t][r])' = ThreadRowFresh(t, r, u, row)'
  BY <1>3
<1> QED  BY <1>7, <1>8

\* The row that enters a thread's own cache.
LEMMA InsertedRowIsFresh ==
  ASSUME Inv, AccountsOK, NEW t \in Threads, NEW x \in Rows,
         StalestClock(t) <= cache[ClientOf[t]][x].clock, NEW u \in Threads
  PROVE  ThreadRowFresh(t, x, u, [cache[ClientOf[t]][x].data EXCEPT ![t] = @ + threadOplog[t][x]])
<1>0. TypeOK /\ ThreadsOK /\ ClientsOK /\ HistoryOK
  BY DEF Inv, TypeOK
<1>1. PICK c \in Clients : ClientOf[t] = c
  BY ThreadsAssumption
<1>2. PICK k \in Nat : k = StalestClock(t)
  BY <1>0, Stalest
<1>3. \A w \in Threads :
        /\ k <= clock[w] /\ MadeBefore(w, x, k) \in Nat /\ cache[c][x].data[w] \in Nat
        /\ MadeBefore(w, x, k) <= cache[c][x].data[w]
        /\ cache[c][x].data[w] <= Shared(w, x) /\ Shared(w, x) \in Nat
        /\ ClientOf[w] = c => cache[c][x].data[w] = Shared(w, x)
  BY <1>1, <1>2, CachedRowIsFresh
<1>4. PICK data \in [Threads -> Nat] : data = cache[c][x].data
  BY <1>0 DEF ClientsOK, Vec
<1>5. PICK o \in Nat : o = threadOplog[t][x]
  BY <1>0 DEF ThreadsOK
<1>6. PICK row : row = [data EXCEPT ![t] = @ + o]
  OBVIOUS
<1>7. row[t] = data[t] + o /\ \A w \in Threads \ {t} : row[w] = data[w]
  BY <1>4, <1>6
<1>8. \A w \in Threads : made[w][x] \in Nat /\ threadOplog[w][x] \in Nat /\ Shared(w, x) = made[w][x] - threadOplog[w][x]
  BY <1>0 DEF ThreadsOK, Shared
<1>9. row[t] = made[t][x]
  BY <1>1, <1>3, <1>4, <1>5, <1>7, <1>8
<1>10. row[u] <= made[u][x] /\ data[u] <= row[u] /\ row[u] \in Nat
  <2>1. CASE u = t
    BY <1>5, <1>7, <1>8, <1>9, <2>1
  <2>2. CASE u # t
    <3>1. row[u] = data[u] /\ data[u] <= Shared(u, x)
      BY <1>3, <1>4, <1>7, <2>2
    <3> QED  BY <1>8, <3>1
  <2> QED  BY <2>1, <2>2
<1>11. MadeBefore(u, x, k) <= row[u]
  BY <1>3, <1>4, <1>10
<1>12. row[t] >= MadeBefore(t, x, clock[t]) + o
  <2>1. PICK l \in Nat : l = clock[t]
    BY <1>0 DEF ThreadsOK
  <2>2. MadeBefore(t, x, l) <= Shared(t, x)
    BY <1>0, <2>1 DEF HistoryOK, HistoryOf
  <2>3. MadeBefore(t, x, l) \in Nat
    <3>1. l \in 0 .. clock[t]
      BY <2>1
    <3> QED  BY <1>0, <3>1, HistoryTypes
  <2> QED  BY <1>5, <1>8, <1>9, <2>1, <2>2, <2>3
<1>13. ThreadRowFresh(t, x, u, row)
  BY <1>2, <1>3, <1>5, <1>10, <1>11, <1>12 DEF ThreadRowFresh
<1> QED  BY <1>1, <1>4, <1>5, <1>6, <1>13

\* ThreadTable::InsertRow of a row that is fresh enough.
LEMMA InsertKeepsThreadRows ==
  ASSUME FullInv, FullInv', Grows, NEW t \in Threads, ThreadRowsOf(t), NEW x \in Rows, InsertThreadRow(t, x),
         StalestClock(t) <= cache[ClientOf[t]][x].clock, UNCHANGED <<clock, threadOplog, made, closed>>
  PROVE  ThreadRowsOf(t)'
<1> SUFFICES ASSUME NEW r \in DOMAIN threadRows'[t], NEW u \in Threads
             PROVE  ThreadRowFresh(t, r, u, threadRows[t][r])'
  BY DEF ThreadRowsOf
<1>1. PICK row : row = [cache[ClientOf[t]][x].data EXCEPT ![t] = @ + threadOplog[t][x]]
  OBVIOUS
<1>2. threadRows'[t] = [y \in DOMAIN threadRows[t] \cup {x} |-> IF y = x THEN row ELSE threadRows[t][y]]
  BY <1>1 DEF InsertThreadRow, FullInv, Inv, TypeOK, ThreadsOK
<1>3. PICK new : new = threadRows'[t][r]
  OBVIOUS
<1>4. ThreadRowFresh(t, r, u, new)
  <2>1. CASE r = x
    <3>1. Inv /\ AccountsOK
      BY DEF FullInv
    <3>2. row = new
      BY <1>2, <1>3, <2>1
    <3> QED  BY <1>1, <2>1, <3>1, <3>2, InsertedRowIsFresh
  <2>2. CASE r # x
    BY <1>2, <1>3, <2>2 DEF ThreadRowsOf
  <2> QED  BY <2>1, <2>2
<1>5. ThreadRowFresh(t, r, u, new)' = ThreadRowFresh(t, r, u, new)
  BY DEF ThreadRowFresh, StalestClock, MadeBefore
<1>6. ThreadRowFresh(t, r, u, threadRows[t][r])' = ThreadRowFresh(t, r, u, new)'
  BY <1>3
<1> QED  BY <1>4, <1>5, <1>6

\* ThreadTable::Inc counts in the row and in the oplog.
LEMMA ThreadIncKeepsThreadRows ==
  ASSUME Inv, Inv', Grows, NEW t \in Threads, NEW x \in Rows, ThreadInc(t, x), ThreadRowsOf(t)
  PROVE  ThreadRowsOf(t)'
<1> SUFFICES ASSUME NEW r \in DOMAIN threadRows'[t], NEW u \in Threads
             PROVE  ThreadRowFresh(t, r, u, threadRows[t][r])'
  BY DEF ThreadRowsOf
<1>0. ThreadsOK /\ ThreadsOK'
  BY DEF Inv, TypeOK
<1>1. /\ made' = [made EXCEPT ![t][x] = @ + 1] /\ threadOplog' = [threadOplog EXCEPT ![t][x] = @ + 1]
      /\ threadRows' = IF x \in DOMAIN threadRows[t] THEN [threadRows EXCEPT ![t][x][t] = @ + 1] ELSE threadRows
      /\ clock' = clock
  BY DEF ThreadInc
<1>2. r \in DOMAIN threadRows[t] /\ r \in Rows
  BY <1>0, <1>1, ThreadRowTypes DEF ThreadsOK
<1>3. PICK row, new : row = threadRows[t][r] /\ new = threadRows'[t][r]
  OBVIOUS
<1>4. row \in [Threads -> Nat]
  BY <1>0, <1>2, <1>3 DEF ThreadsOK, Vec
<1>5. row[u] \in Nat /\ ThreadRowFresh(t, r, u, row)
  BY <1>2, <1>3, <1>4 DEF ThreadRowsOf
<1>6. new[u] = IF r = x /\ u = t THEN row[u] + 1 ELSE row[u]
  <2>1. CASE r = x
    <3>1. new = [row EXCEPT ![t] = @ + 1]
      BY <1>0, <1>1, <1>2, <1>3, <2>1 DEF ThreadsOK
    <3> QED  BY <1>4, <2>1, <3>1
  <2>2. CASE r # x
    <3>1. new = row
      BY <1>0, <1>1, <1>2, <1>3, <2>2 DEF ThreadsOK
    <3> QED  BY <2>2, <3>1
  <2> QED  BY <2>1, <2>2
<1>7. /\ made[u][r] \in Nat /\ threadOplog[t][r] \in Nat
      /\ made'[u][r] = IF r = x /\ u = t THEN made[u][r] + 1 ELSE made[u][r]
      /\ threadOplog'[t][r] = IF r = x THEN threadOplog[t][r] + 1 ELSE threadOplog[t][r]
  <2>1. made \in [Threads -> [Rows -> Nat]] /\ threadOplog \in [Threads -> [Rows -> Nat]]
    BY <1>0 DEF ThreadsOK
  <2>2. made[u] \in [Rows -> Nat] /\ threadOplog[t] \in [Rows -> Nat]
    BY <2>1
  <2>3. made'[u] = IF u = t THEN [made[u] EXCEPT ![x] = @ + 1] ELSE made[u]
    BY <1>1, <2>1
  <2>4. threadOplog'[t] = [threadOplog[t] EXCEPT ![x] = @ + 1]
    BY <1>1, <2>1
  <2> QED  BY <1>2, <2>2, <2>3, <2>4
<1>8. /\ new[u] \in Nat /\ new[u] >= row[u]
      /\ made'[u][r] >= made[u][r] + (new[u] - row[u])
      /\ u = t => threadOplog'[t][r] <= threadOplog[t][r] + (new[u] - row[u])
  BY <1>5, <1>6, <1>7
<1>9. ThreadRowFresh(t, r, u, new)'
  BY <1>1, <1>2, <1>5, <1>8, ThreadRowStaysFresh
<1>10. ThreadRowFresh(t, r, u, threadRows[t][r])' = ThreadRowFresh(t, r, u, new)'
  BY <1>3
<1> QED  BY <1>9, <1>10

MadeGrows == \A t \in Threads, r \in Rows : made'[t][r] >= made[t][r]

Calm(t) ==
  /\ threadRows'[t] = threadRows[t] /\ clock'[t] = clock[t]
  /\ \A r \in Rows : threadOplog'[t][r] <= threadOplog[t][r]

\* A step without increments.
LEMMA NothingMade ==
  ASSUME ThreadsOK, UNCHANGED made
  PROVE  MadeGrows
<1>1. \A t \in Threads, r \in Rows : made[t][r] \in Nat
  BY DEF ThreadsOK
<1> QED  BY <1>1 DEF MadeGrows

\* A step that leaves the rows of all threads alone.
LEMMA NothingHeld ==
  ASSUME ThreadsOK, UNCHANGED <<threadRows, clock, threadOplog>>, NEW t \in Threads
  PROVE  Calm(t)
<1>1. \A r \in Rows : threadOplog[t][r] \in Nat
  BY DEF ThreadsOK
<1> QED  BY <1>1 DEF Calm

\* What a step of a thread does to the rows that threads hold.
RowsHeld(u) ==
  /\ MadeGrows
  /\ \A t \in Threads \ {u} : Calm(t)
  /\ \/ Calm(u)
     \/ \E x \in Rows : ThreadInc(u, x)
     \/ \E x \in Rows : /\ InsertThreadRow(u, x) /\ UNCHANGED <<clock, threadOplog, made, closed>>
                        /\ StalestClock(u) <= cache[ClientOf[u]][x].clock
     \/ threadRows'[u] = << >>

\* Every step of a thread is one of these.
LEMMA RowsHeldByThreads ==
  ASSUME FullInv, NEW u \in Threads, ThreadNext(u)
  PROVE  RowsHeld(u)
<1>0. ThreadsOK
  BY DEF FullInv, Inv, TypeOK
<1>1. /\ made \in [Threads -> [Rows -> Nat]] /\ threadOplog \in [Threads -> [Rows -> Nat]]
      /\ DOMAIN threadRows = Threads /\ clock \in [Threads -> Nat]
  BY <1>0 DEF ThreadsOK
<1>2. CASE UNCHANGED <<threadRows, clock, threadOplog, made>>
  BY <1>0, <1>2, NothingMade, NothingHeld DEF RowsHeld
<1>3. ASSUME NEW x \in Rows, Inc(u, x) PROVE RowsHeld(u)
  <2>1. UNCHANGED <<threadRows, clock, threadOplog>> /\ made' = [made EXCEPT ![u][x] = @ + 1]
    BY <1>3 DEF Inc
  <2>2. MadeGrows
    BY <1>1, <2>1 DEF MadeGrows
  <2> QED  BY <1>0, <2>1, <2>2, NothingHeld DEF RowsHeld
<1>4. ASSUME NEW x \in Rows, ThreadInc(u, x) PROVE RowsHeld(u)
  <2>1. /\ made' = [made EXCEPT ![u][x] = @ + 1] /\ threadOplog' = [threadOplog EXCEPT ![u][x] = @ + 1]
        /\ threadRows' = IF x \in DOMAIN threadRows[u] THEN [threadRows EXCEPT ![u][x][u] = @ + 1] ELSE threadRows
        /\ clock' = clock
    BY <1>4 DEF ThreadInc
  <2>2. MadeGrows
    BY <1>1, <2>1 DEF MadeGrows
  <2>3. \A t \in Threads \ {u} : Calm(t)
    BY <1>1, <2>1 DEF Calm
  <2> QED  BY <1>4, <2>2, <2>3 DEF RowsHeld
<1>5. ASSUME NEW x \in Rows, FlushRow(u, x) PROVE RowsHeld(u)
  <2>1. UNCHANGED <<threadRows, clock, made>> /\ threadOplog' = [threadOplog EXCEPT ![u][x] = 0]
    BY <1>5 DEF FlushRow, ghostVars
  <2>2. \A t \in Threads : Calm(t)
    BY <1>1, <2>1 DEF Calm
  <2> QED  BY <1>0, <2>1, <2>2, NothingMade DEF RowsHeld
<1>6. ASSUME NEW x \in Rows, InsertThreadRow(u, x), UNCHANGED <<clock, threadOplog, made, closed>>,
             StalestClock(u) <= cache[ClientOf[u]][x].clock
      PROVE  RowsHeld(u)
  <2>1. \A t \in Threads \ {u} : threadRows'[t] = threadRows[t]
    BY <1>1, <1>6 DEF InsertThreadRow
  <2>2. \A t \in Threads \ {u} : Calm(t)
    BY <1>1, <1>6, <2>1 DEF Calm
  <2> QED  BY <1>0, <1>6, <2>2, NothingMade DEF RowsHeld
<1>7. ASSUME NEW x \in Rows, ThreadGetCached(u, x) PROVE RowsHeld(u)
  <2>1. InsertThreadRow(u, x) /\ UNCHANGED <<clock, threadOplog, made, closed>>
        /\ cache[ClientOf[u]][x].clock >= StalestClock(u)
    BY <1>7 DEF ThreadGetCached, ghostVars
  <2>2. StalestClock(u) <= cache[ClientOf[u]][x].clock
    BY <2>1
  <2> QED  BY <1>6, <2>1, <2>2
<1>8. CASE ThreadGetReturn(u)
  <2>1. /\ InsertThreadRow(u, want[u].row) /\ UNCHANGED <<clock, threadOplog, made, closed>>
        /\ want[u].row \in CachedRows(ClientOf[u]) /\ pc[u] = "woken"
    BY <1>8 DEF ThreadGetReturn, ghostVars, Woken
  <2>2. want[u].row \in Rows /\ StalestClock(u) <= cache[ClientOf[u]][want[u].row].clock
    BY <2>1, WokenRowIsFresh
  <2> QED  BY <1>6, <2>1, <2>2
<1>9. CASE DropThreadRows(u) /\ UNCHANGED <<threadOplog, made>> /\ \A t \in Threads \ {u} : clock'[t] = clock[t]
  <2>1. threadRows'[u] = << >> /\ \A t \in Threads \ {u} : threadRows'[t] = threadRows[t]
    BY <1>1, <1>9 DEF DropThreadRows
  <2>2. \A t \in Threads \ {u} : Calm(t)
    BY <1>1, <1>9, <2>1 DEF Calm
  <2> QED  BY <1>0, <1>9, <2>1, <2>2, NothingMade DEF RowsHeld
<1>10. CASE FlushThreadCache(u)
  BY <1>9, <1>10 DEF FlushThreadCache, ghostVars
<1>11. CASE Clock(u)
  <2>1. clock' = [clock EXCEPT ![u] = @ + 1] /\ DropThreadRows(u) /\ UNCHANGED <<threadOplog, made>>
    BY <1>11 DEF Clock
  <2> QED  BY <1>1, <1>9, <2>1
<1>12. CASE \E x \in Rows, b \in BOOLEAN : GetCached(u, x) \/ RequestAndWait(u, x, b)
  BY <1>2, <1>12 DEF GetCached, RequestAndWait, threadVars, tableVars, ghostVars
<1>13. CASE GetReturn(u) \/ GetAgain(u) \/ GetAbort(u) \/ TickThread(u) \/ TellBg(u)
  BY <1>2, <1>13 DEF GetReturn, GetAgain, GetAbort, TickThread, TellBg, threadVars, tableVars, ghostVars
<1> QED  BY <1>3, <1>4, <1>5, <1>7, <1>8, <1>10, <1>11, <1>12, <1>13 DEF ThreadNext, GetRequest, ThreadGetRequest

\* Every step keeps them fresh.
LEMMA StepKeepsThreadRows == FullInv /\ FullInv' /\ ThreadRowsStayFresh /\ [Next]_vars => ThreadRowsStayFresh'
<1> SUFFICES ASSUME FullInv, FullInv', ThreadRowsStayFresh, [Next]_vars, NEW t \in Threads
             PROVE  ThreadRowsOf(t)'
  BY ThreadRowsFreshNext
<1>0. Inv /\ Inv' /\ Grows /\ ThreadRowsOf(t) /\ ThreadsOK
  BY StepKeepsHistory, ThreadRowsFresh DEF FullInv, Inv, TypeOK
<1>1. ASSUME MadeGrows, Calm(t) PROVE ThreadRowsOf(t)'
  BY <1>0, <1>1, ThreadRowsStay DEF MadeGrows, Calm
<1>2. ASSUME NEW u \in Threads, ThreadNext(u) PROVE ThreadRowsOf(t)'
  <2>1. RowsHeld(u)
    BY <1>2, RowsHeldByThreads
  <2>2. CASE t # u
    BY <1>1, <2>1, <2>2 DEF RowsHeld
  <2>3. CASE t = u
    <3>1. CASE Calm(t)
      BY <1>1, <2>1, <3>1 DEF RowsHeld
    <3>2. CASE \E x \in Rows : ThreadInc(t, x)
      BY <1>0, <3>2, ThreadIncKeepsThreadRows
    <3>3. ASSUME NEW x \in Rows, InsertThreadRow(t, x), UNCHANGED <<clock, threadOplog, made, closed>>,
                 StalestClock(t) <= cache[ClientOf[t]][x].clock
          PROVE  ThreadRowsOf(t)'
      BY <1>0, <3>3, InsertKeepsThreadRows
    <3>4. CASE threadRows'[t] = << >>
      <4>1. DOMAIN threadRows'[t] = {}
        BY <3>4
      <4> QED  BY <4>1 DEF ThreadRowsOf
    <3> QED  BY <2>1, <2>3, <3>1, <3>2, <3>3, <3>4 DEF RowsHeld
  <2> QED  BY <2>2, <2>3
<1>3. CASE UNCHANGED <<threadRows, clock, threadOplog, made>>
  BY <1>0, <1>1, <1>3, NothingMade, NothingHeld
<1>4. ASSUME NEW c \in Clients, BgNext(c) PROVE ThreadRowsOf(t)'
  <2>1. UNCHANGED <<threadRows, clock, threadOplog, made>>
    BY <1>4 DEF BgNext, RowRequestAnswered, RowRequestForwarded, HandleBgClock, HandleBgSendOpLog,
         HandleReply, HandleReplyAbort, threadVars, tableVars, ghostVars
  <2> QED  BY <1>3, <2>1
<1>5. ASSUME NEW s \in Servers, ServerNext(s) PROVE ThreadRowsOf(t)'
  <2>1. UNCHANGED <<threadRows, clock, threadOplog, made>>
    BY <1>5 DEF ServerNext, RowRequestBuffered, RowRequestReplied, HandleOpLog, threadVars, tableVars, ghostVars
  <2> QED  BY <1>3, <2>1
<1>6. CASE UNCHANGED vars
  BY <1>3, <1>6 DEF vars, threadVars, tableVars, ghostVars
<1> QED  BY <1>2, <1>4, <1>5, <1>6 DEF Next

\* SSPConsistencyController::ThreadGet returns a row of the thread's own cache
\* without looking at clocks: it is never staler than one that Get would
\* return, because Clock drops all of them.
THEOREM ThreadRowsAlwaysFresh == Spec => []ThreadRowsStayFresh
<1>1. Init => ThreadRowsStayFresh
  BY DEF Init, Start, ThreadRowsStayFresh
<1>2. FullInv /\ FullInv' /\ ThreadRowsStayFresh /\ [Next]_vars => ThreadRowsStayFresh'
  BY StepKeepsThreadRows
<1> QED  BY <1>1, <1>2, AllHolds, PTL DEF Spec

-----------------------------------------------------------------------------
(* The abstract specification.                                             *)

\* Its made: the increments that threads have shared.
Ledger == [t \in Threads |-> [r \in Rows |-> Shared(t, r)]]

\* The steps of the abstract specification.
AbstractInc(t, r) ==
  /\ Ledger'[t][r] > Ledger[t][r] /\ Ledger' = [Ledger EXCEPT ![t][r] = Ledger'[t][r]]
  /\ read' = {} /\ UNCHANGED <<clock, closed>>

AbstractPass == read' = {} /\ UNCHANGED <<clock, Ledger, closed>>

AbstractClock(t) ==
  /\ clock' = [clock EXCEPT ![t] = @ + 1] /\ closed' = [closed EXCEPT ![t] = Append(@, Ledger[t])]
  /\ read' = {} /\ UNCHANGED Ledger

AbstractGet(t, r) ==
  /\ \A u \in Threads : clock[u] >= StalestClock(t)
  /\ \E got \in read' :
       /\ read' = {[thread |-> t, row |-> r, data |-> got.data]}
       /\ \A u \in Threads : /\ MadeBefore(u, r, StalestClock(t)) <= got.data[u]
                             /\ got.data[u] <= Ledger[u][r]
                             /\ ClientOf[u] = ClientOf[t] => got.data[u] = Ledger[u][r]
  /\ UNCHANGED <<clock, Ledger, closed>>

AbstractNext ==
  \/ \E t \in Threads, r \in Rows : AbstractInc(t, r) \/ AbstractGet(t, r)
  \/ \E t \in Threads : AbstractClock(t)
  \/ AbstractPass

\* They are its steps.
LEMMA AbstractIsPromise ==
  /\ AbstractNext => Promise!Next
  /\ UNCHANGED <<clock, Ledger, closed, read>> => UNCHANGED Promise!vars
<1>1. ASSUME NEW t \in Threads, NEW r \in Rows, AbstractInc(t, r) PROVE Promise!Inc(t, r)
  BY <1>1 DEF AbstractInc, Ledger, Promise!Inc, Promise!NoRead
<1>2. ASSUME NEW t \in Threads, NEW r \in Rows, AbstractGet(t, r) PROVE Promise!Get(t, r)
  BY <1>2 DEF AbstractGet, Ledger, Promise!Get, Promise!Allowed, Promise!Stalest, Promise!MadeBefore,
              StalestClock, MadeBefore
<1>3. ASSUME NEW t \in Threads, AbstractClock(t) PROVE Promise!Clock(t)
  BY <1>3 DEF AbstractClock, Ledger, Promise!Clock, Promise!NoRead
<1>4. AbstractPass => Promise!Pass
  BY DEF AbstractPass, Ledger, Promise!Pass, Promise!NoRead
<1>5. UNCHANGED <<clock, Ledger, closed, read>> => UNCHANGED Promise!vars
  BY DEF Ledger, Promise!vars
<1> QED  BY <1>1, <1>2, <1>3, <1>4, <1>5 DEF AbstractNext, Promise!Next

\* The increments that have been shared are numbers.
LEMMA LedgerTypes ==
  ASSUME TypeOK
  PROVE  /\ Ledger \in [Threads -> [Rows -> Int]]
         /\ \A t \in Threads, r \in Rows : Ledger[t][r] = Shared(t, r)
BY DEF TypeOK, ThreadsOK, Shared, Ledger

\* They change only with the two counters they come from.
LEMMA LedgerStays ==
  ASSUME UNCHANGED <<made, threadOplog>>
  PROVE  Ledger' = Ledger
BY DEF Ledger, Shared

\* LedgerTypes, after a step.
LEMMA LedgerTypesNext ==
  ASSUME TypeOK'
  PROVE  /\ Ledger' \in [Threads -> [Rows -> Int]]
         /\ \A t \in Threads, r \in Rows : Ledger'[t][r] = Shared(t, r)'
BY DEF TypeOK, ThreadsOK, Shared, Ledger

\* Every step of the protocol is a step of the abstract specification, or
\* none.
LEMMA StepMaps == FullInv /\ FullInv' /\ [Next]_vars => AbstractNext \/ UNCHANGED <<clock, Ledger, closed, read>>
<1> SUFFICES ASSUME FullInv, FullInv', [Next]_vars
             PROVE  AbstractNext \/ UNCHANGED <<clock, Ledger, closed, read>>
  OBVIOUS
<1>0. TypeOK /\ TypeOK' /\ ThreadsOK
  BY DEF FullInv, Inv, TypeOK
<1>1. /\ made \in [Threads -> [Rows -> Nat]] /\ threadOplog \in [Threads -> [Rows -> Nat]]
      /\ Ledger \in [Threads -> [Rows -> Int]] /\ Ledger' \in [Threads -> [Rows -> Int]]
      /\ \A t \in Threads, r \in Rows : Ledger[t][r] = Shared(t, r) /\ Ledger'[t][r] = Shared(t, r)'
  BY <1>0, LedgerTypes, LedgerTypesNext DEF ThreadsOK
<1>2. ASSUME read' = NoRead, UNCHANGED <<clock, made, threadOplog, closed>> PROVE AbstractNext
  BY <1>2, LedgerStays DEF AbstractPass, AbstractNext, NoRead
<1>3. ASSUME NEW u \in Threads, NEW x \in Rows, NEW n \in Nat \ {0},
             read' = NoRead, UNCHANGED <<clock, closed>>,
             \A t \in Threads, r \in Rows : Shared(t, r)' = Shared(t, r) + (IF t = u /\ r = x THEN n ELSE 0)
      PROVE  AbstractNext
  <2>1. Ledger'[u][x] > Ledger[u][x]
    BY <1>1, <1>3
  <2>2. \A t \in Threads, r \in Rows : Ledger'[t][r] = IF t = u /\ r = x THEN Ledger'[u][x] ELSE Ledger[t][r]
    BY <1>1, <1>3
  <2>3. Ledger' = [Ledger EXCEPT ![u][x] = Ledger'[u][x]]
    BY <1>1, <2>2
  <2> QED  BY <1>3, <2>1, <2>3 DEF AbstractInc, AbstractNext, NoRead
<1>4. ASSUME NEW t \in Threads, NEW x \in Rows, StalestClock(t) \in Nat,
             StalestClock(t) <= cache[ClientOf[t]][x].clock,
             read' = Returned(t, x), UNCHANGED <<clock, made, threadOplog, closed>>
      PROVE  AbstractNext
  <2>1. PICK c \in Clients : ClientOf[t] = c
    BY ThreadsAssumption
  <2>2. PICK got : got = [thread |-> t, row |-> x, data |-> cache[c][x].data]
    OBVIOUS
  <2>3. read' = {got} /\ got.data = cache[c][x].data
    BY <1>4, <2>1, <2>2 DEF Returned
  <2>4. PICK k \in Nat : k = StalestClock(t)
    BY <1>4
  <2>5. ASSUME NEW u \in Threads
        PROVE  /\ clock[u] >= k
               /\ MadeBefore(u, x, k) <= got.data[u]
               /\ got.data[u] <= Ledger[u][x]
               /\ ClientOf[u] = ClientOf[t] => got.data[u] = Ledger[u][x]
    <3>1. /\ k <= clock[u] /\ MadeBefore(u, x, k) <= cache[c][x].data[u]
          /\ cache[c][x].data[u] <= Shared(u, x)
          /\ ClientOf[u] = c => cache[c][x].data[u] = Shared(u, x)
      BY <1>4, <2>1, <2>4, CachedRowIsFresh DEF FullInv
    <3>2. clock[u] \in Nat
      BY <1>0 DEF ThreadsOK
    <3> QED  BY <1>1, <2>1, <2>3, <2>4, <3>1, <3>2
  <2>6. Ledger' = Ledger
    BY <1>4, LedgerStays
  <2>7. read' = {[thread |-> t, row |-> x, data |-> got.data]}
    BY <2>2, <2>3
  <2>8. got \in read'
    BY <2>3
  <2>9. AbstractGet(t, x)
    BY <1>4, <2>4, <2>5, <2>6, <2>7, <2>8 DEF AbstractGet
  <2> QED  BY <2>9 DEF AbstractNext
<1>5. ASSUME NEW u \in Threads, NEW x \in Rows, Inc(u, x) PROVE AbstractNext
  <2>1. /\ read' = NoRead /\ UNCHANGED <<clock, closed, threadOplog>> /\ made' = [made EXCEPT ![u][x] = @ + 1]
    BY <1>5 DEF Inc
  <2>2. PICK n \in Nat \ {0} : n = 1
    OBVIOUS
  <2>3. \A t \in Threads, r \in Rows : Shared(t, r)' = Shared(t, r) + (IF t = u /\ r = x THEN n ELSE 0)
    BY <1>1, <2>1, <2>2 DEF Shared
  <2> QED  BY <1>3, <2>1, <2>3
<1>6. ASSUME NEW u \in Threads, NEW x \in Rows, FlushRow(u, x) PROVE AbstractNext
  <2>1. /\ read' = NoRead /\ UNCHANGED <<clock, closed, made>>
        /\ threadOplog' = [threadOplog EXCEPT ![u][x] = 0] /\ threadOplog[u][x] > 0
    BY <1>6 DEF FlushRow, ghostVars
  <2>2. PICK n \in Nat \ {0} : n = threadOplog[u][x]
    BY <1>1, <2>1
  <2>3. \A t \in Threads, r \in Rows : Shared(t, r)' = Shared(t, r) + (IF t = u /\ r = x THEN n ELSE 0)
    BY <1>1, <2>1, <2>2 DEF Shared
  <2> QED  BY <1>3, <2>1, <2>3
<1>7. ASSUME NEW u \in Threads, Clock(u) PROVE AbstractNext
  <2>1. /\ read' = NoRead /\ UNCHANGED <<made, threadOplog>> /\ OpLogFlushed(u)
        /\ clock' = [clock EXCEPT ![u] = @ + 1] /\ closed' = [closed EXCEPT ![u] = Append(@, made[u])]
    BY <1>7 DEF Clock
  <2>2. \A r \in Rows : Ledger[u][r] = made[u][r]
    BY <1>1, <2>1 DEF OpLogFlushed, Shared
  <2>3. Ledger[u] = made[u]
    BY <1>1, <2>2
  <2> QED  BY <2>1, <2>3, LedgerStays DEF AbstractClock, AbstractNext, NoRead
<1>8. ASSUME NEW u \in Threads, NEW x \in Rows, GetCached(u, x) PROVE AbstractNext
  <2>1. /\ cache[ClientOf[u]][x].clock >= StalestClock(u) /\ read' = Returned(u, x)
        /\ UNCHANGED <<clock, made, threadOplog, closed>>
    BY <1>8 DEF GetCached, threadVars, tableVars, ghostVars
  <2>2. StalestClock(u) \in Nat
    BY <1>0, Stalest
  <2>3. StalestClock(u) <= cache[ClientOf[u]][x].clock
    BY <2>1
  <2> QED  BY <1>4, <2>1, <2>2, <2>3
<1>9. ASSUME NEW u \in Threads, GetReturn(u) PROVE AbstractNext
  <2>1. /\ read' = Returned(u, want[u].row) /\ UNCHANGED <<clock, made, threadOplog, closed>>
        /\ want[u].row \in CachedRows(ClientOf[u]) /\ pc[u] = "woken"
    BY <1>9 DEF GetReturn, Woken, tableVars, ghostVars
  <2>2. /\ want[u].row \in Rows /\ StalestClock(u) \in Nat
        /\ StalestClock(u) <= cache[ClientOf[u]][want[u].row].clock
    BY <2>1, WokenRowIsFresh
  <2> QED  BY <1>4, <2>1, <2>2
<1>10. ASSUME NEW u \in Threads, ThreadNext(u) PROVE AbstractNext
  <2>1. ASSUME NEW x \in Rows, ThreadInc(u, x) PROVE AbstractNext
    <3>1. /\ read' = NoRead /\ UNCHANGED <<clock, closed>>
          /\ made' = [made EXCEPT ![u][x] = @ + 1] /\ threadOplog' = [threadOplog EXCEPT ![u][x] = @ + 1]
      BY <2>1 DEF ThreadInc
    <3>2. \A t \in Threads, r \in Rows : Shared(t, r)' = Shared(t, r)
      BY <1>1, <3>1 DEF Shared
    <3>3. Ledger' = Ledger
      BY <3>2 DEF Ledger
    <3> QED  BY <3>1, <3>3 DEF AbstractPass, AbstractNext, NoRead
  <2>2. CASE \E x \in Rows, b \in BOOLEAN : ThreadGetCached(u, x) \/ RequestAndWait(u, x, b)
    BY <1>2, <2>2 DEF ThreadGetCached, RequestAndWait, tableVars, ghostVars
  <2>3. CASE ThreadGetReturn(u) \/ GetAgain(u) \/ GetAbort(u)
    BY <1>2, <2>3 DEF ThreadGetReturn, GetAgain, GetAbort, threadVars, tableVars, ghostVars
  <2>4. CASE FlushThreadCache(u) \/ TickThread(u) \/ TellBg(u)
    BY <1>2, <2>4 DEF FlushThreadCache, TickThread, TellBg, tableVars, ghostVars
  <2> QED  BY <1>5, <1>6, <1>7, <1>8, <1>9, <1>10, <2>1, <2>2, <2>3, <2>4
           DEF ThreadNext, GetRequest, ThreadGetRequest
<1>11. ASSUME NEW c \in Clients, BgNext(c) PROVE AbstractNext
  <2>1. read' = NoRead /\ UNCHANGED <<clock, made, threadOplog, closed>>
    BY <1>11 DEF BgNext, RowRequestAnswered, RowRequestForwarded, HandleBgClock, HandleBgSendOpLog,
         HandleReply, HandleReplyAbort, threadVars, tableVars, ghostVars
  <2> QED  BY <1>2, <2>1
<1>12. ASSUME NEW s \in Servers, ServerNext(s) PROVE AbstractNext
  <2>1. read' = NoRead /\ UNCHANGED <<clock, made, threadOplog, closed>>
    BY <1>12 DEF ServerNext, RowRequestBuffered, RowRequestReplied, HandleOpLog, threadVars, tableVars, ghostVars
  <2> QED  BY <1>2, <2>1
<1>13. CASE UNCHANGED vars
  BY <1>13, LedgerStays DEF vars, threadVars, tableVars, ghostVars
<1> QED  BY <1>10, <1>11, <1>12, <1>13 DEF Next

\* So is every start.
LEMMA InitMaps == Init => Promise!Init
<1> SUFFICES ASSUME Init PROVE Promise!Init
  OBVIOUS
<1>1. /\ clock = [t \in Threads |-> 0] /\ closed = [t \in Threads |-> << >>] /\ read = {}
      /\ made = [t \in Threads |-> [r \in Rows |-> 0]] /\ threadOplog = [t \in Threads |-> [r \in Rows |-> 0]]
  BY DEF Init, Start, NoRead
<1>2. \A t \in Threads, r \in Rows : Shared(t, r) = 0
  BY <1>1 DEF Shared
<1> QED  BY <1>1, <1>2 DEF Promise!Init, Promise!NoRead

\* The protocol keeps the promise of SSPConsistencyController::Get: it
\* implements the abstract bounded-staleness specification.
THEOREM PromiseIsKept == Spec => ImplementsBoundedStaleness
<1>1. FullInv /\ FullInv' /\ [Next]_vars => [Promise!Next]_Promise!vars
  BY StepMaps, AbstractIsPromise
<1> QED  BY <1>1, InitMaps, AllHolds, PTL DEF Spec, ImplementsBoundedStaleness, Promise!Spec
=============================================================================
