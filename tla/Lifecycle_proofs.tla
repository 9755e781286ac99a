-------------------------- MODULE Lifecycle_proofs --------------------------
(***************************************************************************)
(* Start-up, table creation and shut-down: the inductive invariant of      *)
(* Lifecycle, and from it the types, that no process receives a message it *)
(* does not expect, that nobody works on a table that is not there, and    *)
(* that nothing is left for who has gone.                                  *)
(*                                                                         *)
(* A message that comes in the wrong stage stops a process with a CHECK,   *)
(* so the invariant says, for every channel and every stage of its two     *)
(* ends, what may be in it; the counters by which a process passes from    *)
(* one stage to the next are, in the invariant, the sizes of sets of those *)
(* whose message has come.  With that, every process that waits for n of   *)
(* them knows that all have come, and where all others are.                *)
(***************************************************************************)
EXTENDS Lifecycle, FiniteSetTheorems, SequenceTheorems, TLAPS

-----------------------------------------------------------------------------
(* Entities and channels.                                                  *)

\* The name node, workers, servers and threads are told apart.
LEMMA Kinds ==
  /\ NameNode \notin Bgs /\ NameNode \notin Servers /\ Bgs \cap Servers = {}
  /\ \A t \in Threads : App(t) # NameNode /\ App(t) \notin Bgs /\ App(t) \notin Servers
  /\ \A t, u \in Threads : App(t) = App(u) => t = u
BY DEF NameNode, Bgs, Servers, App, Bg, Server

\* A worker is known by its process and its channel.
LEMMA Workers ==
  /\ \A b \in Bgs : ProcessOf(b) \in Clients /\ ChannelOf(b) \in Channels
  /\ \A b, d \in Bgs : ProcessOf(b) = ProcessOf(d) /\ ChannelOf(b) = ChannelOf(d) => b = d
  /\ \A c \in Clients : HeadBg(c) \in Bgs /\ ProcessOf(HeadBg(c)) = c /\ ChannelOf(HeadBg(c)) = HeadChannel
BY LifecycleAssumption DEF Bgs, Bg, HeadBg, ProcessOf, ChannelOf

\* A server is, too.
LEMMA ServersKnown ==
  /\ \A s \in Servers : ProcessOf(s) \in Clients /\ ChannelOf(s) \in Channels
  /\ \A s, d \in Servers : ProcessOf(s) = ProcessOf(d) /\ ChannelOf(s) = ChannelOf(d) => s = d
BY DEF Servers, Server, ProcessOf, ChannelOf

\* Who is on a channel together.
LEMMA OnChannels ==
  /\ \A s \in Servers, b \in Bgs : b \in OnChannel(Bgs, s) <=> ChannelOf(b) = ChannelOf(s)
  /\ \A s \in Servers, b \in Bgs : s \in OnChannel(Servers, b) <=> ChannelOf(b) = ChannelOf(s)
  /\ \A e : OnChannel(Bgs, e) \subseteq Bgs /\ OnChannel(Servers, e) \subseteq Servers
BY DEF OnChannel

\* Who sends to whom.
LEMMA ReceiversOf ==
  /\ Receivers(NameNode) = Bgs \cup Servers
  /\ \A s \in Servers : Receivers(s) = {NameNode} \cup OnChannel(Bgs, s)
  /\ \A b \in Bgs : Receivers(b) = {NameNode} \cup OnChannel(Servers, b)
       \cup (IF b = HeadBg(ProcessOf(b)) THEN {App(InitThread[ProcessOf(b)])} ELSE {})
  /\ \A t \in Threads : Receivers(App(t)) = BgsOf(ClientOf[t])
<1>1. \A t \in Threads : App(t)[2] = t
  BY DEF App
<1> QED  BY <1>1, Kinds DEF Receivers

\* Threads and their workers.
LEMMA ThreadsKnown ==
  /\ \A c \in Clients : InitThread[c] \in Threads /\ ClientOf[InitThread[c]] = c /\ InitThread[c] \in ThreadsOf(c)
  /\ \A t \in Threads : ClientOf[t] \in Clients
  /\ \A c : ThreadsOf(c) \subseteq Threads /\ \A t \in ThreadsOf(c) : ClientOf[t] = c
  /\ \A t \in Threads, b \in Bgs : b \in BgsOf(ClientOf[t]) <=> t \in ThreadsOf(ProcessOf(b))
  /\ \A c : BgsOf(c) \subseteq Bgs /\ \A b \in BgsOf(c) : ProcessOf(b) = c
BY LifecycleAssumption DEF ThreadsOf, BgsOf

\* The entities.
LEMMA EntitiesAre ==
  /\ NameNode \in Entities /\ Bgs \subseteq Entities /\ Servers \subseteq Entities
  /\ \A t \in Threads : App(t) \in Entities
  /\ \A e \in Entities : \/ e = NameNode \/ e \in Bgs \/ e \in Servers
                         \/ \E t \in Threads : e = App(t)
  /\ Daemons = {NameNode} \cup Bgs \cup Servers
BY DEF Entities, Daemons

-----------------------------------------------------------------------------
(* The network.                                                            *)

IsNet(n) ==
  /\ n = [e \in Entities |-> [f \in Receivers(e) |-> n[e][f]]]
  /\ \A e \in Entities : \A f \in Receivers(e) : n[e][f] \in Seq(Message)

\* What Received does to the network.
LEMMA ReceivedNet ==
  ASSUME IsNet(net), NEW e \in Entities, NEW f \in Receivers(e), net[e][f] # << >>
  PROVE  /\ IsNet(Received(e, f))
         /\ \A x \in Entities : \A y \in Receivers(x) :
              Received(e, f)[x][y] = IF x = e /\ y = f THEN Tail(net[e][f]) ELSE net[x][y]
<1> DEFINE n == Received(e, f)
<1>1. Tail(net[e][f]) \in Seq(Message)
  BY HeadTailProperties DEF IsNet
<1>2. net = [x \in Entities |-> [y \in Receivers(x) |-> net[x][y]]]
  BY DEF IsNet
<1>3. n = [x \in Entities |-> [y \in Receivers(x) |->
             IF x = e /\ y = f THEN Tail(net[e][f]) ELSE net[x][y]]]
  BY <1>2 DEF Received
<1>4. \A x \in Entities : \A y \in Receivers(x) :
        n[x][y] = IF x = e /\ y = f THEN Tail(net[e][f]) ELSE net[x][y]
  BY <1>3
<1> HIDE DEF n
<1>5. n = [x \in Entities |-> [y \in Receivers(x) |-> n[x][y]]]
  BY <1>3
<1>6. \A x \in Entities : \A y \in Receivers(x) : n[x][y] \in Seq(Message)
  BY <1>1, <1>4 DEF IsNet
<1>7. IsNet(n)
  BY <1>5, <1>6 DEF IsNet
<1> QED  BY <1>4, <1>7 DEF n

\* What Sent does to it.
LEMMA SentNet ==
  ASSUME NEW n, IsNet(n), NEW e \in Entities, NEW R, NEW m \in Message
  PROVE  /\ IsNet(Sent(n, e, R, m))
         /\ \A x \in Entities : \A y \in Receivers(x) :
              Sent(n, e, R, m)[x][y] = IF x = e /\ y \in R THEN Append(n[x][y], m) ELSE n[x][y]
<1> DEFINE k == Sent(n, e, R, m)
<1>1. \A y \in Receivers(e) : Append(n[e][y], m) \in Seq(Message)
  BY AppendProperties DEF IsNet
<1>2. n = [x \in Entities |-> [y \in Receivers(x) |-> n[x][y]]] /\ DOMAIN n[e] = Receivers(e)
  BY DEF IsNet
<1>3. k = [x \in Entities |-> [y \in Receivers(x) |->
             IF x = e /\ y \in R THEN Append(n[x][y], m) ELSE n[x][y]]]
  BY <1>2 DEF Sent
<1>4. \A x \in Entities : \A y \in Receivers(x) :
        k[x][y] = IF x = e /\ y \in R THEN Append(n[x][y], m) ELSE n[x][y]
  BY <1>3
<1> HIDE DEF k
<1>5. k = [x \in Entities |-> [y \in Receivers(x) |-> k[x][y]]]
  BY <1>3
<1>6. ASSUME NEW x \in Entities, NEW y \in Receivers(x)
      PROVE  k[x][y] \in Seq(Message)
  <2>1. n[x][y] \in Seq(Message)
    BY DEF IsNet
  <2>2. CASE x = e /\ y \in R
    BY <1>1, <1>4, <2>2
  <2>3. CASE ~(x = e /\ y \in R)
    BY <1>4, <2>1, <2>3
  <2> QED  BY <2>2, <2>3
<1>7. IsNet(k)
  BY <1>5, <1>6 DEF IsNet
<1> QED  BY <1>4, <1>7 DEF k

\* Channels that hold one message or two.
LEMMA OneMessage ==
  ASSUME NEW a
  PROVE  /\ Append(<< >>, a) = << a >> /\ Head(<< a >>) = a /\ Tail(<< a >>) = << >> /\ << a >> # << >>
         /\ DOMAIN << a >> = {1} /\ << a >>[1] = a /\ Len(<< a >>) = 1
<1>1. Append(<< >>, a) = << a >>
  OBVIOUS
<1>2. Head(<< a >>) = a /\ << a >> # << >> /\ << a >>[1] = a /\ Len(<< a >>) = 1
  OBVIOUS
<1>3. Tail(<< a >>) = << >>
  BY HeadTailProperties, EmptySeq
<1>4. DOMAIN << a >> = {1}
  OBVIOUS
<1> QED  BY <1>1, <1>2, <1>3, <1>4

\* The same of two messages.
LEMMA TwoMessages ==
  ASSUME NEW a, NEW b
  PROVE  /\ Append(<< a >>, b) = << a, b >> /\ Head(<< a, b >>) = a /\ Tail(<< a, b >>) = << b >>
         /\ << a, b >> # << >> /\ << a, b >>[1] = a /\ << a, b >>[2] = b
         /\ DOMAIN << a, b >> = {1, 2} /\ Len(<< a, b >>) = 2
<1>1. Append(<< a >>, b) = << a, b >>
  <2> DEFINE S == {a, b}
             u == Append(<< a >>, b)
             v == << a, b >>
  <2>1. << a >> \in Seq(S) /\ Len(<< a >>) = 1 /\ << a >>[1] = a /\ v \in Seq(S) /\ b \in S
    OBVIOUS
  <2>2. u \in Seq(S) /\ Len(u) = 2 /\ u[1] = a /\ u[2] = b
    <3> HIDE DEF S, v
    <3> QED  BY <2>1, AppendProperties
  <2>3. Len(v) = 2 /\ v[1] = a /\ v[2] = b
    OBVIOUS
  <2>4. \A i \in 1 .. Len(u) : u[i] = v[i]
    <3> HIDE DEF u, v
    <3> QED  BY <2>2, <2>3
  <2> HIDE DEF S, u, v
  <2>5. u = v
    BY <2>1, <2>2, <2>3, <2>4, SeqEqual
  <2> QED  BY <2>5 DEF u, v
<1>2. Head(<< a, b >>) = a /\ << a, b >> # << >> /\ << a, b >>[1] = a /\ << a, b >>[2] = b /\ Len(<< a, b >>) = 2
  OBVIOUS
<1>3. Tail(<< a, b >>) = << b >>
  OBVIOUS
<1>4. DOMAIN << a, b >> = {1, 2}
  OBVIOUS
<1> QED  BY <1>1, <1>2, <1>3, <1>4

\* A message is put behind the others,
LEMMA Appended ==
  ASSUME NEW q \in Seq(Message), NEW m \in Message
  PROVE  LET a == Append(q, m)
         IN  /\ a \in Seq(Message) /\ a # << >>
             /\ Len(q) \in Nat /\ DOMAIN q = 1 .. Len(q)
             /\ Len(a) = Len(q) + 1 /\ DOMAIN a = 1 .. Len(q) + 1
             /\ \A i \in 1 .. Len(q) : a[i] = q[i]
             /\ a[Len(q) + 1] = m
<1> DEFINE a == Append(q, m)
<1>1. /\ a \in Seq(Message) /\ Len(a) = Len(q) + 1
      /\ \A i \in 1 .. Len(q) : a[i] = q[i]
      /\ a[Len(q) + 1] = m
  BY AppendProperties
<1> HIDE DEF a
<1>2. Len(q) \in Nat /\ DOMAIN q = 1 .. Len(q) /\ DOMAIN a = 1 .. Len(a)
  BY <1>1, LenProperties
<1>3. a # << >>
  BY <1>1, <1>2, EmptySeq
<1> QED  BY <1>1, <1>2, <1>3 DEF a

\* and the first one is taken.
LEMMA Taken ==
  ASSUME NEW q \in Seq(Message), q # << >>
  PROVE  LET a == Tail(q)
         IN  /\ a \in Seq(Message) /\ Head(q) = q[1] /\ Head(q) \in Message
             /\ Len(q) \in Nat \ {0} /\ DOMAIN q = 1 .. Len(q)
             /\ Len(a) = Len(q) - 1 /\ DOMAIN a = 1 .. Len(q) - 1
             /\ \A i \in 1 .. Len(q) - 1 : a[i] = q[i + 1]
             /\ a = << >> <=> Len(q) = 1
<1> DEFINE a == Tail(q)
<1>1. /\ a \in Seq(Message) /\ Head(q) \in Message /\ Len(a) = Len(q) - 1
      /\ \A i \in 1 .. Len(a) : a[i] = q[i + 1]
  BY HeadTailProperties
<1>2. Head(q) = q[1]
  OBVIOUS
<1> HIDE DEF a
<1>3. Len(q) \in Nat \ {0} /\ DOMAIN q = 1 .. Len(q) /\ DOMAIN a = 1 .. Len(a)
  BY <1>1, LenProperties, EmptySeq
<1>4. a = << >> <=> Len(q) = 1
  BY <1>1, <1>3, EmptySeq
<1> QED  BY <1>1, <1>2, <1>3, <1>4 DEF a

\* The messages.
LEMMA Messages ==
  /\ \A type \in {"ClientConnect", "ServerConnect", "ConnectServer", "ClientStart", "AppConnect",
                  "CreatedAllTables", "BgClock", "ClientSendOpLog", "AppThreadDereg",
                  "ClientShutDown", "ServerShutDownAck"} : Msg(type) \in Message
  /\ \A type \in {"BgCreateTable", "CreateTable", "CreateTableReply"}, tb \in Tables : TableMsg(type, tb) \in Message
  /\ \A type, kind : Msg(type) = Msg(kind) => type = kind
  /\ \A type, kind, tb, u : TableMsg(type, tb) = TableMsg(kind, u) => type = kind /\ tb = u
  /\ \A type : Msg(type).type = type
  /\ \A type, tb : TableMsg(type, tb).type = type /\ TableMsg(type, tb).table = tb
BY DEF Message, Msg, TableMsg

-----------------------------------------------------------------------------
(* The inductive invariant: for every channel, what may be in it at each    *)
(* stage of its two ends, and for every counter, what it has counted.      *)

\* The stages of a worker before the first barrier of its process, between its
\* two barriers, and after them.
Starts == {"connect", "handshake", "init barrier"}
Creates == {"app", "tables", "asked", "all tables", "table barrier"}
Runs == {"run", "exited"}

IsHead(b) == ChannelOf(b) = HeadChannel
InitOf(b) == InitThread[ProcessOf(b)]

\* All threads of its process have taken leave of b.
Down(b) == bg[b].gone = Cardinality(ThreadsOf(ProcessOf(b)))

AllCreated == HaveCreatedAllTables(creating)

Holds(q, m) == \E i \in DOMAIN q : q[i] = m

CreatingTypes ==
  [known : BOOLEAN, servers : Nat, toReply : Seq({HeadBg(c) : c \in Clients}), clients : Nat]

\* The types, with the bounds of the counters left out.
ShapeInv ==
  /\ IsNet(net)
  /\ nameNode \in [stage : {"init", "run", "exited"}, down : Nat]
  /\ connected \in [Servers \cup {NameNode} -> SUBSET (Bgs \cup Servers)]
  /\ \A s \in Servers : connected[s] \subseteq OnChannel(Bgs, s)
  /\ creating \in [Tables -> CreatingTypes]
  /\ server \in [Servers -> [stage : {"init", "run", "exited"}, tables : SUBSET Tables, down : Nat]]
  /\ bg \in [Bgs -> [stage : BgStages, started : Nat, apps : Nat, gone : Nat, acks : Nat]]
  /\ tables \in [Clients -> SUBSET Tables]
  /\ thread \in [Threads -> ThreadStages]
  /\ clocks \in [Threads -> Nat]

\* The workers of a process and its init thread pass the barriers together; the
\* other threads come after that.
WithInit(b) ==
  LET p == thread[InitOf(b)]
  IN  /\ p # "new"
      /\ p = "start" => bg[b].stage \in Starts
      /\ p \in {"register", "create", "wait"} => bg[b].stage \in Creates
      /\ p \in {"run", "done"} => bg[b].stage \in Runs
      /\ p = "register" => bg[b].stage = "app"
      /\ bg[b].stage \in {"tables", "asked", "all tables"} => IsHead(b)
AfterInit(t) ==
  t # InitThread[ClientOf[t]] =>
    /\ thread[t] \in {"new", "run", "done"}
    /\ thread[t] # "new" => thread[InitThread[ClientOf[t]]] \in {"run", "done"}
KnowsTables(c) ==
  tables[c] = Tables <=> bg[HeadBg(c)].stage \in {"all tables", "table barrier"} \cup Runs
StagesInv ==
  /\ \A b \in Bgs : WithInit(b)
  /\ \A t \in Threads : AfterInit(t)
  /\ \A c \in Clients : KnowsTables(c)

\* Whose last message e has received.
ShutDownsAt(e, workers) == {b \in workers : Down(b) /\ net[b][e] = << >>}

\* The name node starts when all have connected, and ends when all workers have.
NameNodeInv ==
  /\ nameNode.stage = "init" <=> connected[NameNode] # Bgs \cup Servers
  /\ \A b \in Bgs \ connected[NameNode] : net[b][NameNode] = << Msg("ClientConnect") >>
  /\ \A s \in Servers \ connected[NameNode] : net[s][NameNode] = << Msg("ServerConnect") >>
  /\ nameNode.down = Cardinality(ShutDownsAt(NameNode, Bgs))
  /\ nameNode.stage = "exited" <=> nameNode.down = Cardinality(Bgs)

\* So does a server with the workers of its channel.
ServerInv ==
  \A s \in Servers :
    /\ server[s].stage = "init" <=> connected[s] # OnChannel(Bgs, s)
    /\ server[s].down = Cardinality(ShutDownsAt(s, OnChannel(Bgs, s)))
    /\ server[s].stage = "exited" <=> server[s].down = Cardinality(Clients)

\* A worker that has asked for a table: its request is on its way, or is queued,
\* or is answered.
AskedFor(b, tb) ==
  \/ /\ net[b][NameNode] = << TableMsg("CreateTable", tb) >>
     /\ net[NameNode][b] = << >>
  \/ /\ net[b][NameNode] = << >> /\ net[NameNode][b] = << >>
     /\ Holds(creating[tb].toReply, b)
  \/ /\ net[b][NameNode] = << >>
     /\ net[NameNode][b] = IF AllCreated
                           THEN << TableMsg("CreateTableReply", tb), Msg("CreatedAllTables") >>
                           ELSE << TableMsg("CreateTableReply", tb) >>

\* From the name node to worker b.
FromNameNode(b) ==
  LET q     == net[NameNode][b]
      stage == bg[b].stage
  IN  /\ stage = "connect" =>
           q = IF nameNode.stage = "init" THEN << >> ELSE << Msg("ConnectServer"), Msg("ClientStart") >>
      /\ stage # "connect" => nameNode.stage # "init"
      /\ stage = "handshake" => q \in {<< >>, << Msg("ClientStart") >>}
      /\ stage \in {"init barrier", "app", "tables", "table barrier", "exited"} => q = << >>
      /\ stage = "asked" => \E tb \in Tables \ tables[ProcessOf(b)] : AskedFor(b, tb)
      /\ stage = "all tables" => q = IF AllCreated THEN << Msg("CreatedAllTables") >> ELSE << >>
      /\ stage = "run" => \/ q = << >>
                          \/ q = << Msg("ServerShutDownAck") >> /\ nameNode.stage = "exited"
      /\ stage \in Runs => AllCreated
      /\ stage = "table barrier" /\ IsHead(b) => AllCreated
FromNameNodeInv == \A b \in Bgs : FromNameNode(b)

\* From worker b to the name node.
ToNameNode(b) ==
  LET q == net[b][NameNode]
  IN  /\ bg[b].stage \notin {"asked", "run"} => q = << >>
      /\ bg[b].stage = "run" => q = << >> \/ (q = << Msg("ClientShutDown") >> /\ Down(b))
ToNameNodeInv == \A b \in Bgs \cap connected[NameNode] : ToNameNode(b)

\* From worker b to server s.
ToServer(b, s) ==
  LET q == net[b][s]
  IN  /\ bg[b].stage = "connect" => q = << >> /\ b \notin connected[s]
      /\ bg[b].stage # "connect" /\ b \notin connected[s] =>
           bg[b].stage = "handshake" /\ q = << Msg("ClientConnect") >>
      /\ b \in connected[s] =>
           /\ q # << >> => bg[b].stage \in Runs
           /\ \A i \in DOMAIN q : \/ q[i] = Msg("ClientSendOpLog")
                                  \/ q[i] = Msg("ClientShutDown") /\ Down(b) /\ i = Len(q)
           /\ Down(b) /\ q # << >> => q[Len(q)] = Msg("ClientShutDown")
ToServerInv == \A s \in Servers : \A b \in OnChannel(Bgs, s) : ToServer(b, s)

\* From server s to worker b.
FromServer(s, b) ==
  LET q == net[s][b]
  IN  /\ server[s].stage = "init" => q = << >> /\ bg[b].stage \in {"connect", "handshake"}
      /\ server[s].stage = "run" =>
           q = << >> \/ (q = << Msg("ClientStart") >> /\ bg[b].stage = "handshake")
      /\ server[s].stage = "exited" =>
           q = << >> \/ (q = << Msg("ServerShutDownAck") >> /\ bg[b].stage = "run")
FromServerInv == \A s \in Servers : \A b \in OnChannel(Bgs, s) : FromServer(s, b)

\* The name node and the servers of b's channel.
Peers(b) == {NameNode} \cup OnChannel(Servers, b)

\* Whose permission to start, and whose acknowledgement, b has received.
StartsAt(b) ==
  {e \in Peers(b) : /\ IF e = NameNode THEN bg[b].stage # "connect" ELSE server[e].stage # "init"
                    /\ net[e][b] # << Msg("ClientStart") >>}
AcksAt(b) == {e \in Peers(b) : Exited(e) /\ net[e][b] = << >>}

StartedInv ==
  \A b \in Bgs : /\ bg[b].started = Cardinality(StartsAt(b))
                 /\ bg[b].stage \in {"connect", "handshake"} <=> bg[b].started # Cardinality(Clients) + 1
AcksInv ==
  \A b \in Bgs : /\ bg[b].acks = Cardinality(AcksAt(b))
                 /\ bg[b].stage = "exited" <=> bg[b].acks = Cardinality(Clients) + 1

\* Which threads have connected to b, and which have taken leave.
Unregistered == {"new", "start", "register"}
AppsAt(b) == {t \in ThreadsOf(ProcessOf(b)) :
                thread[t] \notin Unregistered /\ ~Holds(net[App(t)][b], Msg("AppConnect"))}
GoneAt(b) == {t \in ThreadsOf(ProcessOf(b)) : thread[t] = "done" /\ net[App(t)][b] = << >>}

AppsInv == \A b \in Bgs : bg[b].apps = Cardinality(AppsAt(b)) /\ bg[b].gone = Cardinality(GoneAt(b))

\* From the init thread of b's process to b, until b runs.
FromInit(b) ==
  LET p     == thread[InitOf(b)]
      q     == net[App(InitOf(b))][b]
      stage == bg[b].stage
  IN  /\ stage \in Starts \cup {"asked", "all tables", "table barrier"} \/ p = "register" => q = << >>
      /\ stage = "app" /\ p # "register" =>
           IF IsHead(b) /\ p = "wait"
           THEN \E tb \in Tables \ tables[ProcessOf(b)] :
                  q = << Msg("AppConnect"), TableMsg("BgCreateTable", tb) >>
           ELSE q = << Msg("AppConnect") >>
      /\ stage = "tables" =>
           \/ q = << >>
           \/ /\ p = "wait"
              /\ \E tb \in Tables \ tables[ProcessOf(b)] : q = << TableMsg("BgCreateTable", tb) >>
FromInitInv == \A b \in Bgs : FromInit(b)

\* From thread t to worker b of its process, when the thread does not create tables.
FromThread(t, b) ==
  LET q == net[App(t)][b]
  IN  /\ thread[t] = "new" => q = << >>
      /\ thread[t] \in {"run", "done"} =>
           \A i \in DOMAIN q : \/ q[i] = Msg("AppConnect") /\ i = 1
                               \/ q[i] = Msg("BgClock")
                               \/ q[i] = Msg("AppThreadDereg") /\ thread[t] = "done" /\ i = Len(q)
      /\ thread[t] = "done" /\ q # << >> => q[Len(q)] = Msg("AppThreadDereg")
FromThreadInv == \A b \in Bgs : \A t \in ThreadsOf(ProcessOf(b)) : FromThread(t, b)

\* From the head worker of process c to its init thread, which waits for a table.
ToInit(c) ==
  LET h == HeadBg(c)
      t == InitThread[c]
      q == net[h][App(t)]
  IN  /\ q # << >> => /\ thread[t] = "wait" /\ bg[h].stage \in {"tables", "all tables", "table barrier"}
                      /\ net[App(t)][h] = << >>
                      /\ \E tb \in Tables : q = << TableMsg("CreateTableReply", tb) >>
      /\ bg[h].stage = "asked" => thread[t] = "wait"
ToInitInv == \A c \in Clients : ToInit(c)

\* Server s has been told to create a table, and its reply is on its way.
Told(s, tb) == Holds(net[NameNode][s], TableMsg("CreateTable", tb))
Replied(s, tb) == Holds(net[s][NameNode], TableMsg("CreateTableReply", tb))

\* A channel that has messages of one type, for different tables.
Requests(q, type) ==
  /\ \A i \in DOMAIN q : \E tb \in Tables : q[i] = TableMsg(type, tb)
  /\ \A i, j \in DOMAIN q : q[i] = q[j] => i = j

\* The servers whose replies the name node has counted.
CreatedOn(tb) == {s \in Servers : tb \in server[s].tables /\ ~Replied(s, tb)}

\* Every server is told of a table once, and replies once.
ServerTables(s) ==
  /\ Requests(net[NameNode][s], "CreateTable")
  /\ IF s \in connected[NameNode] THEN Requests(net[s][NameNode], "CreateTableReply")
     ELSE server[s].tables = {}
  /\ \A tb \in Tables :
       /\ creating[tb].known <=> Told(s, tb) \/ tb \in server[s].tables
       /\ ~(Told(s, tb) /\ tb \in server[s].tables)
       /\ Replied(s, tb) => tb \in server[s].tables
       /\ creating[tb].known => server[s].stage # "init" /\ nameNode.stage # "init"
TablesInv ==
  /\ \A s \in Servers : ServerTables(s)
  /\ \A tb \in Tables : creating[tb].servers = Cardinality(CreatedOn(tb))

\* Process c has been told that a table is there.
Answered(c, tb) ==
  tb \in tables[c] \/ Holds(net[NameNode][HeadBg(c)], TableMsg("CreateTableReply", tb))

\* A worker waits in one queue.
QueuedFor(b, tb) ==
  /\ bg[b].stage = "asked" /\ tb \notin tables[ProcessOf(b)]
  /\ net[b][NameNode] = << >> /\ net[NameNode][b] = << >>
  /\ \A u \in Tables : Holds(creating[u].toReply, b) => u = tb

\* The name node answers a process once for a table, when all servers have it.
CreatingOK(tb) ==
  LET entry == creating[tb]
  IN  /\ \A i, j \in DOMAIN entry.toReply : entry.toReply[i] = entry.toReply[j] => i = j
      /\ \A b \in Bgs : Holds(entry.toReply, b) => QueuedFor(b, tb) /\ ~ReceivedFromAllServers(entry)
      /\ entry.clients = Cardinality({c \in Clients : Answered(c, tb)})
      /\ \A c \in Clients : Answered(c, tb) => ReceivedFromAllServers(entry)
      /\ ReceivedFromAllServers(entry) => entry.known
CreatingInv == \A tb \in Tables : CreatingOK(tb)

IInv ==
  /\ ShapeInv /\ StagesInv /\ NameNodeInv /\ ServerInv
  /\ FromNameNodeInv /\ ToNameNodeInv /\ ToServerInv /\ FromServerInv
  /\ StartedInv /\ AcksInv /\ AppsInv /\ FromInitInv /\ FromThreadInv /\ ToInitInv
  /\ TablesInv /\ CreatingInv

-----------------------------------------------------------------------------
(* How many there are.                                                     *)

\* A function that maps different elements to different ones keeps the number.
LEMMA SameNumber ==
  ASSUME NEW S, NEW T, IsFiniteSet(S), NEW f \in [S -> T],
         \A x, y \in S : f[x] = f[y] => x = y,
         \A z \in T : \E x \in S : f[x] = z
  PROVE  IsFiniteSet(T) /\ Cardinality(T) = Cardinality(S)
<1>1. f \in Bijection(S, T)
  BY DEF Bijection, Injection, Surjection, IsInjective
<1> QED  BY <1>1, FS_Bijection DEF ExistsBijection

\* All workers; there are as many servers.
LEMMA NumberOfWorkers ==
  /\ IsFiniteSet(Bgs) /\ IsFiniteSet(Servers) /\ IsFiniteSet(Bgs \cup Servers)
  /\ Cardinality(Bgs) \in Nat
  /\ Cardinality(Bgs \cup Servers) = 2 * Cardinality(Bgs)
<1> DEFINE P == Clients \X Channels
           f == [p \in P |-> Bg(p[1], p[2])]
           g == [p \in P |-> Server(p[1], p[2])]
<1>1. IsFiniteSet(P)
  BY LifecycleAssumption, FS_Product
<1>2. IsFiniteSet(Bgs) /\ Cardinality(Bgs) = Cardinality(P)
  <2>1. f \in [P -> Bgs] /\ \A z \in Bgs : \E p \in P : f[p] = z
    <3>1. \A p \in P : p[1] \in Clients /\ p[2] \in Channels
      OBVIOUS
    <3>2. f \in [P -> Bgs]
      BY <3>1 DEF Bgs
    <3>3. ASSUME NEW c \in Clients, NEW k \in Channels
          PROVE  <<c, k>> \in P /\ f[<<c, k>>] = Bg(c, k)
      OBVIOUS
    <3>4. ASSUME NEW z \in Bgs PROVE \E p \in P : f[p] = z
      <4>1. PICK c \in Clients, k \in Channels : z = Bg(c, k)
        BY DEF Bgs
      <4>2. <<c, k>> \in P /\ f[<<c, k>>] = z
        BY <3>3, <4>1
      <4> HIDE DEF f, P
      <4> QED  BY <4>2
    <3> QED  BY <3>2, <3>4
  <2>2. \A p, q \in P : f[p] = f[q] => p = q
    BY DEF Bg
  <2> HIDE DEF f, P
  <2> QED  BY <1>1, <2>1, <2>2, SameNumber
<1>3. IsFiniteSet(Servers) /\ Cardinality(Servers) = Cardinality(P)
  <2>1. g \in [P -> Servers] /\ \A z \in Servers : \E p \in P : g[p] = z
    <3>1. \A p \in P : p[1] \in Clients /\ p[2] \in Channels
      OBVIOUS
    <3>2. g \in [P -> Servers]
      BY <3>1 DEF Servers
    <3>3. ASSUME NEW c \in Clients, NEW k \in Channels
          PROVE  <<c, k>> \in P /\ g[<<c, k>>] = Server(c, k)
      OBVIOUS
    <3>4. ASSUME NEW z \in Servers PROVE \E p \in P : g[p] = z
      <4>1. PICK c \in Clients, k \in Channels : z = Server(c, k)
        BY DEF Servers
      <4>2. <<c, k>> \in P /\ g[<<c, k>>] = z
        BY <3>3, <4>1
      <4> HIDE DEF g, P
      <4> QED  BY <4>2
    <3> QED  BY <3>2, <3>4
  <2>2. \A p, q \in P : g[p] = g[q] => p = q
    BY DEF Server
  <2> HIDE DEF g, P
  <2> QED  BY <1>1, <2>1, <2>2, SameNumber
<1>4. Cardinality(Bgs) \in Nat
  BY <1>2, FS_CardinalityType
<1>5. Cardinality(Bgs \cap Servers) = 0
  BY Kinds, FS_EmptySet
<1> HIDE DEF P
<1>6. /\ IsFiniteSet(Bgs \cup Servers)
      /\ Cardinality(Bgs \cup Servers) = Cardinality(Bgs) + Cardinality(Servers) - Cardinality(Bgs \cap Servers)
  BY <1>2, <1>3, FS_Union
<1> QED  BY <1>2, <1>3, <1>4, <1>5, <1>6

\* A channel has a worker in each process, and a server.
LEMMA NumberOnChannel ==
  ASSUME NEW e, ChannelOf(e) \in Channels
  PROVE  /\ IsFiniteSet(OnChannel(Bgs, e)) /\ Cardinality(OnChannel(Bgs, e)) = Cardinality(Clients)
         /\ IsFiniteSet(OnChannel(Servers, e)) /\ Cardinality(OnChannel(Servers, e)) = Cardinality(Clients)
<1> DEFINE f == [c \in Clients |-> Bg(c, ChannelOf(e))]
           g == [c \in Clients |-> Server(c, ChannelOf(e))]
<1>1. IsFiniteSet(Clients)
  BY LifecycleAssumption
<1>2. \A c \in Clients : ChannelOf(Bg(c, ChannelOf(e))) = ChannelOf(e) /\ ChannelOf(Server(c, ChannelOf(e))) = ChannelOf(e)
  BY DEF Bg, Server, ChannelOf
<1>3. f \in [Clients -> OnChannel(Bgs, e)] /\ g \in [Clients -> OnChannel(Servers, e)]
  BY <1>2 DEF OnChannel, Bgs, Servers
<1>4. \A c, d \in Clients : (f[c] = f[d] => c = d) /\ (g[c] = g[d] => c = d)
  BY DEF Bg, Server
<1>5. \A z \in OnChannel(Bgs, e) : \E c \in Clients : f[c] = z
  BY DEF OnChannel, Bgs, Bg, ChannelOf
<1>6. \A z \in OnChannel(Servers, e) : \E c \in Clients : g[c] = z
  BY DEF OnChannel, Servers, Server, ChannelOf
<1> HIDE DEF f, g
<1> QED  BY <1>1, <1>3, <1>4, <1>5, <1>6, SameNumber

\* A worker starts when the name node and the servers of its channel permit.
LEMMA NumberOfPeers ==
  ASSUME NEW b \in Bgs
  PROVE  /\ IsFiniteSet(Peers(b)) /\ Cardinality(Peers(b)) = Cardinality(Clients) + 1
         /\ Cardinality(Clients) \in Nat \ {0}
<1>1. NameNode \notin OnChannel(Servers, b)
  BY Kinds, OnChannels
<1>2. /\ IsFiniteSet(OnChannel(Servers, b))
      /\ Cardinality(OnChannel(Servers, b)) = Cardinality(Clients)
  BY NumberOnChannel, Workers
<1>3. Peers(b) = OnChannel(Servers, b) \cup {NameNode}
  BY DEF Peers
<1>4. Cardinality(Clients) \in Nat \ {0}
  BY LifecycleAssumption, FS_CardinalityType, FS_EmptySet
<1> QED  BY <1>1, <1>2, <1>3, <1>4, FS_AddElement

\* The threads of a process.
LEMMA NumberOfThreads ==
  ASSUME NEW c
  PROVE  IsFiniteSet(ThreadsOf(c)) /\ Cardinality(ThreadsOf(c)) \in Nat
BY LifecycleAssumption, ThreadsKnown, FS_Subset, FS_CardinalityType

\* Everybody in a set is counted when the count is that of the set; until then
\* somebody is missing.
LEMMA CountsAll ==
  ASSUME NEW S, IsFiniteSet(S), NEW T \in SUBSET S
  PROVE  /\ Cardinality(T) = Cardinality(S) <=> T = S
         /\ Cardinality(T) \in 0 .. Cardinality(S) /\ Cardinality(S) \in Nat
         /\ \A x \in S \ T : /\ Cardinality(T \cup {x}) = Cardinality(T) + 1
                             /\ Cardinality(T) # Cardinality(S)
<1>1. IsFiniteSet(T) /\ Cardinality(T) <= Cardinality(S) /\ (Cardinality(S) = Cardinality(T) => S = T)
  BY FS_Subset
<1>2. Cardinality(S) \in Nat /\ Cardinality(T) \in Nat
  BY <1>1, FS_CardinalityType
<1>3. \A x \in S \ T : Cardinality(T \cup {x}) = Cardinality(T) + 1
  BY <1>1, FS_AddElement
<1> QED  BY <1>1, <1>2, <1>3

-----------------------------------------------------------------------------
(* What a step leaves alone.                                               *)

\* The channels, by their two ends.
LEMMA Channels1 ==
  /\ NameNode \in Entities
  /\ \A e \in Bgs \cup Servers : e \in Entities /\ e \in Receivers(NameNode) /\ NameNode \in Receivers(e)
  /\ \A s \in Servers : \A b \in OnChannel(Bgs, s) :
       b \in Bgs /\ b \in Receivers(s) /\ s \in Receivers(b) /\ s \in OnChannel(Servers, b)
  /\ \A b \in Bgs : \A s \in OnChannel(Servers, b) : s \in Servers /\ b \in OnChannel(Bgs, s)
BY ReceiversOf, EntitiesAre, OnChannels

\* A worker hears from the threads of its process; the head worker talks to the init thread.
LEMMA Channels2 ==
  /\ \A b \in Bgs : \A t \in ThreadsOf(ProcessOf(b)) :
       t \in Threads /\ App(t) \in Entities /\ b \in Receivers(App(t))
  /\ \A b \in Bgs : /\ InitOf(b) \in ThreadsOf(ProcessOf(b)) /\ InitOf(b) \in Threads
                    /\ ClientOf[InitOf(b)] = ProcessOf(b) /\ InitOf(b) = InitThread[ProcessOf(b)]
  /\ \A c \in Clients : /\ HeadBg(c) \in Entities /\ App(InitThread[c]) \in Receivers(HeadBg(c))
                        /\ InitThread[c] \in Threads /\ InitOf(HeadBg(c)) = InitThread[c]
                        /\ InitThread[c] \in ThreadsOf(c)
BY ReceiversOf, EntitiesAre, ThreadsKnown, Workers DEF InitOf

\* Nothing is sent or received between these.
SameToBgs      == \A b \in Bgs : net'[NameNode][b] = net[NameNode][b]
SameFromBgs    == \A b \in Bgs : net'[b][NameNode] = net[b][NameNode]
SameToServers  == \A s \in Servers : net'[NameNode][s] = net[NameNode][s]
SameFromServers == \A s \in Servers : net'[s][NameNode] = net[s][NameNode]
SameOpLogs     == \A s \in Servers : \A b \in OnChannel(Bgs, s) : net'[b][s] = net[b][s]
SameAnswers    == \A s \in Servers : \A b \in OnChannel(Bgs, s) : net'[s][b] = net[s][b]
SameCalls      == \A b \in Bgs : \A t \in ThreadsOf(ProcessOf(b)) : net'[App(t)][b] = net[App(t)][b]
SameReturns    == \A c \in Clients : net'[HeadBg(c)][App(InitThread[c])] = net[HeadBg(c)][App(InitThread[c])]

SameStages == \A b \in Bgs : bg'[b].stage = bg[b].stage
SameGone   == \A b \in Bgs : bg'[b].gone = bg[b].gone

\* The tables of b's process, which only its head worker looks at when they change.
SameTablesOf(b) ==
  \/ tables'[ProcessOf(b)] = tables[ProcessOf(b)]
  \/ ~IsHead(b) /\ bg[b].stage \notin {"tables", "asked"}

\* The stages stay as they are.
LEMMA StagesStay ==
  ASSUME StagesInv, thread' = thread, tables' = tables, SameStages
  PROVE  StagesInv'
BY Workers DEF StagesInv, WithInit, AfterInit, KnowsTables, SameStages, IsHead, InitOf

\* What the name node knows of connections and shut-downs.
LEMMA NameNodeStays ==
  ASSUME NameNodeInv, nameNode' = nameNode, connected'[NameNode] = connected[NameNode],
         SameFromBgs, \A s \in Servers : s \notin connected[NameNode] => net'[s][NameNode] = net[s][NameNode],
         SameGone
  PROVE  NameNodeInv'
<1>1. ShutDownsAt(NameNode, Bgs)' = ShutDownsAt(NameNode, Bgs)
  BY DEF ShutDownsAt, Down, SameGone, SameFromBgs
<1> QED  BY <1>1 DEF NameNodeInv, SameFromBgs

\* What the servers know of them.
LEMMA ServerStays ==
  ASSUME ServerInv, SameGone, SameOpLogs,
         \A s \in Servers : /\ server'[s].stage = server[s].stage /\ server'[s].down = server[s].down
                            /\ connected'[s] = connected[s]
  PROVE  ServerInv'
<1> SUFFICES ASSUME NEW s \in Servers
             PROVE  ShutDownsAt(s, OnChannel(Bgs, s))' = ShutDownsAt(s, OnChannel(Bgs, s))
  BY DEF ServerInv
<1> QED  BY Channels1 DEF ShutDownsAt, Down, SameGone, SameOpLogs

\* A worker and the name node.
LEMMA FromNameNodeStays ==
  ASSUME NEW b \in Bgs, FromNameNode(b), bg'[b].stage = bg[b].stage, nameNode'.stage = nameNode.stage,
         creating' = creating, SameTablesOf(b),
         net'[NameNode][b] = net[NameNode][b], net'[b][NameNode] = net[b][NameNode]
  PROVE  FromNameNode(b)'
BY DEF FromNameNode, AskedFor, Holds, AllCreated, HaveCreatedAllTables, SameTablesOf

\* and what the name node has from it.
LEMMA ToNameNodeStays ==
  ASSUME NEW b \in Bgs, ToNameNode(b), bg'[b].stage = bg[b].stage, bg'[b].gone = bg[b].gone,
         net'[b][NameNode] = net[b][NameNode]
  PROVE  ToNameNode(b)'
BY DEF ToNameNode, Down

\* A worker and a server.
LEMMA ToServerStays ==
  ASSUME NEW b \in Bgs, NEW s \in Servers, ToServer(b, s), bg'[b].stage = bg[b].stage, bg'[b].gone = bg[b].gone,
         connected'[s] = connected[s], net'[b][s] = net[b][s]
  PROVE  ToServer(b, s)'
BY DEF ToServer, Down

\* and the other way round.
LEMMA FromServerStays ==
  ASSUME NEW b \in Bgs, NEW s \in Servers, FromServer(s, b), bg'[b].stage = bg[b].stage,
         server'[s].stage = server[s].stage, net'[s][b] = net[s][b]
  PROVE  FromServer(s, b)'
BY DEF FromServer

\* What a worker has counted.
LEMMA StartedStays ==
  ASSUME NEW b \in Bgs, \A s \in Servers : server[s].stage = "init" <=> server'[s].stage = "init",
         bg[b].stage = "connect" <=> bg'[b].stage = "connect",
         \A e \in Peers(b) : net[e][b] = << Msg("ClientStart") >> <=> net'[e][b] = << Msg("ClientStart") >>
  PROVE  StartsAt(b)' = StartsAt(b)
BY Channels1 DEF StartsAt, Peers

\* Who has acknowledged,
LEMMA AcksStay ==
  ASSUME NEW b \in Bgs, \A e \in Peers(b) : Exited(e) /\ net[e][b] = << >> <=> (Exited(e) /\ net[e][b] = << >>)'
  PROVE  AcksAt(b)' = AcksAt(b)
BY DEF AcksAt, Peers

\* and which threads came and went.
LEMMA AppsStay ==
  ASSUME NEW b \in Bgs, AppsInv, \A t \in ThreadsOf(ProcessOf(b)) : thread'[t] = thread[t], bg'[b].apps = bg[b].apps, bg'[b].gone = bg[b].gone,
         \A t \in ThreadsOf(ProcessOf(b)) : net'[App(t)][b] = net[App(t)][b]
  PROVE  /\ bg'[b].apps = Cardinality(AppsAt(b)') /\ bg'[b].gone = Cardinality(GoneAt(b)')
<1>1. AppsAt(b)' = AppsAt(b) /\ GoneAt(b)' = GoneAt(b)
  BY DEF AppsAt, GoneAt, Holds
<1> QED  BY <1>1 DEF AppsInv

\* A worker and the threads of its process.
LEMMA FromInitStays ==
  ASSUME NEW b \in Bgs, FromInit(b), bg'[b].stage = bg[b].stage, thread'[InitOf(b)] = thread[InitOf(b)],
         SameTablesOf(b), net'[App(InitOf(b))][b] = net[App(InitOf(b))][b]
  PROVE  FromInit(b)'
BY DEF FromInit, InitOf, IsHead, SameTablesOf

\* and from any other thread.
LEMMA FromThreadStays ==
  ASSUME NEW b \in Bgs, NEW t \in Threads, FromThread(t, b), thread'[t] = thread[t],
         net'[App(t)][b] = net[App(t)][b]
  PROVE  FromThread(t, b)'
BY DEF FromThread

\* What the init thread gets.
LEMMA ToInitStays ==
  ASSUME NEW c \in Clients, ToInit(c), bg'[HeadBg(c)].stage = bg[HeadBg(c)].stage,
         thread'[InitThread[c]] = thread[InitThread[c]],
         net'[HeadBg(c)][App(InitThread[c])] = net[HeadBg(c)][App(InitThread[c])],
         net'[App(InitThread[c])][HeadBg(c)] = net[App(InitThread[c])][HeadBg(c)]
  PROVE  ToInit(c)'
BY DEF ToInit

\* The creation of tables.
LEMMA TablesStay ==
  ASSUME TablesInv, creating' = creating, SameToServers, SameFromServers,
         connected'[NameNode] = connected[NameNode], nameNode.stage # "init" => nameNode'.stage # "init",
         \A s \in Servers : server'[s].tables = server[s].tables /\ (server[s].stage # "init" => server'[s].stage # "init")
  PROVE  TablesInv'
<1>1. ASSUME NEW s \in Servers PROVE ServerTables(s)'
  BY <1>1 DEF TablesInv, ServerTables, Told, Replied, Holds, Requests, SameToServers, SameFromServers
<1>2. ASSUME NEW tb \in Tables PROVE CreatedOn(tb)' = CreatedOn(tb)
  BY DEF CreatedOn, Replied, Holds, SameFromServers
<1> QED  BY <1>1, <1>2 DEF TablesInv

\* Which processes have been answered, and who is queued.
LEMMA CreatingStays ==
  ASSUME CreatingInv, creating' = creating,
         \A b \in Bgs : \A tb \in Tables : QueuedFor(b, tb) => QueuedFor(b, tb)',
         \A c \in Clients : \A tb \in Tables : Answered(c, tb)' <=> Answered(c, tb)
  PROVE  CreatingInv'
<1> SUFFICES ASSUME NEW tb \in Tables PROVE CreatingOK(tb)'
  BY DEF CreatingInv
<1>1. {c \in Clients : Answered(c, tb)}' = {c \in Clients : Answered(c, tb)}
  OBVIOUS
<1>2. CreatingOK(tb)
  BY DEF CreatingInv
<1>3. \A b \in Bgs : Holds(creating[tb].toReply, b)' <=> Holds(creating[tb].toReply, b)
  BY DEF Holds
<1> QED  BY <1>1, <1>2, <1>3 DEF CreatingOK, ReceivedFromAllServers

\* Between the name node and the workers nothing happens.
LEMMA NameNodeSideStays ==
  ASSUME IInv, SameToBgs, SameFromBgs, creating' = creating, tables' = tables, SameStages, SameGone,
         nameNode'.stage = nameNode.stage, connected'[NameNode] = connected[NameNode]
  PROVE  FromNameNodeInv' /\ ToNameNodeInv' /\ CreatingInv'
<1>1. FromNameNodeInv'
  BY FromNameNodeStays DEF IInv, FromNameNodeInv, SameTablesOf, SameToBgs, SameFromBgs, SameStages
<1>2. ToNameNodeInv'
  BY ToNameNodeStays DEF IInv, ToNameNodeInv, SameFromBgs, SameStages, SameGone
<1>3. \A b \in Bgs : \A tb \in Tables : QueuedFor(b, tb) => QueuedFor(b, tb)'
  BY DEF QueuedFor, SameToBgs, SameFromBgs, SameStages
<1>4. \A c \in Clients : \A tb \in Tables : Answered(c, tb)' <=> Answered(c, tb)
  BY Workers DEF Answered, Holds, SameToBgs
<1>5. CreatingInv'
  BY <1>3, <1>4, CreatingStays DEF IInv
<1> QED  BY <1>1, <1>2, <1>5

\* Between the threads and the workers nothing happens.
LEMMA ThreadSideStays ==
  ASSUME IInv, SameCalls, SameReturns, thread' = thread, tables' = tables, SameStages, SameGone,
         \A b \in Bgs : bg'[b].apps = bg[b].apps
  PROVE  AppsInv' /\ FromInitInv' /\ FromThreadInv' /\ ToInitInv'
<1>1. ASSUME NEW b \in Bgs
      PROVE  /\ bg'[b].apps = Cardinality(AppsAt(b)') /\ bg'[b].gone = Cardinality(GoneAt(b)')
             /\ FromInit(b)' /\ \A t \in ThreadsOf(ProcessOf(b)) : FromThread(t, b)'
  <2>1. /\ FromInit(b) /\ InitOf(b) \in ThreadsOf(ProcessOf(b))
        /\ \A t \in ThreadsOf(ProcessOf(b)) : t \in Threads /\ FromThread(t, b)
        /\ \A t \in ThreadsOf(ProcessOf(b)) : net'[App(t)][b] = net[App(t)][b]
        /\ bg'[b].stage = bg[b].stage /\ bg'[b].gone = bg[b].gone /\ AppsInv
    BY Channels2 DEF IInv, FromInitInv, FromThreadInv, SameCalls, SameStages, SameGone
  <2>2. /\ bg'[b].apps = Cardinality(AppsAt(b)') /\ bg'[b].gone = Cardinality(GoneAt(b)')
    BY <2>1, AppsStay
  <2>3. FromInit(b)'
    BY <2>1, FromInitStays DEF SameTablesOf
  <2>4. \A t \in ThreadsOf(ProcessOf(b)) : FromThread(t, b)'
    BY <2>1, FromThreadStays
  <2> QED  BY <2>2, <2>3, <2>4
<1>2. ASSUME NEW c \in Clients PROVE ToInit(c)'
  <2>1. /\ ToInit(c) /\ HeadBg(c) \in Bgs /\ ProcessOf(HeadBg(c)) = c /\ InitThread[c] \in ThreadsOf(c)
    BY Workers, Channels2 DEF IInv, ToInitInv
  <2> QED  BY <2>1, ToInitStays DEF SameCalls, SameReturns, SameStages
<1> QED  BY <1>1, <1>2 DEF AppsInv, FromInitInv, FromThreadInv, ToInitInv

\* Between the servers and the workers nothing happens.
LEMMA ServerSideStays ==
  ASSUME IInv, SameOpLogs, SameAnswers, SameStages, SameGone,
         \A s \in Servers : /\ server'[s].stage = server[s].stage /\ server'[s].down = server[s].down
                            /\ connected'[s] = connected[s]
  PROVE  ServerInv' /\ ToServerInv' /\ FromServerInv'
<1>1. ServerInv'
  BY ServerStays DEF IInv
<1>2. ToServerInv'
  BY ToServerStays, Channels1 DEF IInv, ToServerInv, SameOpLogs, SameStages, SameGone
<1>3. FromServerInv'
  BY FromServerStays, Channels1 DEF IInv, FromServerInv, SameAnswers, SameStages
<1> QED  BY <1>1, <1>2, <1>3

\* What the workers have counted of the name node and the servers.
LEMMA WorkerCountsStay ==
  ASSUME IInv, SameToBgs, SameAnswers, SameStages,
         \A b \in Bgs : bg'[b].started = bg[b].started /\ bg'[b].acks = bg[b].acks,
         nameNode'.stage = nameNode.stage, \A s \in Servers : server'[s].stage = server[s].stage
  PROVE  StartedInv' /\ AcksInv'
<1> SUFFICES ASSUME NEW b \in Bgs PROVE StartsAt(b)' = StartsAt(b) /\ AcksAt(b)' = AcksAt(b)
  BY DEF IInv, StartedInv, AcksInv, SameStages
<1>1. \A e \in Peers(b) : net'[e][b] = net[e][b]
  BY Channels1 DEF Peers, SameToBgs, SameAnswers
<1>2. \A e \in Peers(b) : Exited(e)' <=> Exited(e)
  BY Channels1, Kinds DEF Peers, Exited
<1> QED  BY <1>1, <1>2, StartedStays, AcksStay DEF SameStages

-----------------------------------------------------------------------------
(* The servers' steps.                                                     *)

\* A server takes an oplog.
LEMMA ServerOpLogKeeps ==
  ASSUME IInv, NEW s \in Servers, NEW b \in OnChannel(Bgs, s), ServerOpLog(s, b)
  PROVE  IInv'
<1>0. b \in Bgs /\ b \in Entities /\ s \in Receivers(b)
  BY Channels1
<1>1. /\ net[b][s] # << >> /\ Head(net[b][s]).type = "ClientSendOpLog" /\ net' = Received(b, s)
      /\ UNCHANGED <<nameNode, connected, creating, server, bg, tables, thread, clocks>>
  BY DEF ServerOpLog, Incoming
<1>2. /\ IsNet(net')
      /\ \A x \in Entities : \A y \in Receivers(x) :
           net'[x][y] = IF x = b /\ y = s THEN Tail(net[b][s]) ELSE net[x][y]
  BY <1>0, <1>1, ReceivedNet DEF IInv, ShapeInv
<1>3. SameToBgs /\ SameFromBgs /\ SameToServers /\ SameFromServers /\ SameAnswers /\ SameCalls /\ SameReturns
  BY <1>0, <1>2, Channels1, Channels2, Kinds
     DEF SameToBgs, SameFromBgs, SameToServers, SameFromServers, SameAnswers, SameCalls, SameReturns
<1>4. \A z \in Servers : \A d \in OnChannel(Bgs, z) :
        net'[d][z] = IF d = b /\ z = s THEN Tail(net[b][s]) ELSE net[d][z]
  BY <1>2, Channels1
<1>5. ToServer(b, s)' /\ (Down(b) => Tail(net[b][s]) # << >>)
  <2> DEFINE q == net[b][s]
  <2>1. ToServer(b, s) /\ q \in Seq(Message)
    BY <1>0 DEF IInv, ShapeInv, IsNet, ToServerInv
  <2>2. /\ Head(q) = q[1] /\ Len(q) \in Nat \ {0} /\ DOMAIN q = 1 .. Len(q)
        /\ Len(Tail(q)) = Len(q) - 1 /\ DOMAIN Tail(q) = 1 .. Len(q) - 1
        /\ \A i \in 1 .. Len(q) - 1 : Tail(q)[i] = q[i + 1]
        /\ Tail(q) = << >> <=> Len(q) = 1
    BY <1>1, <2>1, Taken
  <2>3. bg[b].stage # "connect" /\ b \in connected[s]
    BY <1>1, <2>1, OneMessage, Messages DEF ToServer
  <2>4. q[1] # Msg("ClientShutDown")
    BY <1>1, <2>2, Messages
  <2>5. Tail(q) # << >> => Tail(q)[Len(q) - 1] = q[Len(q)]
    BY <2>2
  <2>6. net'[b][s] = Tail(q)
    BY <1>4
  <2>7. /\ q # << >> => bg[b].stage \in Runs
        /\ \A i \in DOMAIN q : \/ q[i] = Msg("ClientSendOpLog")
                               \/ q[i] = Msg("ClientShutDown") /\ Down(b) /\ i = Len(q)
        /\ Down(b) => q[Len(q)] = Msg("ClientShutDown")
    BY <1>1, <2>1, <2>3 DEF ToServer
  <2> HIDE DEF q
  <2>8. /\ \A i \in DOMAIN Tail(q) : \/ Tail(q)[i] = Msg("ClientSendOpLog")
                                     \/ Tail(q)[i] = Msg("ClientShutDown") /\ Down(b) /\ i = Len(Tail(q))
        /\ Down(b) => Tail(q) # << >> /\ Tail(q)[Len(Tail(q))] = Msg("ClientShutDown")
    BY <2>2, <2>4, <2>5, <2>7
  <2> QED  BY <1>1, <2>3, <2>6, <2>7, <2>8 DEF ToServer, Down, q
<1>6. \A z \in Servers : ShutDownsAt(z, OnChannel(Bgs, z))' = ShutDownsAt(z, OnChannel(Bgs, z))
  BY <1>1, <1>4, <1>5, Channels1 DEF ShutDownsAt, Down
<1>7. ServerInv'
  BY <1>1, <1>6 DEF IInv, ServerInv
<1>8. ToServerInv' /\ FromServerInv'
  BY <1>1, <1>3, <1>4, <1>5, ToServerStays, FromServerStays, Channels1 DEF IInv, ToServerInv, FromServerInv, SameAnswers
<1>9. SameStages /\ SameGone
  BY <1>1 DEF SameStages, SameGone
<1>10. ShapeInv' /\ StagesInv' /\ NameNodeInv' /\ TablesInv'
  BY <1>1, <1>2, <1>3, <1>9, StagesStay, NameNodeStays, TablesStay DEF IInv, ShapeInv, SameFromServers
<1> QED  BY <1>1, <1>3, <1>7, <1>8, <1>9, <1>10, NameNodeSideStays, ThreadSideStays, WorkerCountsStay DEF IInv

-----------------------------------------------------------------------------
(* The parts of the invariant that are about one worker.                   *)

NameNodeOK(b) == FromNameNode(b) /\ (b \in connected[NameNode] => ToNameNode(b))

ServersOK(b) == \A s \in OnChannel(Servers, b) : ToServer(b, s) /\ FromServer(s, b)

CountsOK(b) ==
  /\ bg[b].started = Cardinality(StartsAt(b))
  /\ bg[b].stage \in {"connect", "handshake"} <=> bg[b].started # Cardinality(Clients) + 1
  /\ bg[b].acks = Cardinality(AcksAt(b))
  /\ bg[b].stage = "exited" <=> bg[b].acks = Cardinality(Clients) + 1

ThreadsOK(b) ==
  /\ bg[b].apps = Cardinality(AppsAt(b)) /\ bg[b].gone = Cardinality(GoneAt(b))
  /\ FromInit(b) /\ \A t \in ThreadsOf(ProcessOf(b)) : FromThread(t, b)
  /\ b = HeadBg(ProcessOf(b)) => ToInit(ProcessOf(b))

WorkerOK(b) == NameNodeOK(b) /\ ServersOK(b) /\ CountsOK(b) /\ ThreadsOK(b)

WorkersInv ==
  /\ FromNameNodeInv /\ ToNameNodeInv /\ ToServerInv /\ FromServerInv
  /\ StartedInv /\ AcksInv /\ AppsInv /\ FromInitInv /\ FromThreadInv /\ ToInitInv

\* They are the invariant, worker by worker.
LEMMA WorkerByWorker == ShapeInv => (WorkersInv <=> \A b \in Bgs : WorkerOK(b))
<1> SUFFICES ASSUME ShapeInv PROVE WorkersInv <=> \A b \in Bgs : WorkerOK(b)
  OBVIOUS
<1>1. ASSUME WorkersInv, NEW b \in Bgs PROVE WorkerOK(b)
  <2>1. NameNodeOK(b)
    BY <1>1 DEF WorkersInv, NameNodeOK, FromNameNodeInv, ToNameNodeInv
  <2>2. ServersOK(b)
    BY <1>1, Channels1 DEF WorkersInv, ServersOK, ToServerInv, FromServerInv
  <2>3. CountsOK(b)
    BY <1>1 DEF WorkersInv, CountsOK, StartedInv, AcksInv
  <2>4. ThreadsOK(b)
    BY <1>1, Workers DEF WorkersInv, ThreadsOK, AppsInv, FromInitInv, FromThreadInv, ToInitInv
  <2> QED  BY <2>1, <2>2, <2>3, <2>4 DEF WorkerOK
<1>2. ASSUME \A b \in Bgs : WorkerOK(b) PROVE WorkersInv
  <2>1. FromNameNodeInv /\ ToNameNodeInv
    BY <1>2 DEF WorkerOK, NameNodeOK, FromNameNodeInv, ToNameNodeInv
  <2>2. ToServerInv /\ FromServerInv
    BY <1>2, Channels1 DEF WorkerOK, ServersOK, ToServerInv, FromServerInv
  <2>3. StartedInv /\ AcksInv
    BY <1>2 DEF WorkerOK, CountsOK, StartedInv, AcksInv
  <2>4. AppsInv /\ FromInitInv /\ FromThreadInv
    BY <1>2 DEF WorkerOK, ThreadsOK, AppsInv, FromInitInv, FromThreadInv
  <2>5. ToInitInv
    BY <1>2, Workers DEF WorkerOK, ThreadsOK, ToInitInv
  <2> QED  BY <2>1, <2>2, <2>3, <2>4, <2>5 DEF WorkersInv
<1> QED  BY <1>1, <1>2

\* So after a step,
LEMMA WorkerByWorkerNext == (ShapeInv => (WorkersInv <=> \A b \in Bgs : WorkerOK(b)))'
BY WorkerByWorker, PTL

\* The same of the whole invariant.
LEMMA Parts ==
  IInv <=> /\ ShapeInv /\ StagesInv /\ NameNodeInv /\ ServerInv /\ TablesInv /\ CreatingInv
           /\ \A b \in Bgs : WorkerOK(b)
BY WorkerByWorker DEF IInv, WorkersInv

\* as of the whole.
LEMMA PartsNext ==
  (IInv <=> /\ ShapeInv /\ StagesInv /\ NameNodeInv /\ ServerInv /\ TablesInv /\ CreatingInv
            /\ \A b \in Bgs : WorkerOK(b))'
BY Parts, PTL

\* Types of a worker.
LEMMA WorkerTypes ==
  ASSUME ShapeInv
  PROVE  /\ \A b \in Bgs : /\ bg[b].stage \in BgStages /\ bg[b].started \in Nat /\ bg[b].apps \in Nat
                           /\ bg[b].gone \in Nat /\ bg[b].acks \in Nat
         /\ \A t \in Threads : thread[t] \in ThreadStages
         /\ \A s \in Servers : server[s].stage \in {"init", "run", "exited"}
         /\ nameNode.stage \in {"init", "run", "exited"}
         /\ \A e \in Entities : \A f \in Receivers(e) : net[e][f] \in Seq(Message)
BY DEF ShapeInv, IsNet

-----------------------------------------------------------------------------
(* What the counters tell.                                                 *)

\* The init thread and its workers go through the stages together.
LEMMA InStep ==
  ASSUME IInv, NEW b \in Bgs
  PROVE  /\ bg[b].stage \in Starts <=> thread[InitOf(b)] = "start"
         /\ bg[b].stage \in Creates <=> thread[InitOf(b)] \in {"register", "create", "wait"}
         /\ bg[b].stage \in Runs <=> thread[InitOf(b)] \in {"run", "done"}
         /\ bg[b].stage \notin Runs => \A t \in ThreadsOf(ProcessOf(b)) : t # InitOf(b) => thread[t] = "new"
         /\ \A t \in ThreadsOf(ProcessOf(b)) : /\ t \in Threads /\ ClientOf[t] = ProcessOf(b)
                                               /\ t # InitOf(b) => thread[t] \in {"new", "run", "done"}
<1>1. /\ bg[b].stage \in BgStages /\ thread[InitOf(b)] \in ThreadStages
      /\ \A t \in ThreadsOf(ProcessOf(b)) : t \in Threads /\ ClientOf[t] = ProcessOf(b)
      /\ InitOf(b) = InitThread[ProcessOf(b)]
  BY WorkerTypes, Channels2, ThreadsKnown DEF IInv
<1>2. /\ thread[InitOf(b)] # "new"
      /\ thread[InitOf(b)] = "start" => bg[b].stage \in Starts
      /\ thread[InitOf(b)] \in {"register", "create", "wait"} => bg[b].stage \in Creates
      /\ thread[InitOf(b)] \in {"run", "done"} => bg[b].stage \in Runs
  BY DEF IInv, StagesInv, WithInit, AfterInit, KnowsTables
<1>3. /\ bg[b].stage \in Starts <=> thread[InitOf(b)] = "start"
      /\ bg[b].stage \in Creates <=> thread[InitOf(b)] \in {"register", "create", "wait"}
      /\ bg[b].stage \in Runs <=> thread[InitOf(b)] \in {"run", "done"}
  BY <1>1, <1>2 DEF ThreadStages, Starts, Creates, Runs
<1>4. \A t \in ThreadsOf(ProcessOf(b)) : t # InitOf(b) =>
         /\ thread[t] \in {"new", "run", "done"}
         /\ thread[t] # "new" => thread[InitOf(b)] \in {"run", "done"}
  BY <1>1 DEF IInv, StagesInv, WithInit, AfterInit, KnowsTables
<1> QED  BY <1>1, <1>3, <1>4

\* When all threads have taken leave of a worker, nothing of theirs is left.
LEMMA DownMeans ==
  ASSUME IInv, NEW b \in Bgs, Down(b)
  PROVE  /\ \A t \in ThreadsOf(ProcessOf(b)) : thread[t] = "done" /\ net[App(t)][b] = << >>
         /\ bg[b].stage \in Runs /\ AllCreated
<1>1. GoneAt(b) = ThreadsOf(ProcessOf(b))
  <2>1. GoneAt(b) \in SUBSET ThreadsOf(ProcessOf(b)) /\ IsFiniteSet(ThreadsOf(ProcessOf(b)))
    BY NumberOfThreads DEF GoneAt
  <2>2. Cardinality(GoneAt(b)) = Cardinality(ThreadsOf(ProcessOf(b)))
    BY DEF IInv, AppsInv, Down
  <2> QED  BY <2>1, <2>2, CountsAll
<1>2. InitOf(b) \in ThreadsOf(ProcessOf(b))
  BY Channels2
<1>3. bg[b].stage \in Runs
  BY <1>1, <1>2, InStep DEF GoneAt
<1> QED  BY <1>1, <1>3 DEF GoneAt, IInv, FromNameNodeInv, FromNameNode

\* A thread that has something to say has not taken leave.
LEMMA NotDown ==
  ASSUME IInv, NEW b \in Bgs
  PROVE  /\ bg[b].stage \notin Runs => ~Down(b)
         /\ \A t \in ThreadsOf(ProcessOf(b)) : net[App(t)][b] # << >> => ~Down(b)
BY DownMeans

\* Once it has started, the name node knows everybody,
LEMMA AllConnected ==
  ASSUME IInv
  PROVE  /\ nameNode.stage # "init" => connected[NameNode] = Bgs \cup Servers
         /\ nameNode.stage = "init" => \A b \in Bgs : bg[b].stage = "connect"
         /\ \A s \in Servers : server[s].stage # "init" => connected[s] = OnChannel(Bgs, s)
         /\ \A b \in Bgs : bg[b].stage # "connect" => connected[NameNode] = Bgs \cup Servers
BY DEF IInv, NameNodeInv, ServerInv, FromNameNodeInv, FromNameNode

\* when it has ended, everybody has taken leave,
LEMMA NameNodeGone ==
  ASSUME IInv, nameNode.stage = "exited"
  PROVE  \A b \in Bgs : Down(b) /\ net[b][NameNode] = << >> /\ bg[b].stage \in Runs /\ AllCreated
<1>1. ShutDownsAt(NameNode, Bgs) \in SUBSET Bgs /\ Cardinality(ShutDownsAt(NameNode, Bgs)) = Cardinality(Bgs)
  BY DEF IInv, NameNodeInv, ShutDownsAt
<1>2. ShutDownsAt(NameNode, Bgs) = Bgs
  BY <1>1, NumberOfWorkers, CountsAll
<1> QED  BY <1>2, DownMeans DEF ShutDownsAt

\* and so it is with a server.
LEMMA ServerGone ==
  ASSUME IInv, NEW s \in Servers, server[s].stage = "exited"
  PROVE  \A b \in OnChannel(Bgs, s) : Down(b) /\ net[b][s] = << >> /\ bg[b].stage \in Runs /\ AllCreated
<1>1. /\ ShutDownsAt(s, OnChannel(Bgs, s)) \in SUBSET OnChannel(Bgs, s)
      /\ Cardinality(ShutDownsAt(s, OnChannel(Bgs, s))) = Cardinality(Clients)
  BY DEF IInv, ServerInv, ShutDownsAt
<1>2. IsFiniteSet(OnChannel(Bgs, s)) /\ Cardinality(OnChannel(Bgs, s)) = Cardinality(Clients)
  BY ServersKnown, NumberOnChannel
<1>3. ShutDownsAt(s, OnChannel(Bgs, s)) = OnChannel(Bgs, s)
  BY <1>1, <1>2, CountsAll
<1> QED  BY <1>3, Channels1, DownMeans DEF ShutDownsAt

\* A worker that has gone on has the permission of all.
LEMMA AllStarted ==
  ASSUME IInv, NEW b \in Bgs, bg[b].stage \notin {"connect", "handshake"}
  PROVE  /\ StartsAt(b) = Peers(b) /\ nameNode.stage # "init" /\ net[NameNode][b] # << Msg("ClientStart") >>
         /\ \A s \in OnChannel(Servers, b) : /\ server[s].stage # "init" /\ b \in connected[s]
                                             /\ net[s][b] # << Msg("ClientStart") >>
<1>1. StartsAt(b) \in SUBSET Peers(b) /\ Cardinality(StartsAt(b)) = Cardinality(Clients) + 1
  BY DEF IInv, StartedInv, StartsAt
<1>2. StartsAt(b) = Peers(b)
  BY <1>1, NumberOfPeers, CountsAll
<1>3. \A s \in OnChannel(Servers, b) : s # NameNode /\ s \in Peers(b) /\ s \in Servers /\ b \in OnChannel(Bgs, s)
  BY Kinds, Channels1 DEF Peers
<1>4. \A s \in OnChannel(Servers, b) : server[s].stage # "init" /\ net[s][b] # << Msg("ClientStart") >>
  BY <1>2, <1>3 DEF StartsAt
<1>5. NameNode \in StartsAt(b)
  BY <1>2 DEF Peers
<1> QED  BY <1>2, <1>3, <1>4, <1>5, AllConnected DEF StartsAt, IInv, FromNameNodeInv, FromNameNode

\* A worker that has ended has the acknowledgement of all.
LEMMA WorkerGone ==
  ASSUME IInv, NEW b \in Bgs
  PROVE  bg[b].stage = "exited" <=> \A e \in Peers(b) : Exited(e) /\ net[e][b] = << >>
<1>1. /\ AcksAt(b) \in SUBSET Peers(b)
      /\ bg[b].stage = "exited" <=> Cardinality(AcksAt(b)) = Cardinality(Clients) + 1
  BY DEF IInv, AcksInv, AcksAt
<1>2. Cardinality(AcksAt(b)) = Cardinality(Clients) + 1 <=> AcksAt(b) = Peers(b)
  BY <1>1, NumberOfPeers, CountsAll
<1> QED  BY <1>1, <1>2 DEF AcksAt

-----------------------------------------------------------------------------
(* What a step leaves alone, worker by worker.                             *)

\* The channels between worker b and the others.
SameWithNameNode(b) == net'[NameNode][b] = net[NameNode][b] /\ net'[b][NameNode] = net[b][NameNode]
SameWithServers(b) == \A s \in OnChannel(Servers, b) : net'[b][s] = net[b][s] /\ net'[s][b] = net[s][b]
SameWithThreads(b) ==
  /\ \A t \in ThreadsOf(ProcessOf(b)) : net'[App(t)][b] = net[App(t)][b]
  /\ b = HeadBg(ProcessOf(b)) => net'[b][App(InitOf(b))] = net[b][App(InitOf(b))]

\* The servers on b's channel, and the threads of its process.
SameServersOf(b) ==
  \A s \in OnChannel(Servers, b) : server'[s].stage = server[s].stage /\ connected'[s] = connected[s]
SameThreadsOf(b) ==
  /\ \A t \in ThreadsOf(ProcessOf(b)) : thread'[t] = thread[t]
  /\ SameTablesOf(b)

\* A worker's dealings with the name node,
LEMMA NameNodeOKStays ==
  ASSUME NEW b \in Bgs, NameNodeOK(b), SameWithNameNode(b), SameTablesOf(b),
         bg'[b].stage = bg[b].stage, bg'[b].gone = bg[b].gone, nameNode'.stage = nameNode.stage,
         creating' = creating, connected'[NameNode] = connected[NameNode]
  PROVE  NameNodeOK(b)'
BY FromNameNodeStays, ToNameNodeStays DEF NameNodeOK, SameWithNameNode

\* with the servers of its channel,
LEMMA ServersOKStays ==
  ASSUME NEW b \in Bgs, ServersOK(b), SameWithServers(b), SameServersOf(b),
         bg'[b].stage = bg[b].stage, bg'[b].gone = bg[b].gone
  PROVE  ServersOK(b)'
BY ToServerStays, FromServerStays, Channels1 DEF ServersOK, SameWithServers, SameServersOf

\* what it has counted of both,
LEMMA CountsOKStay ==
  ASSUME NEW b \in Bgs, CountsOK(b), SameWithServers(b), SameServersOf(b),
         net'[NameNode][b] = net[NameNode][b], nameNode'.stage = nameNode.stage,
         bg'[b].stage = bg[b].stage, bg'[b].started = bg[b].started, bg'[b].acks = bg[b].acks
  PROVE  CountsOK(b)'
<1>1. \A e \in Peers(b) : net'[e][b] = net[e][b] /\ (Exited(e)' <=> Exited(e))
  BY Channels1, Kinds DEF Peers, Exited, SameWithServers, SameServersOf
<1>2. StartsAt(b)' = StartsAt(b)
  <2>1. \A e \in Peers(b) : e # NameNode => (server'[e].stage # "init" <=> server[e].stage # "init")
    BY DEF Peers, SameServersOf
  <2> QED  BY <1>1, <2>1 DEF StartsAt
<1>3. AcksAt(b)' = AcksAt(b)
  BY <1>1 DEF AcksAt
<1> QED  BY <1>2, <1>3 DEF CountsOK

\* and its dealings with the threads of its process.
LEMMA ThreadsOKStay ==
  ASSUME NEW b \in Bgs, ThreadsOK(b), SameWithThreads(b), SameThreadsOf(b),
         bg'[b].stage = bg[b].stage, bg'[b].apps = bg[b].apps, bg'[b].gone = bg[b].gone
  PROVE  ThreadsOK(b)'
<1>0. /\ InitOf(b) \in ThreadsOf(ProcessOf(b)) /\ InitOf(b) = InitThread[ProcessOf(b)]
      /\ \A t \in ThreadsOf(ProcessOf(b)) : t \in Threads
      /\ ProcessOf(b) \in Clients
  BY Channels2, Workers
<1>1. AppsAt(b)' = AppsAt(b) /\ GoneAt(b)' = GoneAt(b)
  BY DEF AppsAt, GoneAt, Holds, SameWithThreads, SameThreadsOf
<1>2. FromInit(b)'
  BY <1>0, FromInitStays DEF ThreadsOK, SameWithThreads, SameThreadsOf
<1>3. \A t \in ThreadsOf(ProcessOf(b)) : FromThread(t, b)'
  BY <1>0, FromThreadStays DEF ThreadsOK, SameWithThreads, SameThreadsOf
<1>4. b = HeadBg(ProcessOf(b)) => ToInit(ProcessOf(b))'
  BY <1>0, ToInitStays DEF ThreadsOK, SameWithThreads, SameThreadsOf
<1> QED  BY <1>1, <1>2, <1>3, <1>4 DEF ThreadsOK

\* Nothing happens to worker b.
Aside(b) ==
  /\ SameWithNameNode(b) /\ SameWithServers(b) /\ SameWithThreads(b)
  /\ SameServersOf(b) /\ SameThreadsOf(b) /\ bg'[b] = bg[b]

\* All of it, when a step leaves the worker aside.
LEMMA WorkerStays ==
  ASSUME NEW b \in Bgs, WorkerOK(b), Aside(b), nameNode'.stage = nameNode.stage,
         creating' = creating, connected'[NameNode] = connected[NameNode]
  PROVE  WorkerOK(b)'
<1>1. NameNodeOK(b)'
  BY NameNodeOKStays DEF WorkerOK, Aside, SameThreadsOf
<1>2. ServersOK(b)'
  BY ServersOKStays DEF WorkerOK, Aside
<1>3. CountsOK(b)'
  BY CountsOKStay DEF WorkerOK, Aside, SameWithNameNode
<1>4. ThreadsOK(b)'
  BY ThreadsOKStay DEF WorkerOK, Aside
<1> QED  BY <1>1, <1>2, <1>3, <1>4 DEF WorkerOK

\* Worker b goes from one stage to another, and the servers have no part in it.
Middle == {"init barrier"} \cup Creates

\* Between the handshake and the shut-down, the servers owe a worker nothing.
LEMMA MiddleStays ==
  ASSUME IInv, NEW b \in Bgs, bg[b].stage \in Middle, bg'[b].stage \in Middle \cup {"run"},
         bg'[b].gone = bg[b].gone, bg'[b].started = bg[b].started, bg'[b].acks = bg[b].acks,
         nameNode'.stage = nameNode.stage, SameServersOf(b), SameWithServers(b),
         net'[NameNode][b] # << Msg("ClientStart") >>
  PROVE  ServersOK(b)' /\ CountsOK(b)'
<1>0. WorkerOK(b)
  BY Parts
<1>1. /\ bg[b].stage \notin {"connect", "handshake", "run", "exited"} /\ bg[b].stage \notin Runs
      /\ bg'[b].stage \notin {"connect", "handshake", "exited"}
  BY DEF Middle, Creates, Runs
<1>2. /\ StartsAt(b) = Peers(b)
      /\ \A s \in OnChannel(Servers, b) : /\ server[s].stage # "init" /\ b \in connected[s]
                                          /\ net[s][b] # << Msg("ClientStart") >>
  BY <1>1, AllStarted
<1>3. ~Down(b) /\ ~Down(b)'
  BY <1>1, NotDown DEF Down
<1>4. ServersOK(b)'
  <2> SUFFICES ASSUME NEW s \in OnChannel(Servers, b) PROVE (ToServer(b, s) /\ FromServer(s, b))'
    BY DEF ServersOK
  <2>1. /\ ToServer(b, s) /\ FromServer(s, b) /\ server[s].stage # "init" /\ b \in connected[s]
        /\ net[s][b] # << Msg("ClientStart") >> /\ b \in connected'[s] /\ server'[s].stage = server[s].stage
        /\ net'[b][s] = net[b][s] /\ net'[s][b] = net[s][b]
    BY <1>0, <1>2 DEF WorkerOK, ServersOK, SameServersOf, SameWithServers
  <2>2. net[b][s] = << >>
    BY <1>1, <2>1 DEF ToServer
  <2>3. server[s].stage \in {"run", "exited"} => net[s][b] = << >>
    BY <1>1, <2>1 DEF FromServer
  <2>4. ToServer(b, s)'
    BY <1>1, <2>1, <2>2, EmptySeq DEF ToServer, Down
  <2>5. FromServer(s, b)'
    BY <1>1, <2>1, <2>3 DEF FromServer
  <2> QED  BY <2>4, <2>5
<1>5. StartsAt(b)' = StartsAt(b)
  <2>1. \A e \in Peers(b) : e \in StartsAt(b)'
    BY <1>1, <1>2, Channels1, Kinds DEF StartsAt, Peers, SameServersOf, SameWithServers
  <2>2. StartsAt(b)' \subseteq Peers(b)
    BY DEF StartsAt, Peers
  <2> QED  BY <1>2, <2>1, <2>2
<1>6. AcksAt(b)' = AcksAt(b)
  <2>1. ~Exited(NameNode) /\ ~Exited(NameNode)'
    BY <1>1, NameNodeGone DEF Exited
  <2>2. \A e \in OnChannel(Servers, b) : net'[e][b] = net[e][b] /\ (Exited(e)' <=> Exited(e))
    BY Channels1, Kinds DEF Exited, SameServersOf, SameWithServers
  <2> QED  BY <2>1, <2>2 DEF AcksAt, Peers
<1>7. CountsOK(b)'
  BY <1>0, <1>1, <1>5, <1>6 DEF WorkerOK, CountsOK
<1> QED  BY <1>4, <1>7

\* What the name node and the servers know does not change.
LEMMA NameNodeKnows ==
  ASSUME NameNodeInv, nameNode' = nameNode, connected'[NameNode] = connected[NameNode],
         \A b \in Bgs : b \notin connected[NameNode] => net'[b][NameNode] = net[b][NameNode],
         \A s \in Servers : s \notin connected[NameNode] => net'[s][NameNode] = net[s][NameNode],
         \A b \in Bgs : (Down(b) /\ net[b][NameNode] = << >>)' <=> Down(b) /\ net[b][NameNode] = << >>
  PROVE  NameNodeInv'
<1>1. ShutDownsAt(NameNode, Bgs)' = ShutDownsAt(NameNode, Bgs)
  BY DEF ShutDownsAt
<1> QED  BY <1>1 DEF NameNodeInv

\* A server's count stays right as long as nobody takes leave of it.
LEMMA ServersKnow ==
  ASSUME ServerInv,
         \A s \in Servers : /\ server'[s].stage = server[s].stage /\ server'[s].down = server[s].down
                            /\ connected'[s] = connected[s]
                            /\ \A b \in OnChannel(Bgs, s) :
                                 (Down(b) /\ net[b][s] = << >>)' <=> Down(b) /\ net[b][s] = << >>
  PROVE  ServerInv'
<1> SUFFICES ASSUME NEW s \in Servers
             PROVE  ShutDownsAt(s, OnChannel(Bgs, s))' = ShutDownsAt(s, OnChannel(Bgs, s))
  BY DEF ServerInv
<1> QED  BY DEF ShutDownsAt

-----------------------------------------------------------------------------
(* The threads' steps.                                                     *)

\* A thread's step has to do with the workers of its process, and with nobody
\* else.
ThreadStep(t) ==
  /\ \A x \in Daemons : \A y \in Receivers(x) : y \in Daemons => net'[x][y] = net[x][y]
  /\ UNCHANGED <<nameNode, connected, creating, server, bg, tables>>
  /\ \A u \in Threads \ {t} : /\ thread'[u] = thread[u]
                              /\ \A b \in Receivers(App(u)) : net'[App(u)][b] = net[App(u)][b]
  /\ \A c \in Clients \ {ClientOf[t]} :
       net'[HeadBg(c)][App(InitThread[c])] = net[HeadBg(c)][App(InitThread[c])]

\* After a thread's step, only the workers of its process need another look.
LEMMA ThreadStepKeeps ==
  ASSUME IInv, NEW t \in Threads, ThreadStep(t), ShapeInv', StagesInv',
         \A b \in BgsOf(ClientOf[t]) : ThreadsOK(b)'
  PROVE  IInv'
<1>0. \A b \in Bgs : WorkerOK(b)
  BY Parts
<1>1. UNCHANGED <<nameNode, connected, creating, server, bg, tables>>
  BY DEF ThreadStep
<1>2. \A b \in Bgs : SameWithNameNode(b) /\ SameWithServers(b)
  BY Channels1, EntitiesAre DEF ThreadStep, SameWithNameNode, SameWithServers
<1>3. SameToServers /\ SameFromServers
  BY Channels1, EntitiesAre DEF ThreadStep, SameToServers, SameFromServers
<1>4. SameStages /\ SameGone /\ \A b \in Bgs : SameServersOf(b)
  BY <1>1 DEF SameStages, SameGone, SameServersOf
<1>5. SameToBgs /\ SameFromBgs /\ SameOpLogs
  BY <1>2, Channels1 DEF SameToBgs, SameFromBgs, SameOpLogs, SameWithNameNode, SameWithServers
<1>6. NameNodeInv' /\ ServerInv' /\ TablesInv' /\ CreatingInv'
  BY <1>1, <1>3, <1>4, <1>5, NameNodeStays, ServerStays, TablesStay, NameNodeSideStays DEF IInv, SameFromServers
<1>7. ASSUME NEW b \in Bgs PROVE WorkerOK(b)'
  <2>1. NameNodeOK(b)' /\ ServersOK(b)' /\ CountsOK(b)'
    BY <1>0, <1>1, <1>2, <1>4, NameNodeOKStays, ServersOKStays, CountsOKStay DEF SameTablesOf, WorkerOK, SameWithNameNode
  <2>2. CASE b \in BgsOf(ClientOf[t])
    BY <2>1, <2>2 DEF WorkerOK
  <2>3. CASE b \notin BgsOf(ClientOf[t])
    <3>1. /\ ProcessOf(b) \in Clients \ {ClientOf[t]}
          /\ \A u \in ThreadsOf(ProcessOf(b)) : u \in Threads \ {t} /\ b \in Receivers(App(u))
      BY <2>3, Workers, Channels2, ThreadsKnown DEF BgsOf
    <3>2. SameWithThreads(b) /\ SameThreadsOf(b)
      BY <1>1, <3>1 DEF ThreadStep, SameWithThreads, SameThreadsOf, SameTablesOf, InitOf
    <3>3. ThreadsOK(b)'
      BY <1>0, <1>1, <3>2, ThreadsOKStay DEF WorkerOK
    <3> QED  BY <2>1, <3>3 DEF WorkerOK
  <2> QED  BY <2>2, <2>3
<1> QED  BY <1>6, <1>7, PartsNext

\* A thread that sends to workers of its process.
LEMMA ThreadSends ==
  ASSUME IInv, NEW t \in Threads, NEW R, NEW m \in Message, net' = Sent(net, App(t), R, m)
  PROVE  /\ IsNet(net')
         /\ \A x \in Entities : \A y \in Receivers(x) :
              net'[x][y] = IF x = App(t) /\ y \in R THEN Append(net[x][y], m) ELSE net[x][y]
         /\ \A x \in Daemons : \A y \in Receivers(x) : net'[x][y] = net[x][y]
         /\ \A u \in Threads \ {t} : \A b \in Receivers(App(u)) : net'[App(u)][b] = net[App(u)][b]
         /\ \A c \in Clients : net'[HeadBg(c)][App(InitThread[c])] = net[HeadBg(c)][App(InitThread[c])]
         /\ \A b \in BgsOf(ClientOf[t]) :
              /\ b \in Bgs /\ ProcessOf(b) = ClientOf[t] /\ t \in ThreadsOf(ProcessOf(b))
              /\ net[App(t)][b] \in Seq(Message)
              /\ net'[App(t)][b] = IF b \in R THEN Append(net[App(t)][b], m) ELSE net[App(t)][b]
<1>1. App(t) \in Entities /\ App(t) \notin Daemons
  BY EntitiesAre, Kinds
<1>2. /\ IsNet(net')
      /\ \A x \in Entities : \A y \in Receivers(x) :
           net'[x][y] = IF x = App(t) /\ y \in R THEN Append(net[x][y], m) ELSE net[x][y]
  BY <1>1, SentNet DEF IInv, ShapeInv
<1>3. \A x \in Daemons : x \in Entities
  BY EntitiesAre
<1>4. \A u \in Threads \ {t} : App(u) \in Entities /\ App(u) # App(t)
  BY EntitiesAre, Kinds
<1>5. \A c \in Clients : HeadBg(c) \in Daemons /\ App(InitThread[c]) \in Receivers(HeadBg(c))
  BY Workers, Channels2, EntitiesAre
<1>6. ASSUME NEW b \in BgsOf(ClientOf[t])
      PROVE  /\ b \in Bgs /\ ProcessOf(b) = ClientOf[t] /\ t \in ThreadsOf(ProcessOf(b))
             /\ b \in Receivers(App(t)) /\ net[App(t)][b] \in Seq(Message)
  BY <1>1, Channels2, ThreadsKnown DEF BgsOf, IInv, ShapeInv, IsNet
<1>7. \A x \in Daemons : \A y \in Receivers(x) : net'[x][y] = net[x][y]
  BY <1>1, <1>2, <1>3
<1> QED  BY <1>1, <1>2, <1>4, <1>5, <1>6, <1>7

\* A thread that sends to all of them.
LEMMA ThreadSendsAll ==
  ASSUME IInv, NEW t \in Threads, NEW m \in Message, net' = Sent(net, App(t), BgsOf(ClientOf[t]), m)
  PROVE  /\ IsNet(net')
         /\ \A x \in Daemons : \A y \in Receivers(x) : net'[x][y] = net[x][y]
         /\ \A u \in Threads \ {t} : \A b \in Receivers(App(u)) : net'[App(u)][b] = net[App(u)][b]
         /\ \A c \in Clients : net'[HeadBg(c)][App(InitThread[c])] = net[HeadBg(c)][App(InitThread[c])]
         /\ \A b \in BgsOf(ClientOf[t]) :
              /\ b \in Bgs /\ ProcessOf(b) = ClientOf[t] /\ t \in ThreadsOf(ProcessOf(b))
              /\ net[App(t)][b] \in Seq(Message)
              /\ net'[App(t)][b] = Append(net[App(t)][b], m)
              /\ \A u \in ThreadsOf(ProcessOf(b)) \ {t} : u \in Threads /\ net'[App(u)][b] = net[App(u)][b]
<1> DEFINE R == BgsOf(ClientOf[t])
<1>1. net' = Sent(net, App(t), R, m)
  OBVIOUS
<1> HIDE DEF R
<1>2. /\ IsNet(net')
      /\ \A x \in Daemons : \A y \in Receivers(x) : net'[x][y] = net[x][y]
      /\ \A u \in Threads \ {t} : \A b \in Receivers(App(u)) : net'[App(u)][b] = net[App(u)][b]
      /\ \A c \in Clients : net'[HeadBg(c)][App(InitThread[c])] = net[HeadBg(c)][App(InitThread[c])]
  BY <1>1, ThreadSends
<1>3. \A b \in BgsOf(ClientOf[t]) :
        /\ b \in Bgs /\ ProcessOf(b) = ClientOf[t] /\ t \in ThreadsOf(ProcessOf(b))
        /\ net[App(t)][b] \in Seq(Message)
        /\ net'[App(t)][b] = IF b \in R THEN Append(net[App(t)][b], m) ELSE net[App(t)][b]
  BY <1>1, ThreadSends
<1>4. \A b \in BgsOf(ClientOf[t]) :
        \A u \in ThreadsOf(ProcessOf(b)) \ {t} : u \in Threads /\ net'[App(u)][b] = net[App(u)][b]
  BY <1>2, <1>3, Channels2
<1> QED  BY <1>2, <1>3, <1>4 DEF R

\* What may be in the channel from t to b while both run.
Talk(q, done) ==
  /\ \A i \in DOMAIN q : \/ q[i] = Msg("AppConnect") /\ i = 1
                         \/ q[i] = Msg("BgClock")
                         \/ q[i] = Msg("AppThreadDereg") /\ done /\ i = Len(q)
  /\ done /\ q # << >> => q[Len(q)] = Msg("AppThreadDereg")

\* That is what the channel from a thread that runs or is done holds,
LEMMA TalkIs ==
  ASSUME NEW b, NEW t, FromThread(t, b), thread[t] \in {"run", "done"}
  PROVE  Talk(net[App(t)][b], thread[t] = "done")
BY DEF FromThread, Talk

\* before and after a step,
LEMMA TalkNext ==
  ASSUME NEW b, NEW t, Talk(net'[App(t)][b], thread'[t] = "done"), thread'[t] # "new"
  PROVE  FromThread(t, b)'
BY DEF FromThread, Talk

\* and with the next message that the thread sends.
LEMMA TalkGoesOn ==
  ASSUME NEW q \in Seq(Message), Talk(q, FALSE)
  PROVE  Talk(Append(q, Msg("BgClock")), FALSE) /\ Talk(Append(q, Msg("AppThreadDereg")), TRUE)
<1> DEFINE a == Append(q, Msg("BgClock"))
           d == Append(q, Msg("AppThreadDereg"))
<1>1. Msg("BgClock") \in Message /\ Msg("AppThreadDereg") \in Message
  BY Messages
<1>2. /\ Len(q) \in Nat /\ DOMAIN q = 1 .. Len(q)
      /\ DOMAIN a = 1 .. Len(q) + 1 /\ (\A i \in 1 .. Len(q) : a[i] = q[i]) /\ a[Len(q) + 1] = Msg("BgClock")
  BY <1>1, Appended
<1>3. /\ DOMAIN d = 1 .. Len(q) + 1 /\ (\A i \in 1 .. Len(q) : d[i] = q[i])
      /\ d[Len(q) + 1] = Msg("AppThreadDereg") /\ Len(d) = Len(q) + 1
  BY <1>1, Appended
<1>4. \A i \in 1 .. Len(q) : (q[i] = Msg("AppConnect") /\ i = 1) \/ q[i] = Msg("BgClock")
  BY <1>2 DEF Talk
<1> HIDE DEF a, d
<1>5. Talk(a, FALSE)
  BY <1>2, <1>4 DEF Talk
<1>6. Talk(d, TRUE)
  BY <1>2, <1>3, <1>4 DEF Talk
<1> QED  BY <1>5, <1>6 DEF a, d

\* What is in a channel after a message is sent, and before one is received.
LEMMA HoldsAppended ==
  ASSUME NEW q \in Seq(Message), NEW m \in Message, NEW k
  PROVE  Holds(Append(q, m), k) <=> Holds(q, k) \/ m = k
<1> DEFINE a == Append(q, m)
<1>1. /\ Len(q) \in Nat /\ DOMAIN q = 1 .. Len(q)
      /\ DOMAIN a = 1 .. Len(q) + 1 /\ (\A i \in 1 .. Len(q) : a[i] = q[i]) /\ a[Len(q) + 1] = m
  BY Appended
<1> HIDE DEF a
<1>2. Holds(a, k) <=> Holds(q, k) \/ m = k
  BY <1>1 DEF Holds
<1> QED  BY <1>2 DEF a

\* A message is the first one or is among the rest.
LEMMA HoldsTaken ==
  ASSUME NEW q \in Seq(Message), q # << >>, NEW k
  PROVE  Holds(q, k) <=> Head(q) = k \/ Holds(Tail(q), k)
<1> DEFINE a == Tail(q)
<1>1. /\ Head(q) = q[1] /\ Len(q) \in Nat \ {0} /\ DOMAIN q = 1 .. Len(q)
      /\ DOMAIN a = 1 .. Len(q) - 1 /\ \A i \in 1 .. Len(q) - 1 : a[i] = q[i + 1]
  BY Taken
<1> HIDE DEF a
<1>2. ASSUME Holds(q, k) PROVE q[1] = k \/ Holds(a, k)
  <2>1. PICK i \in 1 .. Len(q) : q[i] = k
    BY <1>1, <1>2 DEF Holds
  <2>2. i # 1 => i - 1 \in 1 .. Len(q) - 1 /\ a[i - 1] = q[i]
    BY <1>1
  <2> QED  BY <1>1, <2>1, <2>2 DEF Holds
<1>3. ASSUME Holds(a, k) PROVE Holds(q, k)
  <2>1. PICK i \in 1 .. Len(q) - 1 : a[i] = k
    BY <1>1, <1>3 DEF Holds
  <2>2. i + 1 \in DOMAIN q /\ q[i + 1] = k
    BY <1>1, <2>1
  <2> QED  BY <2>2 DEF Holds
<1>4. q[1] = k => Holds(q, k)
  BY <1>1 DEF Holds
<1> QED  BY <1>1, <1>2, <1>3, <1>4 DEF a

\* ClockAllTables.
LEMMA ClockAllTablesKeeps ==
  ASSUME IInv, NEW t \in Threads, ClockAllTables(t)
  PROVE  IInv'
<1> DEFINE c == ClientOf[t]
<1>1. /\ thread[t] = "run" /\ net' = Sent(net, App(t), BgsOf(c), Msg("BgClock"))
      /\ clocks' = [clocks EXCEPT ![t] = @ + 1]
      /\ UNCHANGED <<nameNode, connected, creating, server, bg, tables, thread>>
  BY DEF ClockAllTables, PastBarrier, ToAllBgs
<1>2. Msg("BgClock") \in Message /\ Msg("BgClock") # Msg("AppConnect")
  BY Messages
<1>3. /\ IsNet(net')
      /\ \A x \in Daemons : \A y \in Receivers(x) : net'[x][y] = net[x][y]
      /\ \A u \in Threads \ {t} : \A b \in Receivers(App(u)) : net'[App(u)][b] = net[App(u)][b]
      /\ \A d \in Clients : net'[HeadBg(d)][App(InitThread[d])] = net[HeadBg(d)][App(InitThread[d])]
      /\ \A b \in BgsOf(c) :
           /\ b \in Bgs /\ ProcessOf(b) = c /\ t \in ThreadsOf(ProcessOf(b))
           /\ net[App(t)][b] \in Seq(Message)
           /\ net'[App(t)][b] = Append(net[App(t)][b], Msg("BgClock"))
  BY <1>1, <1>2, ThreadSendsAll
<1>4. ThreadStep(t)
  BY <1>1, <1>3 DEF ThreadStep
<1>5. ShapeInv' /\ StagesInv'
  <2>1. clocks' \in [Threads -> Nat]
    BY <1>1 DEF IInv, ShapeInv
  <2>2. StagesInv'
    BY <1>1, StagesStay DEF IInv, SameStages
  <2> QED  BY <1>1, <1>3, <2>1, <2>2 DEF IInv, ShapeInv
<1>6. ASSUME NEW b \in BgsOf(c) PROVE ThreadsOK(b)'
  <2> DEFINE q == net[App(t)][b]
  <2>1. /\ ThreadsOK(b) /\ b \in Bgs /\ ProcessOf(b) = c /\ t \in ThreadsOf(ProcessOf(b))
        /\ q \in Seq(Message) /\ net'[App(t)][b] = Append(q, Msg("BgClock"))
        /\ \A u \in ThreadsOf(ProcessOf(b)) \ {t} : u \in Threads /\ net'[App(u)][b] = net[App(u)][b]
    BY <1>3, <1>6, Parts, Channels2 DEF WorkerOK
  <2>2. Append(q, Msg("BgClock")) # << >>
    BY <1>2, <2>1, Appended
  <2>3. AppsAt(b)' = AppsAt(b)
    <3>1. Holds(net'[App(t)][b], Msg("AppConnect")) <=> Holds(q, Msg("AppConnect"))
      BY <1>2, <2>1, HoldsAppended
    <3>2. \A u \in ThreadsOf(ProcessOf(b)) :
            Holds(net'[App(u)][b], Msg("AppConnect")) <=> Holds(net[App(u)][b], Msg("AppConnect"))
      BY <2>1, <3>1
    <3> QED  BY <1>1, <3>2 DEF AppsAt
  <2>4. GoneAt(b)' = GoneAt(b)
    BY <1>1, <2>1, <2>2 DEF GoneAt
  <2>5. FromThread(t, b)'
    <3>1. Talk(q, FALSE)
      BY <1>1, <2>1, TalkIs DEF ThreadsOK
    <3>2. Talk(net'[App(t)][b], FALSE)
      BY <2>1, <3>1, TalkGoesOn
    <3> QED  BY <1>1, <3>2, TalkNext
  <2>6. \A u \in ThreadsOf(ProcessOf(b)) \ {t} : FromThread(u, b)'
    BY <1>1, <2>1, FromThreadStays DEF ThreadsOK
  <2>7. FromInit(b)'
    <3>1. CASE InitOf(b) = t
      <4>1. bg[b].stage \in Runs
        BY <1>1, <2>1, <3>1, InStep
      <4> QED  BY <1>1, <3>1, <4>1 DEF FromInit, Runs, Starts, InitOf
    <3>2. CASE InitOf(b) # t
      BY <1>1, <2>1, <3>2, FromInitStays, Channels2 DEF SameTablesOf, ThreadsOK
    <3> QED  BY <3>1, <3>2
  <2>8. b = HeadBg(ProcessOf(b)) => ToInit(ProcessOf(b))'
    <3>1. CASE InitThread[c] = t
      BY <1>1, <1>3, <2>1, <3>1, Workers DEF ThreadsOK, ToInit
    <3>2. CASE InitThread[c] # t
      BY <1>1, <1>3, <2>1, <3>2, Workers, ThreadsKnown, ToInitStays DEF ThreadsOK
    <3> QED  BY <3>1, <3>2
  <2> QED  BY <1>1, <2>1, <2>3, <2>4, <2>5, <2>6, <2>7, <2>8 DEF ThreadsOK
<1> QED  BY <1>4, <1>5, <1>6, ThreadStepKeeps

\* AppThreadDeregister.
LEMMA AppThreadDeregisterKeeps ==
  ASSUME IInv, NEW t \in Threads, AppThreadDeregister(t)
  PROVE  IInv'
<1> DEFINE c == ClientOf[t]
<1>1. /\ thread[t] = "run" /\ net' = Sent(net, App(t), BgsOf(c), Msg("AppThreadDereg"))
      /\ thread' = [thread EXCEPT ![t] = "done"]
      /\ UNCHANGED <<nameNode, connected, creating, server, bg, tables, clocks>>
  BY DEF AppThreadDeregister, PastBarrier, ToAllBgs
<1>2. Msg("AppThreadDereg") \in Message /\ Msg("AppThreadDereg") # Msg("AppConnect")
  BY Messages
<1>3. /\ IsNet(net')
      /\ \A x \in Daemons : \A y \in Receivers(x) : net'[x][y] = net[x][y]
      /\ \A u \in Threads \ {t} : \A b \in Receivers(App(u)) : net'[App(u)][b] = net[App(u)][b]
      /\ \A d \in Clients : net'[HeadBg(d)][App(InitThread[d])] = net[HeadBg(d)][App(InitThread[d])]
      /\ \A b \in BgsOf(c) :
           /\ b \in Bgs /\ ProcessOf(b) = c /\ t \in ThreadsOf(ProcessOf(b))
           /\ net[App(t)][b] \in Seq(Message)
           /\ net'[App(t)][b] = Append(net[App(t)][b], Msg("AppThreadDereg"))
           /\ \A u \in ThreadsOf(ProcessOf(b)) \ {t} : u \in Threads /\ net'[App(u)][b] = net[App(u)][b]
  BY <1>1, <1>2, ThreadSendsAll
<1>4. thread' \in [Threads -> ThreadStages] /\ thread'[t] = "done" /\ \A u \in Threads \ {t} : thread'[u] = thread[u]
  BY <1>1 DEF IInv, ShapeInv, ThreadStages
<1>5. ThreadStep(t)
  BY <1>1, <1>3, <1>4 DEF ThreadStep
<1>6. ShapeInv'
  BY <1>1, <1>3, <1>4 DEF IInv, ShapeInv
<1>7. StagesInv'
  <2>1. \A b \in Bgs : InitOf(b) \in Threads
    BY Channels2
  <2>2. \A u \in Threads : InitThread[ClientOf[u]] \in Threads
    BY ThreadsKnown
  <2>3. \A u \in Threads : /\ thread'[u] = thread[u] \/ (thread[u] = "run" /\ thread'[u] = "done")
    BY <1>1, <1>4
  <2>4. ASSUME NEW b \in Bgs PROVE WithInit(b)'
    <3>1. WithInit(b) /\ bg'[b] = bg[b]
      BY <1>1 DEF IInv, StagesInv
    <3>2. thread'[InitOf(b)] = thread[InitOf(b)] \/ (thread[InitOf(b)] = "run" /\ thread'[InitOf(b)] = "done")
      BY <2>1, <2>3
    <3> QED  BY <3>1, <3>2 DEF WithInit, InitOf, IsHead
  <2>5. ASSUME NEW u \in Threads PROVE AfterInit(u)'
    <3>1. AfterInit(u)
      BY DEF IInv, StagesInv
    <3> QED  BY <2>2, <2>3, <3>1 DEF AfterInit
  <2>6. \A d \in Clients : KnowsTables(d)'
    BY <1>1 DEF IInv, StagesInv, KnowsTables
  <2> QED  BY <2>4, <2>5, <2>6 DEF StagesInv
<1>8. ASSUME NEW b \in BgsOf(c) PROVE ThreadsOK(b)'
  <2> DEFINE q == net[App(t)][b]
  <2>1. /\ ThreadsOK(b) /\ b \in Bgs /\ ProcessOf(b) = c /\ t \in ThreadsOf(ProcessOf(b))
        /\ q \in Seq(Message) /\ net'[App(t)][b] = Append(q, Msg("AppThreadDereg"))
        /\ \A u \in ThreadsOf(ProcessOf(b)) \ {t} :
             u \in Threads /\ net'[App(u)][b] = net[App(u)][b] /\ thread'[u] = thread[u]
    BY <1>3, <1>4, <1>8, Parts DEF WorkerOK
  <2>2. Append(q, Msg("AppThreadDereg")) # << >>
    BY <1>2, <2>1, Appended
  <2>3. AppsAt(b)' = AppsAt(b)
    <3>1. Holds(net'[App(t)][b], Msg("AppConnect")) <=> Holds(q, Msg("AppConnect"))
      BY <1>2, <2>1, HoldsAppended
    <3>2. \A u \in ThreadsOf(ProcessOf(b)) :
            /\ Holds(net'[App(u)][b], Msg("AppConnect")) <=> Holds(net[App(u)][b], Msg("AppConnect"))
            /\ thread'[u] \in Unregistered <=> thread[u] \in Unregistered
      BY <1>1, <1>4, <2>1, <3>1 DEF Unregistered
    <3> QED  BY <3>2 DEF AppsAt
  <2>4. GoneAt(b)' = GoneAt(b)
    BY <1>1, <2>1, <2>2 DEF GoneAt
  <2>5. FromThread(t, b)'
    <3>1. Talk(q, FALSE)
      BY <1>1, <2>1, TalkIs DEF ThreadsOK
    <3>2. Talk(net'[App(t)][b], TRUE)
      BY <2>1, <3>1, TalkGoesOn
    <3> QED  BY <1>4, <3>2, TalkNext
  <2>6. \A u \in ThreadsOf(ProcessOf(b)) \ {t} : FromThread(u, b)'
    BY <2>1, FromThreadStays DEF ThreadsOK
  <2>7. FromInit(b)'
    <3>1. CASE InitOf(b) = t
      <4>1. bg[b].stage \in Runs
        BY <1>1, <2>1, <3>1, InStep
      <4> QED  BY <1>1, <1>4, <3>1, <4>1 DEF FromInit, Runs, Starts, InitOf
    <3>2. CASE InitOf(b) # t
      BY <1>1, <2>1, <3>2, FromInitStays, Channels2 DEF SameTablesOf, ThreadsOK
    <3> QED  BY <3>1, <3>2
  <2>8. b = HeadBg(ProcessOf(b)) => ToInit(ProcessOf(b))'
    <3>1. CASE InitThread[c] = t
      <4>1. bg[b].stage \in Runs
        BY <1>1, <2>1, <3>1, InStep DEF InitOf
      <4> QED  BY <1>1, <1>3, <2>1, <3>1, <4>1, Workers DEF ThreadsOK, ToInit, Runs
    <3>2. CASE InitThread[c] # t
      BY <1>1, <1>3, <2>1, <3>2, Workers, ThreadsKnown, ToInitStays DEF ThreadsOK
    <3> QED  BY <3>1, <3>2
  <2> QED  BY <1>1, <2>1, <2>3, <2>4, <2>5, <2>6, <2>7, <2>8 DEF ThreadsOK
<1> QED  BY <1>5, <1>6, <1>8, <1>7, ThreadStepKeeps

\* RegisterThread.
LEMMA RegisterThreadKeeps ==
  ASSUME IInv, NEW t \in Threads, RegisterThread(t)
  PROVE  IInv'
<1> DEFINE c == ClientOf[t]
<1>1. /\ thread[t] = "new" /\ net' = Sent(net, App(t), BgsOf(c), Msg("AppConnect"))
      /\ thread[InitThread[c]] \in {"run", "done"}
      /\ thread' = [thread EXCEPT ![t] = "run"]
      /\ UNCHANGED <<nameNode, connected, creating, server, bg, tables, clocks>>
  BY DEF RegisterThread, ToAllBgs
<1>2. Msg("AppConnect") \in Message
  BY Messages
<1>3. /\ IsNet(net')
      /\ \A x \in Daemons : \A y \in Receivers(x) : net'[x][y] = net[x][y]
      /\ \A u \in Threads \ {t} : \A b \in Receivers(App(u)) : net'[App(u)][b] = net[App(u)][b]
      /\ \A d \in Clients : net'[HeadBg(d)][App(InitThread[d])] = net[HeadBg(d)][App(InitThread[d])]
      /\ \A b \in BgsOf(c) :
           /\ b \in Bgs /\ ProcessOf(b) = c /\ t \in ThreadsOf(ProcessOf(b))
           /\ net[App(t)][b] \in Seq(Message)
           /\ net'[App(t)][b] = Append(net[App(t)][b], Msg("AppConnect"))
           /\ \A u \in ThreadsOf(ProcessOf(b)) \ {t} : u \in Threads /\ net'[App(u)][b] = net[App(u)][b]
  BY <1>1, <1>2, ThreadSendsAll
<1>4. thread' \in [Threads -> ThreadStages] /\ thread'[t] = "run" /\ \A u \in Threads \ {t} : thread'[u] = thread[u]
  BY <1>1 DEF IInv, ShapeInv, ThreadStages
<1>5. ThreadStep(t)
  BY <1>1, <1>3, <1>4 DEF ThreadStep
<1>6. ShapeInv'
  BY <1>1, <1>3, <1>4 DEF IInv, ShapeInv
<1>7. t # InitThread[c] /\ InitThread[c] \in Threads
  BY <1>1, ThreadsKnown
<1>8. StagesInv'
  <2>1. \A b \in Bgs : InitOf(b) \in Threads \ {t}
    <3> SUFFICES ASSUME NEW b \in Bgs PROVE InitOf(b) # t
      BY Channels2
    <3> QED  BY <1>1 DEF IInv, StagesInv, WithInit, AfterInit, KnowsTables
  <2>2. \A d \in Clients : InitThread[d] \in Threads \ {t}
    <3> SUFFICES ASSUME NEW d \in Clients PROVE InitThread[d] # t
      BY ThreadsKnown
    <3> QED  BY <1>7, ThreadsKnown
  <2>3. \A b \in Bgs : thread'[InitOf(b)] = thread[InitOf(b)]
    BY <1>4, <2>1
  <2>4. ASSUME NEW b \in Bgs PROVE WithInit(b)'
    <3>1. WithInit(b) /\ bg'[b] = bg[b]
      BY <1>1 DEF IInv, StagesInv
    <3> QED  BY <2>3, <3>1 DEF WithInit, InitOf, IsHead
  <2>5. ASSUME NEW u \in Threads PROVE AfterInit(u)'
    <3>1. AfterInit(u) /\ thread'[InitThread[ClientOf[u]]] = thread[InitThread[ClientOf[u]]]
      BY <1>4, <2>2, ThreadsKnown DEF IInv, StagesInv
    <3>2. CASE u = t
      BY <1>1, <1>4, <3>1, <3>2 DEF AfterInit
    <3>3. CASE u # t
      BY <1>4, <3>1, <3>3 DEF AfterInit
    <3> QED  BY <3>2, <3>3
  <2>6. \A d \in Clients : KnowsTables(d)'
    BY <1>1 DEF IInv, StagesInv, KnowsTables
  <2> QED  BY <2>4, <2>5, <2>6 DEF StagesInv
<1>9. ASSUME NEW b \in BgsOf(c) PROVE ThreadsOK(b)'
  <2> DEFINE q == net[App(t)][b]
  <2>1. /\ ThreadsOK(b) /\ b \in Bgs /\ ProcessOf(b) = c /\ t \in ThreadsOf(ProcessOf(b))
        /\ q \in Seq(Message) /\ net'[App(t)][b] = Append(q, Msg("AppConnect"))
        /\ \A u \in ThreadsOf(ProcessOf(b)) \ {t} :
             u \in Threads /\ net'[App(u)][b] = net[App(u)][b] /\ thread'[u] = thread[u]
    BY <1>3, <1>4, <1>9, Parts DEF WorkerOK
  <2>2. q = << >> /\ net'[App(t)][b] = << Msg("AppConnect") >>
    <3>1. q = << >>
      BY <1>1, <2>1 DEF ThreadsOK, FromThread
    <3> QED  BY <2>1, <3>1, OneMessage
  <2>3. AppsAt(b)' = AppsAt(b)
    <3>1. Holds(net'[App(t)][b], Msg("AppConnect"))
      BY <2>2, OneMessage DEF Holds
    <3> QED  BY <1>1, <1>4, <2>1, <3>1 DEF AppsAt, Unregistered
  <2>4. GoneAt(b)' = GoneAt(b)
    BY <1>1, <1>4, <2>1 DEF GoneAt
  <2>5. FromThread(t, b)'
    BY <1>4, <2>2, OneMessage DEF FromThread
  <2>6. \A u \in ThreadsOf(ProcessOf(b)) \ {t} : FromThread(u, b)'
    BY <2>1, FromThreadStays DEF ThreadsOK
  <2>7. FromInit(b)'
    BY <1>1, <1>7, <2>1, FromInitStays, Channels2 DEF SameTablesOf, ThreadsOK
  <2>8. b = HeadBg(ProcessOf(b)) => ToInit(ProcessOf(b))'
    BY <1>1, <1>3, <1>7, <2>1, Workers, ThreadsKnown, ToInitStays DEF ThreadsOK
  <2> QED  BY <1>1, <2>1, <2>3, <2>4, <2>5, <2>6, <2>7, <2>8 DEF ThreadsOK
<1> QED  BY <1>5, <1>6, <1>8, <1>9, ThreadStepKeeps

\* The init thread goes on between the two barriers.
LEMMA InitGoesOn ==
  ASSUME IInv, NEW t \in Threads, thread[t] \in {"register", "create", "wait"}, NEW x \in {"create", "wait"},
         thread' = [thread EXCEPT ![t] = x], UNCHANGED <<bg, tables>>
  PROVE  /\ StagesInv' /\ t = InitThread[ClientOf[t]]
         /\ thread' \in [Threads -> ThreadStages] /\ thread'[t] = x /\ \A u \in Threads \ {t} : thread'[u] = thread[u]
         /\ \A b \in BgsOf(ClientOf[t]) :
              /\ InitOf(b) = t /\ bg[b].stage \in Creates
              /\ thread[t] = "register" => bg[b].stage = "app"
              /\ bg[b].stage \in {"tables", "asked", "all tables"} => IsHead(b)
<1>1. t = InitThread[ClientOf[t]]
  BY DEF IInv, StagesInv, AfterInit
<1>2. thread' \in [Threads -> ThreadStages] /\ thread'[t] = x /\ \A u \in Threads \ {t} : thread'[u] = thread[u]
  BY DEF IInv, ShapeInv, ThreadStages
<1>3. ASSUME NEW b \in Bgs PROVE WithInit(b)'
  <2>1. WithInit(b) /\ bg'[b] = bg[b]
    BY DEF IInv, StagesInv
  <2>2. thread'[InitOf(b)] = thread[InitOf(b)] \/ (thread[InitOf(b)] = thread[t] /\ thread'[InitOf(b)] = x)
    BY <1>2, Channels2
  <2> QED  BY <2>1, <2>2 DEF WithInit, InitOf, IsHead
<1>4. ASSUME NEW u \in Threads PROVE AfterInit(u)'
  <2>1. AfterInit(u) /\ InitThread[ClientOf[u]] \in Threads
    BY ThreadsKnown DEF IInv, StagesInv
  <2>2. CASE u = t
    BY <1>1, <2>2 DEF AfterInit
  <2>3. CASE u # t
    BY <1>2, <2>1, <2>3 DEF AfterInit
  <2> QED  BY <2>2, <2>3
<1>5. \A c \in Clients : KnowsTables(c)'
  BY DEF IInv, StagesInv, KnowsTables
<1>6. ASSUME NEW b \in BgsOf(ClientOf[t])
      PROVE  /\ InitOf(b) = t /\ bg[b].stage \in Creates
             /\ thread[t] = "register" => bg[b].stage = "app"
             /\ bg[b].stage \in {"tables", "asked", "all tables"} => IsHead(b)
  <2>1. b \in Bgs /\ InitOf(b) = t
    BY <1>1, ThreadsKnown DEF InitOf
  <2> QED  BY <2>1 DEF IInv, StagesInv, WithInit
<1> QED  BY <1>1, <1>2, <1>3, <1>4, <1>5, <1>6 DEF StagesInv

\* AppThreadRegister.
LEMMA AppThreadRegisterKeeps ==
  ASSUME IInv, NEW t \in Threads, AppThreadRegister(t)
  PROVE  IInv'
<1> DEFINE c == ClientOf[t]
<1>1. /\ thread[t] = "register" /\ net' = Sent(net, App(t), BgsOf(c), Msg("AppConnect"))
      /\ thread' = [thread EXCEPT ![t] = "create"]
      /\ UNCHANGED <<nameNode, connected, creating, server, bg, tables, clocks>>
  BY DEF AppThreadRegister, ToAllBgs
<1>2. Msg("AppConnect") \in Message
  BY Messages
<1>3. /\ IsNet(net')
      /\ \A x \in Daemons : \A y \in Receivers(x) : net'[x][y] = net[x][y]
      /\ \A u \in Threads \ {t} : \A b \in Receivers(App(u)) : net'[App(u)][b] = net[App(u)][b]
      /\ \A d \in Clients : net'[HeadBg(d)][App(InitThread[d])] = net[HeadBg(d)][App(InitThread[d])]
      /\ \A b \in BgsOf(c) :
           /\ b \in Bgs /\ ProcessOf(b) = c /\ t \in ThreadsOf(ProcessOf(b))
           /\ net[App(t)][b] \in Seq(Message)
           /\ net'[App(t)][b] = Append(net[App(t)][b], Msg("AppConnect"))
           /\ \A u \in ThreadsOf(ProcessOf(b)) \ {t} : u \in Threads /\ net'[App(u)][b] = net[App(u)][b]
  BY <1>1, <1>2, ThreadSendsAll
<1>4. /\ StagesInv' /\ t = InitThread[c]
      /\ thread' \in [Threads -> ThreadStages] /\ thread'[t] = "create" /\ \A u \in Threads \ {t} : thread'[u] = thread[u]
      /\ \A b \in BgsOf(c) : InitOf(b) = t /\ bg[b].stage = "app"
  <2>1. \A x \in {"create"} : x \in {"create", "wait"}
    OBVIOUS
  <2> QED  BY <1>1, <2>1, InitGoesOn
<1>5. ThreadStep(t)
  BY <1>1, <1>3, <1>4 DEF ThreadStep
<1>6. ShapeInv'
  BY <1>1, <1>3, <1>4 DEF IInv, ShapeInv
<1>7. ASSUME NEW b \in BgsOf(c) PROVE ThreadsOK(b)'
  <2> DEFINE q == net[App(t)][b]
  <2>1. /\ ThreadsOK(b) /\ b \in Bgs /\ ProcessOf(b) = c /\ t \in ThreadsOf(ProcessOf(b))
        /\ InitOf(b) = t /\ bg[b].stage = "app"
        /\ q \in Seq(Message) /\ net'[App(t)][b] = Append(q, Msg("AppConnect"))
        /\ \A u \in ThreadsOf(ProcessOf(b)) \ {t} :
             u \in Threads /\ net'[App(u)][b] = net[App(u)][b] /\ thread'[u] = thread[u]
    BY <1>3, <1>4, <1>7, Parts DEF WorkerOK
  <2>2. q = << >> /\ net'[App(t)][b] = << Msg("AppConnect") >>
    <3>1. q = << >>
      BY <1>1, <2>1 DEF ThreadsOK, FromInit
    <3> QED  BY <2>1, <3>1, OneMessage
  <2>3. AppsAt(b)' = AppsAt(b)
    <3>1. Holds(net'[App(t)][b], Msg("AppConnect"))
      BY <2>2, OneMessage DEF Holds
    <3> QED  BY <1>1, <1>4, <2>1, <3>1 DEF AppsAt, Unregistered
  <2>4. GoneAt(b)' = GoneAt(b)
    BY <1>1, <1>4, <2>1 DEF GoneAt
  <2>5. FromThread(t, b)'
    BY <1>4 DEF FromThread
  <2>6. \A u \in ThreadsOf(ProcessOf(b)) \ {t} : FromThread(u, b)'
    BY <2>1, FromThreadStays DEF ThreadsOK
  <2>7. FromInit(b)'
    BY <1>1, <1>4, <2>1, <2>2 DEF FromInit, InitOf, Starts
  <2>8. b = HeadBg(ProcessOf(b)) => ToInit(ProcessOf(b))'
    <3> SUFFICES ASSUME b = HeadBg(c) PROVE ToInit(c)'
      BY <2>1
    <3>1. ToInit(c) /\ c \in Clients
      BY <2>1, Workers DEF ThreadsOK
    <3>2. net[HeadBg(c)][App(t)] = << >>
      BY <1>1, <1>4, <3>1 DEF ToInit
    <3>3. net'[HeadBg(c)][App(t)] = << >>
      BY <1>3, <1>4, <3>1, <3>2
    <3> QED  BY <1>1, <1>4, <2>1, <3>3 DEF ToInit
  <2> QED  BY <1>1, <2>1, <2>3, <2>4, <2>5, <2>6, <2>7, <2>8 DEF ThreadsOK
<1> QED  BY <1>4, <1>5, <1>6, <1>7, ThreadStepKeeps

\* CreateTable.
LEMMA CreateTableKeeps ==
  ASSUME IInv, NEW t \in Threads, NEW tb \in Tables, CreateTable(t, tb)
  PROVE  IInv'
<1> DEFINE c == ClientOf[t]
           h == HeadBg(c)
           m == TableMsg("BgCreateTable", tb)
<1>1. /\ thread[t] = "create" /\ net' = Sent(net, App(t), {h}, m) /\ tb \notin tables[c]
      /\ thread' = [thread EXCEPT ![t] = "wait"]
      /\ UNCHANGED <<nameNode, connected, creating, server, bg, tables, clocks>>
  BY DEF CreateTable
<1>2. m \in Message /\ m # Msg("AppConnect")
  BY Messages DEF Msg, TableMsg
<1>3. /\ h \in Bgs /\ ProcessOf(h) = c /\ IsHead(h) /\ c \in Clients /\ h \in BgsOf(c)
      /\ \A b \in BgsOf(c) : IsHead(b) => b = h
  BY Workers, ThreadsKnown DEF BgsOf, IsHead
<1>4. /\ IsNet(net')
      /\ \A x \in Daemons : \A y \in Receivers(x) : net'[x][y] = net[x][y]
      /\ \A u \in Threads \ {t} : \A b \in Receivers(App(u)) : net'[App(u)][b] = net[App(u)][b]
      /\ \A d \in Clients : net'[HeadBg(d)][App(InitThread[d])] = net[HeadBg(d)][App(InitThread[d])]
      /\ \A b \in BgsOf(c) :
           /\ b \in Bgs /\ ProcessOf(b) = c /\ t \in ThreadsOf(ProcessOf(b))
           /\ net[App(t)][b] \in Seq(Message)
           /\ net'[App(t)][b] = IF b = h THEN Append(net[App(t)][b], m) ELSE net[App(t)][b]
  <2> DEFINE R == {h}
  <2>1. m \in Message /\ net' = Sent(net, App(t), R, m)
    BY <1>1, <1>2
  <2> HIDE DEF R, h, m
  <2>2. /\ IsNet(net')
        /\ \A x \in Daemons : \A y \in Receivers(x) : net'[x][y] = net[x][y]
        /\ \A u \in Threads \ {t} : \A b \in Receivers(App(u)) : net'[App(u)][b] = net[App(u)][b]
        /\ \A d \in Clients : net'[HeadBg(d)][App(InitThread[d])] = net[HeadBg(d)][App(InitThread[d])]
    BY <2>1, ThreadSends
  <2>3. \A b \in BgsOf(c) :
          /\ b \in Bgs /\ ProcessOf(b) = c /\ t \in ThreadsOf(ProcessOf(b))
          /\ net[App(t)][b] \in Seq(Message)
          /\ net'[App(t)][b] = IF b \in R THEN Append(net[App(t)][b], m) ELSE net[App(t)][b]
    BY <2>1, ThreadSends
  <2> QED  BY <2>2, <2>3 DEF R
<1>5. /\ StagesInv' /\ t = InitThread[c]
      /\ thread' \in [Threads -> ThreadStages] /\ thread'[t] = "wait" /\ \A u \in Threads \ {t} : thread'[u] = thread[u]
      /\ \A b \in BgsOf(c) : InitOf(b) = t /\ bg[b].stage \in Creates
                             /\ (bg[b].stage \in {"tables", "asked", "all tables"} => IsHead(b))
  <2>1. \A x \in {"wait"} : x \in {"create", "wait"}
    OBVIOUS
  <2> QED  BY <1>1, <2>1, InitGoesOn
<1>6. ThreadStep(t)
  BY <1>1, <1>4, <1>5 DEF ThreadStep
<1>7. ShapeInv'
  BY <1>1, <1>4, <1>5 DEF IInv, ShapeInv
<1>8. /\ bg[h].stage \in {"app", "tables"} /\ net[h][App(t)] = << >>
      /\ net[App(t)][h] = IF bg[h].stage = "app" THEN << Msg("AppConnect") >> ELSE << >>
  <2>1. /\ ToInit(c) /\ FromInit(h) /\ KnowsTables(c)
    BY <1>3 DEF IInv, ToInitInv, FromInitInv, StagesInv
  <2>2. /\ bg[h].stage \in {"app", "tables", "asked"} /\ bg[h].stage # "asked" /\ net[h][App(t)] = << >>
    <3>1. bg[h].stage \notin {"all tables", "table barrier"}
      BY <1>1, <2>1 DEF KnowsTables
    <3> QED  BY <1>1, <1>3, <1>5, <2>1, <3>1 DEF ToInit, Creates
  <2> QED  BY <1>1, <1>3, <1>5, <2>1, <2>2 DEF FromInit
<1>9. ASSUME NEW b \in BgsOf(c) PROVE ThreadsOK(b)'
  <2> DEFINE q == net[App(t)][b]
  <2>1. /\ ThreadsOK(b) /\ b \in Bgs /\ ProcessOf(b) = c /\ t \in ThreadsOf(ProcessOf(b))
        /\ InitOf(b) = t /\ bg[b].stage \in Creates /\ (bg[b].stage \in {"tables", "asked", "all tables"} => IsHead(b))
        /\ q \in Seq(Message) /\ net'[App(t)][b] = IF b = h THEN Append(q, m) ELSE q
        /\ \A u \in ThreadsOf(ProcessOf(b)) \ {t} :
             u \in Threads /\ net'[App(u)][b] = net[App(u)][b] /\ thread'[u] = thread[u]
    <3> HIDE DEF h, m
    <3>1. b \in Bgs /\ WorkerOK(b) /\ \A u \in ThreadsOf(ProcessOf(b)) : u \in Threads /\ b \in Receivers(App(u))
      BY <1>4, <1>9, Parts, Channels2
    <3> QED  BY <1>4, <1>5, <1>9, <3>1 DEF WorkerOK
  <2>2. AppsAt(b)' = AppsAt(b)
    <3>1. Holds(net'[App(t)][b], Msg("AppConnect")) <=> Holds(q, Msg("AppConnect"))
      <4> HIDE DEF m, q, h
      <4>1. Holds(Append(q, m), Msg("AppConnect")) <=> Holds(q, Msg("AppConnect"))
        BY <1>2, <2>1, HoldsAppended
      <4>2. net'[App(t)][b] = Append(q, m) \/ net'[App(t)][b] = q
        BY <2>1
      <4> QED  BY <4>1, <4>2
    <3>2. \A u \in ThreadsOf(ProcessOf(b)) :
            /\ Holds(net'[App(u)][b], Msg("AppConnect")) <=> Holds(net[App(u)][b], Msg("AppConnect"))
            /\ thread'[u] \in Unregistered <=> thread[u] \in Unregistered
      BY <1>1, <1>5, <2>1, <3>1 DEF Unregistered
    <3> QED  BY <3>2 DEF AppsAt
  <2>3. GoneAt(b)' = GoneAt(b)
    BY <1>1, <1>5, <2>1 DEF GoneAt
  <2>4. FromThread(t, b)'
    BY <1>5 DEF FromThread
  <2>5. \A u \in ThreadsOf(ProcessOf(b)) \ {t} : FromThread(u, b)'
    BY <2>1, FromThreadStays DEF ThreadsOK
  <2>6. FromInit(b)'
    <3>1. CASE b # h
      <4>1. ~IsHead(b)
        BY <1>3, <1>9, <3>1
      <4> QED  BY <1>1, <1>5, <2>1, <3>1, <4>1 DEF ThreadsOK, FromInit, IsHead, InitOf
    <3>2. CASE b = h /\ bg[h].stage = "app"
      <4>1. net'[App(t)][b] = << Msg("AppConnect"), m >>
        <5> HIDE DEF m, h
        <5>1. net'[App(t)][b] = Append(<< Msg("AppConnect") >>, m)
          BY <1>8, <2>1, <3>2
        <5> QED  BY <5>1, TwoMessages
      <4> QED  BY <1>1, <1>3, <1>5, <2>1, <3>2, <4>1 DEF FromInit, Starts, IsHead, InitOf
    <3>3. CASE b = h /\ bg[h].stage = "tables"
      <4>1. net'[App(t)][b] = << m >>
        <5> HIDE DEF m, h
        <5>1. net'[App(t)][b] = Append(<< >>, m)
          BY <1>8, <2>1, <3>3
        <5> QED  BY <5>1, OneMessage
      <4> QED  BY <1>1, <1>3, <1>5, <2>1, <3>3, <4>1 DEF FromInit, Starts, InitOf
    <3> QED  BY <1>8, <3>1, <3>2, <3>3
  <2>7. b = HeadBg(ProcessOf(b)) => ToInit(ProcessOf(b))'
    <3> SUFFICES ASSUME b = h PROVE ToInit(c)'
      BY <2>1
    <3>1. net'[h][App(t)] = << >>
      <4>1. net'[h][App(InitThread[c])] = net[h][App(InitThread[c])]
        BY <1>3, <1>4
      <4>2. InitThread[c] = t
        BY <1>5
      <4> QED  BY <1>8, <4>1, <4>2
    <3> QED  BY <1>1, <1>5, <1>8, <3>1 DEF ToInit
  <2> QED  BY <1>1, <2>1, <2>2, <2>3, <2>4, <2>5, <2>6, <2>7 DEF ThreadsOK
<1> QED  BY <1>5, <1>6, <1>7, <1>9, ThreadStepKeeps

\* TableCreated.
LEMMA TableCreatedKeeps ==
  ASSUME IInv, NEW t \in Threads, TableCreated(t)
  PROVE  IInv'
<1> DEFINE c == ClientOf[t]
           h == HeadBg(c)
<1>1. /\ thread[t] = "wait" /\ net' = Received(h, App(t)) /\ net[h][App(t)] # << >>
      /\ thread' = [thread EXCEPT ![t] = "create"]
      /\ UNCHANGED <<nameNode, connected, creating, server, bg, tables, clocks>>
  BY DEF TableCreated, Incoming
<1>2. /\ h \in Bgs /\ ProcessOf(h) = c /\ IsHead(h) /\ c \in Clients /\ h \in BgsOf(c)
      /\ \A b \in BgsOf(c) : b \in Bgs /\ ProcessOf(b) = c /\ t \in ThreadsOf(c) /\ (IsHead(b) => b = h)
  BY Workers, ThreadsKnown DEF BgsOf, IsHead
<1>3. /\ StagesInv' /\ t = InitThread[c]
      /\ thread' \in [Threads -> ThreadStages] /\ thread'[t] = "create" /\ \A u \in Threads \ {t} : thread'[u] = thread[u]
      /\ \A b \in BgsOf(c) : InitOf(b) = t /\ bg[b].stage \in Creates
                             /\ (bg[b].stage \in {"tables", "asked", "all tables"} => IsHead(b))
  <2>1. \A x \in {"create"} : x \in {"create", "wait"}
    OBVIOUS
  <2> QED  BY <1>1, <2>1, InitGoesOn
<1>4. /\ IsNet(net')
      /\ \A x \in Entities : \A y \in Receivers(x) :
           net'[x][y] = IF x = h /\ y = App(t) THEN Tail(net[h][App(t)]) ELSE net[x][y]
  <2>1. h \in Entities /\ App(t) \in Receivers(h)
    BY <1>2, <1>3, Channels2
  <2> QED  BY <1>1, <2>1, ReceivedNet DEF IInv, ShapeInv
<1>5. /\ \A x \in Daemons : \A y \in Receivers(x) : y \in Daemons => net'[x][y] = net[x][y]
      /\ \A u \in Threads : \A b \in Receivers(App(u)) : net'[App(u)][b] = net[App(u)][b]
      /\ \A d \in Clients \ {c} : net'[HeadBg(d)][App(InitThread[d])] = net[HeadBg(d)][App(InitThread[d])]
  <2>1. App(t) \notin Daemons /\ Daemons \subseteq Entities
    BY Kinds, EntitiesAre
  <2>2. \A u \in Threads : App(u) \in Entities /\ App(u) # h
    BY <1>2, Kinds, EntitiesAre
  <2>3. \A d \in Clients \ {c} : HeadBg(d) # h /\ HeadBg(d) \in Entities /\ App(InitThread[d]) \in Receivers(HeadBg(d))
    BY <1>2, Workers, Channels2
  <2> QED  BY <1>4, <2>1, <2>2, <2>3
<1>6. ThreadStep(t)
  BY <1>1, <1>3, <1>5 DEF ThreadStep
<1>7. ShapeInv'
  BY <1>1, <1>3, <1>4 DEF IInv, ShapeInv
<1>8. /\ bg[h].stage \in {"tables", "all tables", "table barrier"} /\ net[App(t)][h] = << >>
      /\ net'[h][App(t)] = << >>
  <2>1. ToInit(c)
    BY <1>2 DEF IInv, ToInitInv
  <2>2. PICK tb \in Tables : net[h][App(t)] = << TableMsg("CreateTableReply", tb) >>
    BY <1>1, <1>3, <2>1 DEF ToInit
  <2>3. Tail(net[h][App(t)]) = << >>
    BY <2>2, OneMessage
  <2>4. h \in Entities /\ App(t) \in Receivers(h)
    BY <1>2, <1>3, Channels2
  <2> QED  BY <1>1, <1>3, <1>4, <2>1, <2>3, <2>4 DEF ToInit
<1>9. ASSUME NEW b \in BgsOf(c) PROVE ThreadsOK(b)'
  <2>1. /\ ThreadsOK(b) /\ b \in Bgs /\ ProcessOf(b) = c /\ t \in ThreadsOf(ProcessOf(b))
        /\ InitOf(b) = t /\ bg[b].stage \in Creates /\ (bg[b].stage \in {"tables", "asked", "all tables"} => IsHead(b))
        /\ \A u \in ThreadsOf(ProcessOf(b)) : u \in Threads /\ net'[App(u)][b] = net[App(u)][b]
        /\ \A u \in ThreadsOf(ProcessOf(b)) \ {t} : thread'[u] = thread[u]
    BY <1>2, <1>3, <1>5, <1>9, Parts, Channels2 DEF WorkerOK
  <2>2. AppsAt(b)' = AppsAt(b)
    <3>1. \A u \in ThreadsOf(ProcessOf(b)) : thread'[u] \in Unregistered <=> thread[u] \in Unregistered
      BY <1>1, <1>3, <2>1 DEF Unregistered
    <3> QED  BY <2>1, <3>1 DEF AppsAt
  <2>3. GoneAt(b)' = GoneAt(b)
    BY <1>1, <1>3, <2>1 DEF GoneAt
  <2>4. FromThread(t, b)'
    BY <1>3 DEF FromThread
  <2>5. \A u \in ThreadsOf(ProcessOf(b)) \ {t} : FromThread(u, b)'
    BY <2>1, FromThreadStays DEF ThreadsOK
  <2>6. FromInit(b)'
    <3>1. CASE b # h
      <4>1. ~IsHead(b)
        BY <1>2, <1>9, <3>1
      <4> QED  BY <1>1, <1>3, <2>1, <3>1, <4>1 DEF ThreadsOK, FromInit, IsHead, InitOf
    <3>2. CASE b = h
      BY <1>1, <1>3, <1>8, <2>1, <3>2 DEF FromInit, InitOf
    <3> QED  BY <3>1, <3>2
  <2>7. b = HeadBg(ProcessOf(b)) => ToInit(ProcessOf(b))'
    BY <1>1, <1>2, <1>3, <1>8, <2>1 DEF ToInit
  <2> QED  BY <1>1, <2>1, <2>2, <2>3, <2>4, <2>5, <2>6, <2>7 DEF ThreadsOK
<1> QED  BY <1>3, <1>6, <1>7, <1>9, ThreadStepKeeps

-----------------------------------------------------------------------------
(* The two barriers.                                                       *)

\* A barrier moves the workers of a process and its init thread.
LEMMA BarrierKeeps ==
  ASSUME IInv, NEW c \in Clients, NEW x \in Middle \cup {"run"}, NEW y \in ThreadStages, x \notin Starts,
         \A b \in BgsOf(c) : bg[b].stage \in Middle,
         bg' = [b \in Bgs |-> IF b \in BgsOf(c) THEN [bg[b] EXCEPT !.stage = x] ELSE bg[b]],
         thread' = [thread EXCEPT ![InitThread[c]] = y],
         UNCHANGED <<net, nameNode, connected, creating, server, tables, clocks>>,
         x \in BgStages, y # "new", y = "register" => x = "app", y # "start", y # "done",
         y \in {"register", "create", "wait"} => x \in Creates, y = "run" => x \in Runs,
         x \notin {"tables", "asked", "all tables"}, KnowsTables(c)',
         \A b \in BgsOf(c) : NameNodeOK(b)' /\ ThreadsOK(b)' /\ bg[b].stage # "asked"
  PROVE  IInv'
<1>0. /\ InitThread[c] \in Threads /\ ClientOf[InitThread[c]] = c
      /\ \A b \in BgsOf(c) : b \in Bgs /\ ProcessOf(b) = c
      /\ \A b \in Bgs \ BgsOf(c) : ProcessOf(b) # c /\ ProcessOf(b) \in Clients
  BY ThreadsKnown, Workers DEF BgsOf
<1>1. /\ thread' \in [Threads -> ThreadStages] /\ thread'[InitThread[c]] = y
      /\ \A u \in Threads \ {InitThread[c]} : thread'[u] = thread[u]
  BY <1>0 DEF IInv, ShapeInv
<1>2. /\ bg' \in [Bgs -> [stage : BgStages, started : Nat, apps : Nat, gone : Nat, acks : Nat]]
      /\ \A b \in BgsOf(c) : /\ bg'[b].stage = x /\ bg'[b].started = bg[b].started /\ bg'[b].apps = bg[b].apps
                             /\ bg'[b].gone = bg[b].gone /\ bg'[b].acks = bg[b].acks
      /\ \A b \in Bgs \ BgsOf(c) : bg'[b] = bg[b]
  <2>1. bg \in [Bgs -> [stage : BgStages, started : Nat, apps : Nat, gone : Nat, acks : Nat]]
    BY DEF IInv, ShapeInv
  <2>2. \A b \in Bgs : bg'[b] = IF b \in BgsOf(c) THEN [bg[b] EXCEPT !.stage = x] ELSE bg[b]
    OBVIOUS
  <2>3. \A b \in Bgs : bg'[b] \in [stage : BgStages, started : Nat, apps : Nat, gone : Nat, acks : Nat]
    BY <2>1, <2>2
  <2>4. bg' = [b \in Bgs |-> bg'[b]]
    OBVIOUS
  <2> QED  BY <1>0, <2>1, <2>2, <2>3, <2>4
<1>3. ShapeInv'
  BY <1>1, <1>2 DEF IInv, ShapeInv
<1>4. StagesInv'
  <2>1. ASSUME NEW b \in Bgs PROVE WithInit(b)'
    <3>1. WithInit(b)
      BY DEF IInv, StagesInv
    <3>2. CASE b \in BgsOf(c)
      <4>1. thread'[InitOf(b)] = y /\ bg'[b].stage = x
        BY <1>0, <1>1, <1>2, <3>2 DEF InitOf
      <4> QED  BY <4>1 DEF WithInit, InitOf, IsHead
    <3>3. CASE b \notin BgsOf(c)
      <4>1. InitOf(b) # InitThread[c]
        <5>1. ClientOf[InitOf(b)] = ProcessOf(b) /\ ProcessOf(b) # c
          BY <1>0, <3>3, Channels2
        <5> QED  BY <1>0, <5>1
      <4>2. thread'[InitOf(b)] = thread[InitOf(b)] /\ bg'[b] = bg[b]
        BY <1>1, <1>2, <3>3, <4>1, Channels2
      <4> QED  BY <3>1, <4>2 DEF WithInit, InitOf, IsHead
    <3> QED  BY <3>2, <3>3
  <2>2. ASSUME NEW u \in Threads PROVE AfterInit(u)'
    <3>1. AfterInit(u) /\ InitThread[ClientOf[u]] \in Threads
      BY ThreadsKnown DEF IInv, StagesInv
    <3>2. thread[InitThread[c]] \notin {"run", "done"}
      <4>1. HeadBg(c) \in BgsOf(c) /\ HeadBg(c) \in Bgs /\ InitOf(HeadBg(c)) = InitThread[c]
        BY Workers, Channels2 DEF BgsOf
      <4>2. bg[HeadBg(c)].stage \notin Runs
        BY <4>1 DEF Middle, Creates, Runs
      <4> QED  BY <4>1, <4>2, InStep
    <3>3. CASE u = InitThread[c]
      BY <1>0, <3>3 DEF AfterInit
    <3>4. CASE u # InitThread[c]
      BY <1>1, <3>1, <3>2, <3>4 DEF AfterInit
    <3> QED  BY <3>3, <3>4
  <2>3. ASSUME NEW d \in Clients PROVE KnowsTables(d)'
    <3>1. CASE d # c
      <4>1. HeadBg(d) \in Bgs \ BgsOf(c)
        BY <3>1, Workers, <1>0
      <4> QED  BY <1>2, <4>1 DEF IInv, StagesInv, KnowsTables
    <3> QED  BY <3>1
  <2> QED  BY <2>1, <2>2, <2>3 DEF StagesInv
<1>5. SameGone
  BY <1>2 DEF SameGone
<1>6. SameToBgs /\ SameFromBgs /\ SameToServers /\ SameFromServers /\ SameOpLogs
  BY DEF SameToBgs, SameFromBgs, SameToServers, SameFromServers, SameOpLogs
<1>7. NameNodeInv' /\ ServerInv' /\ TablesInv'
  BY <1>5, <1>6, NameNodeStays, ServerStays, TablesStay DEF IInv
<1>8. CreatingInv'
  <2>1. \A b \in Bgs : \A tb \in Tables : QueuedFor(b, tb) => QueuedFor(b, tb)'
    BY <1>2 DEF QueuedFor
  <2>2. \A d \in Clients : \A tb \in Tables : Answered(d, tb)' <=> Answered(d, tb)
    BY DEF Answered
  <2> QED  BY <2>1, <2>2, CreatingStays DEF IInv
<1>9. ASSUME NEW b \in Bgs PROVE WorkerOK(b)'
  <2>1. WorkerOK(b)
    BY Parts
  <2>2. CASE b \in BgsOf(c)
    <3>1. SameServersOf(b) /\ SameWithServers(b)
      BY DEF SameServersOf, SameWithServers
    <3>2. net'[NameNode][b] # << Msg("ClientStart") >>
      <4>1. bg[b].stage \notin {"connect", "handshake"}
        BY <2>2 DEF Middle, Creates
      <4> QED  BY <4>1, AllStarted
    <3>3. ServersOK(b)' /\ CountsOK(b)'
      BY <1>2, <2>2, <3>1, <3>2, MiddleStays
    <3> QED  BY <2>2, <3>3 DEF WorkerOK
  <2>3. CASE b \notin BgsOf(c)
    <3>1. bg'[b] = bg[b]
      BY <1>2, <2>3
    <3>2. \A t \in ThreadsOf(ProcessOf(b)) : thread'[t] = thread[t]
      BY <1>0, <1>1, <2>3, ThreadsKnown
    <3>3. Aside(b)
      BY <3>1, <3>2 DEF Aside, SameWithNameNode, SameWithServers, SameWithThreads, SameServersOf, SameThreadsOf, SameTablesOf
    <3> QED  BY <2>1, <3>3, WorkerStays
  <2> QED  BY <2>2, <2>3
<1> QED  BY <1>3, <1>4, <1>7, <1>8, <1>9, PartsNext

\* The threads of the process, when the barrier moves its init thread.
LEMMA BarrierThreads ==
  ASSUME IInv, NEW c \in Clients, NEW b \in BgsOf(c), NEW y \in ThreadStages,
         thread' = [thread EXCEPT ![InitThread[c]] = y], bg'[b].apps = bg[b].apps, bg'[b].gone = bg[b].gone,
         UNCHANGED <<net, tables>>, y \in {"register", "run"}, thread[InitThread[c]] \notin {"done", "wait"},
         y \in Unregistered <=> thread[InitThread[c]] \in Unregistered,
         net[App(InitThread[c])][b] = << >>, y = "register" => bg'[b].stage = "app",
         y = "run" => bg'[b].stage = "run"
  PROVE  ThreadsOK(b)'
<1> DEFINE t == InitThread[c]
<1>1. /\ b \in Bgs /\ ProcessOf(b) = c /\ t \in ThreadsOf(c) /\ InitOf(b) = t /\ t \in Threads
      /\ \A u \in ThreadsOf(c) : u \in Threads
  BY ThreadsKnown, Channels2
<1>2. thread'[t] = y /\ \A u \in Threads \ {t} : thread'[u] = thread[u]
  BY <1>1 DEF IInv, ShapeInv
<1>3. ThreadsOK(b)
  BY <1>1, Parts DEF WorkerOK
<1>4. AppsAt(b)' = AppsAt(b)
  <2>1. \A u \in ThreadsOf(c) : thread'[u] \in Unregistered <=> thread[u] \in Unregistered
    BY <1>1, <1>2
  <2> QED  BY <1>1, <2>1 DEF AppsAt
<1>5. GoneAt(b)' = GoneAt(b)
  BY <1>1, <1>2 DEF GoneAt
<1>6. \A u \in ThreadsOf(c) : FromThread(u, b)'
  <2>1. FromThread(t, b)'
    BY EmptySeq DEF FromThread
  <2>2. \A u \in ThreadsOf(c) \ {t} : FromThread(u, b)'
    BY <1>1, <1>2, <1>3 DEF ThreadsOK, FromThread
  <2> QED  BY <2>1, <2>2
<1>7. b = HeadBg(c) => ToInit(c)'
  <2> SUFFICES ASSUME b = HeadBg(c) PROVE ToInit(c)'
    OBVIOUS
  <2>1. net[HeadBg(c)][App(t)] = << >>
    BY <1>1, <1>3 DEF ThreadsOK, ToInit
  <2> QED  BY <2>1 DEF ToInit
<1>8. FromInit(b)'
  BY <1>1, <1>2 DEF FromInit, InitOf, Starts
<1>9. bg'[b].apps = Cardinality(AppsAt(b)') /\ bg'[b].gone = Cardinality(GoneAt(b)')
  BY <1>3, <1>4, <1>5 DEF ThreadsOK
<1> QED  BY <1>1, <1>6, <1>7, <1>8, <1>9 DEF ThreadsOK

\* init_barrier_.
LEMMA PassInitBarrierKeeps ==
  ASSUME IInv, NEW c \in Clients, PassInitBarrier(c)
  PROVE  IInv'
<1>1. /\ \A b \in BgsOf(c) : bg[b].stage = "init barrier"
      /\ thread[InitThread[c]] = "start"
      /\ thread' = [thread EXCEPT ![InitThread[c]] = "register"]
      /\ bg' = [b \in Bgs |-> IF b \in BgsOf(c) THEN [bg[b] EXCEPT !.stage = "app"] ELSE bg[b]]
      /\ UNCHANGED <<net, nameNode, connected, creating, server, tables, clocks>>
  BY DEF PassInitBarrier
<1>2. \A b \in BgsOf(c) : b \in Bgs /\ ProcessOf(b) = c /\ InitOf(b) = InitThread[c]
  BY ThreadsKnown, Channels2
<1>3. ASSUME NEW b \in BgsOf(c)
      PROVE  bg'[b].stage = "app" /\ bg'[b].apps = bg[b].apps /\ bg'[b].gone = bg[b].gone
  <2>1. bg[b] \in [stage : BgStages, started : Nat, apps : Nat, gone : Nat, acks : Nat]
    BY <1>2 DEF IInv, ShapeInv
  <2> QED  BY <1>1, <1>2, <2>1
<1>4. ASSUME NEW b \in BgsOf(c) PROVE NameNodeOK(b)'
  BY <1>1, <1>2, <1>3, Parts DEF WorkerOK, NameNodeOK, FromNameNode, ToNameNode, Runs
<1>5. ASSUME NEW b \in BgsOf(c) PROVE ThreadsOK(b)'
  <2>1. net[App(InitThread[c])][b] = << >>
    BY <1>1, <1>2, Parts DEF WorkerOK, ThreadsOK, FromInit, Starts
  <2> QED  BY <1>1, <1>3, <2>1, BarrierThreads DEF Unregistered, ThreadStages
<1>6. KnowsTables(c)'
  <2>1. HeadBg(c) \in BgsOf(c)
    BY Workers DEF BgsOf
  <2> QED  BY <1>1, <1>3, <2>1 DEF IInv, StagesInv, KnowsTables, Runs
<1> DEFINE x == "app"
           y == "register"
<1>7. /\ x \in Middle \cup {"run"} /\ y \in ThreadStages /\ x \notin Starts /\ x \in BgStages
      /\ y # "new" /\ (y = "register" => x = "app") /\ y # "start" /\ y # "done"
      /\ (y \in {"register", "create", "wait"} => x \in Creates) /\ (y = "run" => x \in Runs)
      /\ x \notin {"tables", "asked", "all tables"}
  BY DEF Middle, Creates, Starts, ThreadStages, BgStages
<1>8. \A b \in BgsOf(c) : bg[b].stage \in Middle /\ bg[b].stage # "asked"
  BY <1>1 DEF Middle
<1>9. /\ bg' = [b \in Bgs |-> IF b \in BgsOf(c) THEN [bg[b] EXCEPT !.stage = x] ELSE bg[b]]
      /\ thread' = [thread EXCEPT ![InitThread[c]] = y]
  BY <1>1
<1> HIDE DEF x, y
<1> QED  BY <1>1, <1>4, <1>5, <1>6, <1>7, <1>8, <1>9, BarrierKeeps

\* create_table_barrier_.
LEMMA PassCreateTableBarrierKeeps ==
  ASSUME IInv, NEW c \in Clients, PassCreateTableBarrier(c)
  PROVE  IInv'
<1>1. /\ \A b \in BgsOf(c) : bg[b].stage = "table barrier"
      /\ thread[InitThread[c]] = "create" /\ tables[c] = Tables
      /\ thread' = [thread EXCEPT ![InitThread[c]] = "run"]
      /\ bg' = [b \in Bgs |-> IF b \in BgsOf(c) THEN [bg[b] EXCEPT !.stage = "run"] ELSE bg[b]]
      /\ UNCHANGED <<net, nameNode, connected, creating, server, tables, clocks>>
  BY DEF PassCreateTableBarrier
<1>2. \A b \in BgsOf(c) : b \in Bgs /\ ProcessOf(b) = c /\ InitOf(b) = InitThread[c]
  BY ThreadsKnown, Channels2
<1>3. ASSUME NEW b \in BgsOf(c)
      PROVE  bg'[b].stage = "run" /\ bg'[b].apps = bg[b].apps /\ bg'[b].gone = bg[b].gone
  <2>1. bg[b] \in [stage : BgStages, started : Nat, apps : Nat, gone : Nat, acks : Nat]
    BY <1>2 DEF IInv, ShapeInv
  <2> QED  BY <1>1, <1>2, <2>1
<1>4. HeadBg(c) \in BgsOf(c) /\ HeadBg(c) \in Bgs /\ IsHead(HeadBg(c))
  BY Workers DEF BgsOf, IsHead
<1>5. AllCreated
  BY <1>1, <1>4 DEF IInv, FromNameNodeInv, FromNameNode
<1>6. ASSUME NEW b \in BgsOf(c) PROVE NameNodeOK(b)'
  <2>1. AllCreated'
    BY <1>1, <1>5 DEF AllCreated, HaveCreatedAllTables
  <2>2. /\ NameNodeOK(b) /\ bg[b].stage = "table barrier" /\ bg'[b].stage = "run"
        /\ UNCHANGED <<net, nameNode, connected>>
    BY <1>1, <1>2, <1>3, Parts DEF WorkerOK
  <2> QED  BY <2>1, <2>2 DEF NameNodeOK, FromNameNode, ToNameNode
<1>7. ASSUME NEW b \in BgsOf(c) PROVE ThreadsOK(b)'
  <2>1. net[App(InitThread[c])][b] = << >>
    BY <1>1, <1>2, Parts DEF WorkerOK, ThreadsOK, FromInit
  <2> QED  BY <1>1, <1>3, <2>1, BarrierThreads DEF Unregistered, ThreadStages
<1>8. KnowsTables(c)'
  BY <1>1, <1>3, <1>4 DEF KnowsTables, Runs
<1> DEFINE x == "run"
           y == "run"
<1>9. /\ x \in Middle \cup {"run"} /\ y \in ThreadStages /\ x \notin Starts /\ x \in BgStages
      /\ y # "new" /\ (y = "register" => x = "app") /\ y # "start" /\ y # "done"
      /\ (y \in {"register", "create", "wait"} => x \in Creates) /\ (y = "run" => x \in Runs)
      /\ x \notin {"tables", "asked", "all tables"}
  BY DEF Runs, Starts, ThreadStages, BgStages
<1>10. \A b \in BgsOf(c) : bg[b].stage \in Middle /\ bg[b].stage # "asked"
  BY <1>1 DEF Middle, Creates
<1>11. /\ bg' = [b \in Bgs |-> IF b \in BgsOf(c) THEN [bg[b] EXCEPT !.stage = x] ELSE bg[b]]
       /\ thread' = [thread EXCEPT ![InitThread[c]] = y]
  BY <1>1
<1> HIDE DEF x, y
<1> QED  BY <1>1, <1>6, <1>7, <1>8, <1>9, <1>10, <1>11, BarrierKeeps

-----------------------------------------------------------------------------
(* The workers' steps.                                                     *)

\* A worker's step has to do with its own channels, and with nobody else's.
BgStep(b) ==
  /\ IsNet(net')
  /\ \A x \in Entities : \A y \in Receivers(x) : x # b /\ y # b => net'[x][y] = net[x][y]
  /\ UNCHANGED <<nameNode, connected, creating, server, thread, clocks>>
  /\ bg' \in [Bgs -> [stage : BgStages, started : Nat, apps : Nat, gone : Nat, acks : Nat]]
  /\ \A d \in Bgs \ {b} : bg'[d] = bg[d]
  /\ tables' \in [Clients -> SUBSET Tables]
  /\ \A c \in Clients : tables'[c] = tables[c] \/ (c = ProcessOf(b) /\ IsHead(b))

\* The worker stays in step with the init thread.
WithProcess(b) == WithInit(b) /\ (IsHead(b) => KnowsTables(ProcessOf(b)))

\* The stages after a worker's step,
LEMMA BgStepStages ==
  ASSUME IInv, NEW b \in Bgs, BgStep(b), WithProcess(b)'
  PROVE  StagesInv'
<1>1. ASSUME NEW d \in Bgs PROVE WithInit(d)'
  <2>1. CASE d = b
    BY <2>1 DEF WithProcess
  <2>2. CASE d # b
    <3>1. WithInit(d) /\ bg'[d] = bg[d] /\ thread' = thread
      BY <2>2 DEF IInv, StagesInv, BgStep
    <3> QED  BY <3>1 DEF WithInit, InitOf, IsHead
  <2> QED  BY <2>1, <2>2
<1>2. ASSUME NEW t \in Threads PROVE AfterInit(t)'
  BY DEF IInv, StagesInv, BgStep, AfterInit
<1>3. ASSUME NEW c \in Clients PROVE KnowsTables(c)'
  <2>1. HeadBg(c) \in Bgs /\ ProcessOf(HeadBg(c)) = c /\ IsHead(HeadBg(c))
    BY Workers DEF IsHead
  <2>2. CASE HeadBg(c) = b
    BY <2>1, <2>2 DEF WithProcess, IsHead
  <2>3. CASE HeadBg(c) # b
    <3>1. tables'[c] = tables[c]
      BY <2>1, <2>3, Workers DEF BgStep, IsHead
    <3>2. bg'[HeadBg(c)] = bg[HeadBg(c)] /\ KnowsTables(c)
      BY <2>1, <2>3 DEF BgStep, IInv, StagesInv
    <3> QED  BY <3>1, <3>2 DEF KnowsTables
  <2> QED  BY <2>2, <2>3
<1> QED  BY <1>1, <1>2, <1>3 DEF StagesInv

\* and the rest: what the others know of the worker has to stay.
LEMMA BgStepKeeps ==
  ASSUME IInv, NEW b \in Bgs, BgStep(b), WithProcess(b)', WorkerOK(b)',
         (Down(b) /\ net[b][NameNode] = << >>)' <=> Down(b) /\ net[b][NameNode] = << >>,
         \A s \in OnChannel(Servers, b) : (Down(b) /\ net[b][s] = << >>)' <=> Down(b) /\ net[b][s] = << >>,
         b \in connected[NameNode] \/ net'[b][NameNode] = net[b][NameNode],
         \A tb \in Tables : QueuedFor(b, tb) => QueuedFor(b, tb)',
         IsHead(b) => \A tb \in Tables : Answered(ProcessOf(b), tb)' <=> Answered(ProcessOf(b), tb)
  PROVE  IInv'
<1>0. /\ UNCHANGED <<nameNode, connected, creating, server, thread, clocks>>
      /\ \A d \in Bgs \ {b} : bg'[d] = bg[d]
      /\ b \notin Servers /\ b # NameNode /\ ProcessOf(b) \in Clients
  BY Kinds, Workers DEF BgStep
<1>1. ShapeInv'
  BY DEF BgStep, IInv, ShapeInv
<1>2. StagesInv'
  BY BgStepStages
<1>3. SameToServers /\ SameFromServers
  BY <1>0, Channels1, Kinds DEF BgStep, SameToServers, SameFromServers
<1>4. ASSUME NEW d \in Bgs \ {b} PROVE Aside(d) /\ Down(d)' = Down(d)
  <2>1. SameWithNameNode(d) /\ SameWithServers(d)
    BY <1>0, Channels1, Kinds DEF BgStep, SameWithNameNode, SameWithServers
  <2>2. SameWithThreads(d)
    <3>1. \A t \in ThreadsOf(ProcessOf(d)) : net'[App(t)][d] = net[App(t)][d]
      BY Channels2, Kinds DEF BgStep
    <3>2. d = HeadBg(ProcessOf(d)) => net'[d][App(InitOf(d))] = net[d][App(InitOf(d))]
      <4>1. d = HeadBg(ProcessOf(d)) => d \in Entities /\ App(InitOf(d)) \in Receivers(d) /\ App(InitOf(d)) # b
        BY Channels2, Kinds, Workers
      <4> QED  BY <4>1 DEF BgStep
    <3> QED  BY <3>1, <3>2 DEF SameWithThreads
  <2>3. SameThreadsOf(d)
    <3>1. SameTablesOf(d)
      <4>1. CASE tables'[ProcessOf(d)] = tables[ProcessOf(d)]
        BY <4>1 DEF SameTablesOf
      <4>2. CASE tables'[ProcessOf(d)] # tables[ProcessOf(d)]
        <5>1. ProcessOf(d) = ProcessOf(b) /\ IsHead(b)
          BY <4>2, Workers DEF BgStep
        <5>2. ~IsHead(d)
          BY <5>1, Workers DEF IsHead
        <5>3. WithInit(d)
          BY DEF IInv, StagesInv
        <5> QED  BY <5>2, <5>3 DEF WithInit, SameTablesOf
      <4> QED  BY <4>1, <4>2
    <3> QED  BY <1>0, <3>1 DEF SameThreadsOf
  <2>4. SameServersOf(d)
    BY <1>0 DEF SameServersOf
  <2>5. Down(d)' = Down(d)
    BY <1>0 DEF Down
  <2> QED  BY <1>0, <2>1, <2>2, <2>3, <2>4, <2>5 DEF Aside
<1>5. ASSUME NEW d \in Bgs PROVE WorkerOK(d)'
  <2>1. d # b => WorkerOK(d)'
    BY <1>0, <1>4, Parts, WorkerStays
  <2> QED  BY <2>1
<1>6. NameNodeInv'
  <2>1. \A d \in Bgs : (Down(d) /\ net[d][NameNode] = << >>)' <=> Down(d) /\ net[d][NameNode] = << >>
    BY <1>4 DEF Aside, SameWithNameNode
  <2>2. \A d \in Bgs : d \notin connected[NameNode] => net'[d][NameNode] = net[d][NameNode]
    BY <1>4 DEF Aside, SameWithNameNode
  <2> QED  BY <1>0, <1>3, <2>1, <2>2, NameNodeKnows DEF IInv, SameFromServers
<1>7. ServerInv'
  <2>1. \A s \in Servers : \A d \in OnChannel(Bgs, s) :
          (Down(d) /\ net[d][s] = << >>)' <=> Down(d) /\ net[d][s] = << >>
    BY <1>4, Channels1 DEF Aside, SameWithServers
  <2> QED  BY <1>0, <2>1, ServersKnow DEF IInv
<1>8. TablesInv'
  BY <1>0, <1>3, TablesStay DEF IInv
<1>9. CreatingInv'
  <2>1. ASSUME NEW d \in Bgs, NEW tb \in Tables, QueuedFor(d, tb) PROVE QueuedFor(d, tb)'
    <3>1. CASE d = b
      BY <2>1, <3>1
    <3>2. CASE d # b
      <4>1. Aside(d) /\ bg[d].stage = "asked"
        BY <1>4, <2>1, <3>2 DEF QueuedFor
      <4>2. tables'[ProcessOf(d)] = tables[ProcessOf(d)]
        BY <4>1 DEF Aside, SameThreadsOf, SameTablesOf
      <4> QED  BY <1>0, <2>1, <4>1, <4>2 DEF QueuedFor, Aside, SameWithNameNode
    <3> QED  BY <3>1, <3>2
  <2>2. ASSUME NEW c \in Clients, NEW tb \in Tables PROVE Answered(c, tb)' <=> Answered(c, tb)
    <3>1. HeadBg(c) \in Bgs /\ ProcessOf(HeadBg(c)) = c /\ IsHead(HeadBg(c))
      BY Workers DEF IsHead
    <3>2. CASE HeadBg(c) = b
      BY <3>1, <3>2
    <3>3. CASE HeadBg(c) # b
      <4>1. net'[NameNode][HeadBg(c)] = net[NameNode][HeadBg(c)]
        BY <1>4, <3>1, <3>3 DEF Aside, SameWithNameNode
      <4>2. tables'[c] = tables[c]
        BY <3>1, <3>3, Workers DEF BgStep, IsHead
      <4> QED  BY <4>1, <4>2 DEF Answered
    <3> QED  BY <3>2, <3>3
  <2> QED  BY <1>0, <2>1, <2>2, CreatingStays DEF IInv
<1> QED  BY <1>1, <1>2, <1>5, <1>6, <1>7, <1>8, <1>9, PartsNext

\* What a worker's message does to the network.
LEMMA BgReceives ==
  ASSUME IInv, NEW b \in Bgs, NEW e \in Entities, b \in Receivers(e), net[e][b] # << >>, net' = Received(e, b)
  PROVE  /\ IsNet(net') /\ net[e][b] \in Seq(Message) /\ net'[e][b] = Tail(net[e][b])
         /\ \A x \in Entities : \A y \in Receivers(x) : x # e \/ y # b => net'[x][y] = net[x][y]
<1>1. /\ IsNet(net')
      /\ \A x \in Entities : \A y \in Receivers(x) :
           net'[x][y] = IF x = e /\ y = b THEN Tail(net[e][b]) ELSE net[x][y]
  BY ReceivedNet DEF IInv, ShapeInv
<1> QED  BY <1>1 DEF IInv, ShapeInv, IsNet

\* A worker that receives from somebody else and sends a message to all of R.
LEMMA BgAnswers ==
  ASSUME IInv, NEW b \in Bgs, NEW e \in Entities, b \in Receivers(e), net[e][b] # << >>, e # b,
         NEW R, NEW m \in Message, net' = Sent(Received(e, b), b, R, m)
  PROVE  /\ IsNet(net') /\ net[e][b] \in Seq(Message) /\ net'[e][b] = Tail(net[e][b])
         /\ \A x \in Entities : \A y \in Receivers(x) : x # b /\ (x # e \/ y # b) => net'[x][y] = net[x][y]
         /\ \A y \in Receivers(b) : net'[b][y] = IF y \in R THEN Append(net[b][y], m) ELSE net[b][y]
<1> DEFINE n == Received(e, b)
<1>1. /\ IsNet(n)
      /\ \A x \in Entities : \A y \in Receivers(x) :
           n[x][y] = IF x = e /\ y = b THEN Tail(net[e][b]) ELSE net[x][y]
  BY ReceivedNet DEF IInv, ShapeInv
<1> HIDE DEF n
<1>2. b \in Entities
  BY EntitiesAre
<1>3. net' = Sent(n, b, R, m)
  BY DEF n
<1>4. /\ IsNet(net')
      /\ \A x \in Entities : \A y \in Receivers(x) :
           net'[x][y] = IF x = b /\ y \in R THEN Append(n[x][y], m) ELSE n[x][y]
  BY <1>1, <1>2, <1>3, SentNet
<1>5. net'[e][b] = Tail(net[e][b])
  BY <1>1, <1>4
<1>6. \A x \in Entities : \A y \in Receivers(x) : x # b /\ (x # e \/ y # b) => net'[x][y] = net[x][y]
  BY <1>1, <1>4
<1>7. \A y \in Receivers(b) : n[b][y] = net[b][y]
  BY <1>1, <1>2
<1>8. \A y \in Receivers(b) : net'[b][y] = IF y \in R THEN Append(net[b][y], m) ELSE net[b][y]
  BY <1>2, <1>4, <1>7
<1> QED  BY <1>4, <1>5, <1>6, <1>8 DEF IInv, ShapeInv, IsNet

\* Hearing the next message of a thread.
LEMMA TalkHeard ==
  ASSUME NEW q \in Seq(Message), q # << >>, NEW done \in BOOLEAN, Talk(q, done)
  PROVE  /\ Talk(Tail(q), done) /\ ~Holds(Tail(q), Msg("AppConnect"))
         /\ Holds(q, Msg("AppConnect")) <=> Head(q).type = "AppConnect"
         /\ Head(q).type = "AppThreadDereg" => done /\ Tail(q) = << >>
         /\ Head(q).type # "AppThreadDereg" /\ done => Tail(q) # << >>
<1> DEFINE a == Tail(q)
<1>1. /\ Head(q) = q[1] /\ Len(q) \in Nat \ {0} /\ DOMAIN q = 1 .. Len(q)
      /\ Len(a) = Len(q) - 1 /\ DOMAIN a = 1 .. Len(q) - 1
      /\ \A i \in 1 .. Len(q) - 1 : a[i] = q[i + 1]
      /\ a = << >> <=> Len(q) = 1
  BY Taken
<1>2. /\ \A i \in 1 .. Len(q) : \/ q[i] = Msg("AppConnect") /\ i = 1
                                \/ q[i] = Msg("BgClock")
                                \/ q[i] = Msg("AppThreadDereg") /\ done /\ i = Len(q)
      /\ done => q[Len(q)] = Msg("AppThreadDereg")
  BY <1>1 DEF Talk
<1>3. /\ Msg("AppConnect").type = "AppConnect" /\ Msg("BgClock").type = "BgClock"
      /\ Msg("AppThreadDereg").type = "AppThreadDereg"
      /\ Msg("AppConnect") # Msg("BgClock") /\ Msg("AppConnect") # Msg("AppThreadDereg")
      /\ Msg("BgClock") # Msg("AppThreadDereg")
  BY Messages
<1> HIDE DEF a
<1>4. /\ \A i \in 1 .. Len(q) - 1 : /\ a[i] # Msg("AppConnect")
                                    /\ \/ a[i] = Msg("BgClock")
                                       \/ a[i] = Msg("AppThreadDereg") /\ done /\ i = Len(q) - 1
  <2> SUFFICES ASSUME NEW i \in 1 .. Len(q) - 1
               PROVE  /\ a[i] # Msg("AppConnect")
                      /\ \/ a[i] = Msg("BgClock")
                         \/ a[i] = Msg("AppThreadDereg") /\ done /\ i = Len(q) - 1
    OBVIOUS
  <2>1. i + 1 \in 1 .. Len(q) /\ i + 1 # 1 /\ a[i] = q[i + 1] /\ (i + 1 = Len(q) => i = Len(q) - 1)
    <3>1. i \in Nat /\ 1 <= i /\ i <= Len(q) - 1 /\ Len(q) \in Nat
      BY <1>1
    <3>2. i + 1 \in 1 .. Len(q) /\ i + 1 # 1 /\ (i + 1 = Len(q) => i = Len(q) - 1)
      <4> DEFINE L == Len(q)
      <4>1. i \in Nat /\ 1 <= i /\ i <= L - 1 /\ L \in Nat
        BY <3>1
      <4> HIDE DEF L
      <4>2. i + 1 \in 1 .. L /\ i + 1 # 1 /\ (i + 1 = L => i = L - 1)
        BY <4>1
      <4> QED  BY <4>2 DEF L
    <3>3. a[i] = q[i + 1]
      BY <1>1
    <3> QED  BY <3>2, <3>3
  <2> QED  BY <1>2, <1>3, <2>1
<1>5. a # << >> => Len(q) - 1 \in 1 .. Len(q) - 1 /\ a[Len(q) - 1] = q[Len(q)]
  BY <1>1
<1>6. Talk(a, done)
  BY <1>1, <1>2, <1>4, <1>5 DEF Talk
<1>7. ~Holds(a, Msg("AppConnect"))
  BY <1>1, <1>4 DEF Holds
<1>8. Holds(q, Msg("AppConnect")) <=> Head(q).type = "AppConnect"
  <2>1. 1 \in 1 .. Len(q)
    BY <1>1
  <2>2. ASSUME Holds(q, Msg("AppConnect")) PROVE q[1] = Msg("AppConnect")
    <3>1. PICK i \in 1 .. Len(q) : q[i] = Msg("AppConnect")
      BY <1>1, <2>2 DEF Holds
    <3> QED  BY <1>2, <1>3, <3>1
  <2>3. Head(q).type = "AppConnect" => q[1] = Msg("AppConnect")
    BY <1>1, <1>2, <1>3, <2>1
  <2> QED  BY <1>1, <1>3, <2>1, <2>2, <2>3 DEF Holds
<1>9. Head(q).type = "AppThreadDereg" => done /\ a = << >>
  <2>1. 1 \in 1 .. Len(q)
    BY <1>1
  <2>2. Head(q).type = "AppThreadDereg" => done /\ 1 = Len(q)
    BY <1>1, <1>2, <1>3, <2>1
  <2> QED  BY <1>1, <2>2
<1>10. Head(q).type # "AppThreadDereg" /\ done => a # << >>
  BY <1>1, <1>2, <1>3
<1> QED  BY <1>6, <1>7, <1>8, <1>9, <1>10 DEF a

\* A running worker hears a thread: the thread runs, or has come to its end.
LEMMA Hears ==
  ASSUME IInv, NEW b \in Bgs, bg[b].stage = "run", NEW t \in ThreadsOf(ProcessOf(b)), net[App(t)][b] # << >>
  PROVE  /\ thread[t] \in {"run", "done"} /\ Talk(net[App(t)][b], thread[t] = "done")
         /\ App(t) \in Entities /\ b \in Receivers(App(t)) /\ App(t) # b /\ App(t) \notin Daemons
         /\ net[App(t)][b] \in Seq(Message)
         /\ InitOf(b) \in ThreadsOf(ProcessOf(b)) /\ InitOf(b) = InitThread[ProcessOf(b)]
         /\ \A u \in ThreadsOf(ProcessOf(b)) : u \in Threads /\ App(u) \in Entities /\ b \in Receivers(App(u))
         /\ \A u \in ThreadsOf(ProcessOf(b)) \ {t} : App(u) # App(t)
<1>1. /\ App(t) \in Entities /\ b \in Receivers(App(t)) /\ App(t) # b /\ App(t) \notin Daemons /\ t \in Threads
      /\ InitOf(b) \in ThreadsOf(ProcessOf(b)) /\ InitOf(b) = InitThread[ProcessOf(b)]
      /\ \A u \in ThreadsOf(ProcessOf(b)) : u \in Threads /\ App(u) \in Entities /\ b \in Receivers(App(u))
  BY Channels2, Kinds, EntitiesAre
<1>2. thread[t] \in {"run", "done"}
  <2>1. FromThread(t, b)
    BY DEF IInv, FromThreadInv
  <2>2. thread[t] # "new"
    BY <2>1 DEF FromThread
  <2> QED  BY <2>2, InStep DEF Runs
<1>3. Talk(net[App(t)][b], thread[t] = "done")
  BY <1>2, TalkIs DEF IInv, FromThreadInv
<1> QED  BY <1>1, <1>2, <1>3, WorkerTypes, Kinds DEF IInv

\* What b has received from t, and what it counts.
LEMMA HeardNext ==
  ASSUME IInv, NEW b \in Bgs, bg[b].stage = "run", NEW t \in ThreadsOf(ProcessOf(b)), net[App(t)][b] # << >>,
         net'[App(t)][b] = Tail(net[App(t)][b]), thread' = thread,
         \A u \in ThreadsOf(ProcessOf(b)) \ {t} : net'[App(u)][b] = net[App(u)][b],
         bg'[b].stage = "run",
         IsHead(b) => net'[b][App(InitOf(b))] = net[b][App(InitOf(b))],
         bg'[b].apps = bg[b].apps + (IF Head(net[App(t)][b]).type = "AppConnect" THEN 1 ELSE 0),
         bg'[b].gone = bg[b].gone + (IF Head(net[App(t)][b]).type = "AppThreadDereg" THEN 1 ELSE 0)
  PROVE  ThreadsOK(b)'
<1> DEFINE q == net[App(t)][b]
<1>1. /\ thread[t] \in {"run", "done"} /\ Talk(q, thread[t] = "done") /\ q \in Seq(Message)
      /\ InitOf(b) \in ThreadsOf(ProcessOf(b)) /\ InitOf(b) = InitThread[ProcessOf(b)]
      /\ \A u \in ThreadsOf(ProcessOf(b)) : u \in Threads
  BY Hears
<1>2. /\ Talk(Tail(q), thread[t] = "done") /\ ~Holds(Tail(q), Msg("AppConnect"))
      /\ Holds(q, Msg("AppConnect")) <=> Head(q).type = "AppConnect"
      /\ Head(q).type = "AppThreadDereg" => thread[t] = "done" /\ Tail(q) = << >>
      /\ Head(q).type # "AppThreadDereg" /\ thread[t] = "done" => Tail(q) # << >>
  BY <1>1, TalkHeard
<1>3. ThreadsOK(b)
  BY Parts DEF WorkerOK
<1>4. IsFiniteSet(ThreadsOf(ProcessOf(b))) /\ AppsAt(b) \in SUBSET ThreadsOf(ProcessOf(b))
      /\ GoneAt(b) \in SUBSET ThreadsOf(ProcessOf(b))
  BY NumberOfThreads DEF AppsAt, GoneAt
<1>5. bg'[b].apps = Cardinality(AppsAt(b)')
  <2>1. CASE Head(q).type = "AppConnect"
    <3>1. t \notin AppsAt(b)
      BY <1>2, <2>1 DEF AppsAt
    <3>2. AppsAt(b)' = AppsAt(b) \cup {t}
      BY <1>1, <1>2 DEF AppsAt, Unregistered
    <3>3. Cardinality(AppsAt(b) \cup {t}) = Cardinality(AppsAt(b)) + 1
      BY <1>4, <3>1, CountsAll
    <3> QED  BY <1>3, <2>1, <3>2, <3>3 DEF ThreadsOK
  <2>2. CASE Head(q).type # "AppConnect"
    <3>1. AppsAt(b)' = AppsAt(b)
      BY <1>1, <1>2, <2>2 DEF AppsAt
    <3> QED  BY <1>3, <2>2, <3>1, WorkerTypes DEF ThreadsOK, IInv
  <2> QED  BY <2>1, <2>2
<1>6. bg'[b].gone = Cardinality(GoneAt(b)')
  <2>1. CASE Head(q).type = "AppThreadDereg"
    <3>1. t \notin GoneAt(b)
      BY DEF GoneAt
    <3>2. GoneAt(b)' = GoneAt(b) \cup {t}
      BY <1>1, <1>2, <2>1 DEF GoneAt
    <3>3. Cardinality(GoneAt(b) \cup {t}) = Cardinality(GoneAt(b)) + 1
      BY <1>4, <3>1, CountsAll
    <3> QED  BY <1>3, <2>1, <3>2, <3>3 DEF ThreadsOK
  <2>2. CASE Head(q).type # "AppThreadDereg"
    <3>1. GoneAt(b)' = GoneAt(b)
      BY <1>1, <1>2, <2>2 DEF GoneAt
    <3> QED  BY <1>3, <2>2, <3>1, WorkerTypes DEF ThreadsOK, IInv
  <2> QED  BY <2>1, <2>2
<1>7. \A u \in ThreadsOf(ProcessOf(b)) : FromThread(u, b)'
  <2>1. FromThread(t, b)'
    <3>1. Talk(net'[App(t)][b], thread'[t] = "done") /\ thread'[t] # "new"
      BY <1>1, <1>2
    <3> QED  BY <3>1, TalkNext
  <2>2. \A u \in ThreadsOf(ProcessOf(b)) \ {t} : FromThread(u, b)'
    BY <1>1, <1>3, FromThreadStays DEF ThreadsOK
  <2> QED  BY <2>1, <2>2
<1>8. FromInit(b)'
  <2>1. thread'[InitOf(b)] \in {"run", "done"}
    BY InStep DEF Runs
  <2> QED  BY <2>1 DEF FromInit, InitOf, Starts
<1>9. b = HeadBg(ProcessOf(b)) => ToInit(ProcessOf(b))'
  <2> SUFFICES ASSUME b = HeadBg(ProcessOf(b)) PROVE ToInit(ProcessOf(b))'
    OBVIOUS
  <2>1. IsHead(b) /\ net[b][App(InitOf(b))] = << >>
    BY <1>1, <1>3, Workers DEF ThreadsOK, ToInit, IsHead
  <2>2. net'[HeadBg(ProcessOf(b))][App(InitThread[ProcessOf(b)])] = << >>
    BY <1>1, <2>1
  <2> QED  BY <2>2 DEF ToInit
<1> QED  BY <1>5, <1>6, <1>7, <1>8, <1>9 DEF ThreadsOK

\* A worker that stays in its stage stays in step.
LEMMA StageStays ==
  ASSUME IInv, NEW b \in Bgs, bg'[b].stage = bg[b].stage, thread' = thread, tables' = tables
  PROVE  WithProcess(b)'
<1>1. WithInit(b) /\ (IsHead(b) => KnowsTables(ProcessOf(b)))
  BY Workers DEF IInv, StagesInv
<1>2. IsHead(b) => HeadBg(ProcessOf(b)) = b
  BY Workers DEF IsHead
<1> QED  BY <1>1, <1>2 DEF WithProcess, WithInit, KnowsTables, InitOf, IsHead

\* The fields of a worker that changes.
LEMMA WorkerChanges ==
  ASSUME IInv, NEW b \in Bgs, NEW x \in [stage : BgStages, started : Nat, apps : Nat, gone : Nat, acks : Nat],
         bg' = [bg EXCEPT ![b] = x]
  PROVE  /\ bg' \in [Bgs -> [stage : BgStages, started : Nat, apps : Nat, gone : Nat, acks : Nat]]
         /\ bg'[b] = x /\ \A d \in Bgs \ {b} : bg'[d] = bg[d]
BY DEF IInv, ShapeInv

\* kAppConnect.
LEMMA BgAppConnectKeeps ==
  ASSUME IInv, NEW b \in Bgs, NEW t \in ThreadsOf(ProcessOf(b)), BgAppConnect(b, t)
  PROVE  IInv'
<1>1. /\ bg[b].stage = "run" /\ net[App(t)][b] # << >> /\ Head(net[App(t)][b]).type = "AppConnect"
      /\ bg' = [bg EXCEPT ![b].apps = @ + 1] /\ net' = Received(App(t), b)
      /\ UNCHANGED <<nameNode, connected, creating, server, tables, thread, clocks>>
  BY DEF BgAppConnect, Incoming
<1>2. App(t) \in Entities /\ b \in Receivers(App(t)) /\ App(t) # b /\ App(t) \notin Daemons
      /\ \A u \in ThreadsOf(ProcessOf(b)) : App(u) \in Entities /\ b \in Receivers(App(u))
      /\ \A v \in ThreadsOf(ProcessOf(b)) \ {t} : App(v) # App(t)
  BY <1>1, Hears
<1>3. /\ IsNet(net') /\ net'[App(t)][b] = Tail(net[App(t)][b])
      /\ \A x \in Entities : \A y \in Receivers(x) : x # App(t) \/ y # b => net'[x][y] = net[x][y]
  BY <1>1, <1>2, BgReceives
<1>4. /\ bg' \in [Bgs -> [stage : BgStages, started : Nat, apps : Nat, gone : Nat, acks : Nat]]
      /\ \A d \in Bgs \ {b} : bg'[d] = bg[d]
      /\ bg'[b].apps = bg[b].apps + 1 /\ bg'[b].stage = bg[b].stage /\ bg'[b].started = bg[b].started
      /\ bg'[b].gone = bg[b].gone /\ bg'[b].acks = bg[b].acks
  <2> DEFINE x == [bg[b] EXCEPT !.apps = @ + 1]
  <2>1. bg[b] \in [stage : BgStages, started : Nat, apps : Nat, gone : Nat, acks : Nat]
    BY DEF IInv, ShapeInv
  <2>2. /\ x \in [stage : BgStages, started : Nat, apps : Nat, gone : Nat, acks : Nat]
        /\ x.apps = bg[b].apps + 1 /\ x.stage = bg[b].stage /\ x.started = bg[b].started
        /\ x.gone = bg[b].gone /\ x.acks = bg[b].acks
    BY <2>1
  <2>3. bg' = [bg EXCEPT ![b] = x]
    BY <1>1
  <2> HIDE DEF x
  <2> QED  BY <2>2, <2>3, WorkerChanges
<1>5. BgStep(b)
  BY <1>1, <1>3, <1>4 DEF BgStep, IInv, ShapeInv
<1>6. WithProcess(b)'
  BY <1>1, <1>4, StageStays
<1>7. SameWithNameNode(b) /\ SameWithServers(b) /\ SameServersOf(b) /\ SameTablesOf(b)
  <2>1. NameNode # App(t) /\ \A s \in OnChannel(Servers, b) : s # App(t)
    BY <1>2, Channels1, EntitiesAre
  <2>2. b # App(t)
    BY <1>2
  <2> QED  BY <1>1, <1>3, <2>1, <2>2, Channels1 DEF SameWithNameNode, SameWithServers, SameServersOf, SameTablesOf
<1>8. WorkerOK(b)
  BY Parts
<1>9. NameNodeOK(b)' /\ ServersOK(b)' /\ CountsOK(b)'
  BY <1>1, <1>4, <1>7, <1>8, NameNodeOKStays, ServersOKStays, CountsOKStay DEF WorkerOK, SameWithNameNode
<1>10. ThreadsOK(b)'
  <2>1. IsHead(b) => net'[b][App(InitOf(b))] = net[b][App(InitOf(b))]
    <3> SUFFICES ASSUME IsHead(b) PROVE net'[b][App(InitOf(b))] = net[b][App(InitOf(b))]
      OBVIOUS
    <3>1. b = HeadBg(ProcessOf(b)) /\ ProcessOf(b) \in Clients
      BY Workers DEF IsHead
    <3>2. b \in Entities /\ App(InitOf(b)) \in Receivers(b)
      BY <3>1, Channels2
    <3> QED  BY <1>2, <1>3, <3>2
  <2>2. \A u \in ThreadsOf(ProcessOf(b)) \ {t} : net'[App(u)][b] = net[App(u)][b]
    BY <1>2, <1>3
  <2>3. /\ bg'[b].apps = bg[b].apps + (IF Head(net[App(t)][b]).type = "AppConnect" THEN 1 ELSE 0)
        /\ bg'[b].gone = bg[b].gone + (IF Head(net[App(t)][b]).type = "AppThreadDereg" THEN 1 ELSE 0)
    BY <1>1, <1>4, WorkerTypes DEF IInv
  <2> QED  BY <1>1, <1>3, <1>4, <2>1, <2>2, <2>3, HeardNext
<1>11. WorkerOK(b)'
  BY <1>9, <1>10 DEF WorkerOK
<1>12. /\ Down(b)' <=> Down(b)
       /\ b \in connected[NameNode] \/ net'[b][NameNode] = net[b][NameNode]
       /\ (Down(b) /\ net[b][NameNode] = << >>)' <=> Down(b) /\ net[b][NameNode] = << >>
       /\ \A s \in OnChannel(Servers, b) : (Down(b) /\ net[b][s] = << >>)' <=> Down(b) /\ net[b][s] = << >>
  BY <1>4, <1>7 DEF Down, SameWithNameNode, SameWithServers
<1>13. /\ \A tb \in Tables : QueuedFor(b, tb) => QueuedFor(b, tb)'
       /\ IsHead(b) => \A tb \in Tables : Answered(ProcessOf(b), tb)' <=> Answered(ProcessOf(b), tb)
  <2>1. IsHead(b) => b = HeadBg(ProcessOf(b))
    BY Workers DEF IsHead
  <2> QED  BY <1>1, <1>7, <2>1 DEF QueuedFor, Answered, SameWithNameNode
<1> QED  BY <1>5, <1>6, <1>11, <1>12, <1>13, BgStepKeeps

\* What a running worker sends to a server.
LEMMA SendsToServer ==
  ASSUME IInv, NEW b \in Bgs, NEW s \in OnChannel(Servers, b), bg[b].stage = "run", ~Down(b),
         NEW m \in {Msg("ClientSendOpLog"), Msg("ClientShutDown")}, m = Msg("ClientShutDown") <=> Down(b)',
         net'[b][s] = Append(net[b][s], m), bg'[b].stage = "run", connected' = connected
  PROVE  ToServer(b, s)' /\ net'[b][s] # << >>
<1> DEFINE q == net[b][s]
           a == Append(q, m)
<1>1. /\ b \in connected[s] /\ ToServer(b, s) /\ q \in Seq(Message)
  <2>1. bg[b].stage \notin {"connect", "handshake"}
    OBVIOUS
  <2>2. b \in connected[s]
    BY <2>1, AllStarted
  <2>3. WorkerOK(b) /\ b \in Entities /\ s \in Receivers(b)
    BY Parts, Channels1
  <2> QED  BY <2>2, <2>3, WorkerTypes DEF WorkerOK, ServersOK, IInv
<1>2. m \in Message
  BY Messages
<1>3. /\ Len(q) \in Nat /\ DOMAIN q = 1 .. Len(q)
      /\ a # << >> /\ Len(a) = Len(q) + 1 /\ DOMAIN a = 1 .. Len(q) + 1
      /\ (\A i \in 1 .. Len(q) : a[i] = q[i]) /\ a[Len(q) + 1] = m
  BY <1>1, <1>2, Appended
<1>4. \A i \in 1 .. Len(q) : q[i] = Msg("ClientSendOpLog")
  BY <1>1, <1>3 DEF ToServer
<1>5. net'[b][s] = a
  OBVIOUS
<1>6. m = Msg("ClientSendOpLog") \/ (m = Msg("ClientShutDown") /\ Down(b)')
  OBVIOUS
<1>7. Down(b)' => m = Msg("ClientShutDown")
  OBVIOUS
<1> HIDE DEF a, q
<1>8. \A i \in DOMAIN a : \/ a[i] = Msg("ClientSendOpLog")
                          \/ a[i] = Msg("ClientShutDown") /\ Down(b)' /\ i = Len(a)
  BY <1>3, <1>4, <1>6
<1>9. Down(b)' => a[Len(a)] = Msg("ClientShutDown")
  BY <1>3, <1>7
<1> QED  BY <1>1, <1>3, <1>5, <1>8, <1>9 DEF ToServer, Runs

\* kBgClock.
LEMMA BgClockKeeps ==
  ASSUME IInv, NEW b \in Bgs, NEW t \in ThreadsOf(ProcessOf(b)), BgClock(b, t)
  PROVE  IInv'
<1> DEFINE m == Msg("ClientSendOpLog")
           R == OnChannel(Servers, b)
<1>1. /\ bg[b].stage = "run" /\ net[App(t)][b] # << >> /\ Head(net[App(t)][b]).type = "BgClock"
      /\ net' = Sent(Received(App(t), b), b, R, m)
      /\ UNCHANGED <<nameNode, connected, creating, server, bg, tables, thread, clocks>>
  BY DEF BgClock, Incoming
<1>2. App(t) \in Entities /\ b \in Receivers(App(t)) /\ App(t) # b /\ App(t) \notin Daemons
      /\ \A u \in ThreadsOf(ProcessOf(b)) : App(u) \in Entities /\ b \in Receivers(App(u))
      /\ \A v \in ThreadsOf(ProcessOf(b)) \ {t} : App(v) # App(t)
  BY <1>1, Hears
<1>3. /\ IsNet(net') /\ net'[App(t)][b] = Tail(net[App(t)][b])
      /\ \A x \in Entities : \A y \in Receivers(x) : x # b /\ (x # App(t) \/ y # b) => net'[x][y] = net[x][y]
      /\ \A y \in Receivers(b) : net'[b][y] = IF y \in R THEN Append(net[b][y], m) ELSE net[b][y]
  <2>1. m \in Message
    BY Messages
  <2> HIDE DEF m, R
  <2> QED  BY <1>1, <1>2, <2>1, BgAnswers
<1>4. BgStep(b)
  <2>1. \A x \in Entities : \A y \in Receivers(x) : x # b /\ y # b => net'[x][y] = net[x][y]
    BY <1>3
  <2> QED  BY <1>1, <1>3, <2>1 DEF BgStep, IInv, ShapeInv
<1>5. WithProcess(b)'
  BY <1>1, StageStays
<1>6. SameWithNameNode(b) /\ \A s \in R : net'[s][b] = net[s][b] /\ net'[b][s] = Append(net[b][s], m)
  <2>1. NameNode # App(t) /\ \A s \in R : s # App(t)
    BY <1>2, Channels1, EntitiesAre
  <2>2. NameNode \notin R /\ b # NameNode /\ b \notin R
    BY Channels1, Kinds
  <2> HIDE DEF m
  <2> QED  BY <1>3, <2>1, <2>2, Channels1 DEF SameWithNameNode
<1>7. WorkerOK(b) /\ ~Down(b) /\ ~Down(b)' /\ SameServersOf(b) /\ SameTablesOf(b)
  BY <1>1, Parts, NotDown DEF Down, SameServersOf, SameTablesOf
<1>8. NameNodeOK(b)'
  BY <1>1, <1>6, <1>7, NameNodeOKStays DEF WorkerOK
<1>9. ASSUME NEW s \in OnChannel(Servers, b) PROVE (ToServer(b, s) /\ FromServer(s, b))'
  <2>1. ToServer(b, s)'
    <3>1. m \in {Msg("ClientSendOpLog"), Msg("ClientShutDown")} /\ (m = Msg("ClientShutDown") <=> Down(b)')
      BY <1>7, Messages
    <3>2. net'[b][s] = Append(net[b][s], m)
      BY <1>6
    <3> HIDE DEF m
    <3> QED  BY <1>1, <1>7, <3>1, <3>2, SendsToServer
  <2>2. FromServer(s, b)'
    BY <1>1, <1>6, <1>7, FromServerStays, Channels1 DEF WorkerOK, ServersOK
  <2> QED  BY <2>1, <2>2
<1>10. CountsOK(b)'
  <2>1. \A e \in Peers(b) : net'[e][b] = net[e][b] /\ (Exited(e)' <=> Exited(e))
    BY <1>1, <1>6 DEF Peers, Exited, SameWithNameNode
  <2>2. StartsAt(b)' = StartsAt(b)
    BY <1>1, <2>1 DEF StartsAt
  <2>3. AcksAt(b)' = AcksAt(b)
    BY <2>1 DEF AcksAt
  <2> QED  BY <1>1, <1>7, <2>2, <2>3 DEF WorkerOK, CountsOK
<1>11. ThreadsOK(b)'
  <2>1. IsHead(b) => net'[b][App(InitOf(b))] = net[b][App(InitOf(b))]
    <3> SUFFICES ASSUME IsHead(b) PROVE net'[b][App(InitOf(b))] = net[b][App(InitOf(b))]
      OBVIOUS
    <3>1. b = HeadBg(ProcessOf(b)) /\ ProcessOf(b) \in Clients
      BY Workers DEF IsHead
    <3>2. App(InitOf(b)) \in Receivers(b)
      BY <3>1, Channels2
    <3>3. App(InitOf(b)) \notin R
      BY Channels1, Channels2, Kinds
    <3> QED  BY <1>3, <3>2, <3>3
  <2>2. \A u \in ThreadsOf(ProcessOf(b)) \ {t} : net'[App(u)][b] = net[App(u)][b]
    BY <1>2, <1>3, Channels2, Kinds
  <2>3. /\ bg'[b].apps = bg[b].apps + (IF Head(net[App(t)][b]).type = "AppConnect" THEN 1 ELSE 0)
        /\ bg'[b].gone = bg[b].gone + (IF Head(net[App(t)][b]).type = "AppThreadDereg" THEN 1 ELSE 0)
        /\ bg'[b].stage = "run"
    BY <1>1, WorkerTypes DEF IInv
  <2> QED  BY <1>1, <1>3, <2>1, <2>2, <2>3, HeardNext
<1>12. WorkerOK(b)'
  BY <1>8, <1>9, <1>10, <1>11 DEF WorkerOK, ServersOK
<1>13. /\ b \in connected[NameNode] \/ net'[b][NameNode] = net[b][NameNode]
       /\ (Down(b) /\ net[b][NameNode] = << >>)' <=> Down(b) /\ net[b][NameNode] = << >>
       /\ \A s \in OnChannel(Servers, b) : (Down(b) /\ net[b][s] = << >>)' <=> Down(b) /\ net[b][s] = << >>
  BY <1>6, <1>7 DEF SameWithNameNode
<1>14. /\ \A tb \in Tables : QueuedFor(b, tb) => QueuedFor(b, tb)'
       /\ IsHead(b) => \A tb \in Tables : Answered(ProcessOf(b), tb)' <=> Answered(ProcessOf(b), tb)
  <2>1. IsHead(b) => b = HeadBg(ProcessOf(b))
    BY Workers DEF IsHead
  <2> QED  BY <1>1, <1>6, <2>1 DEF QueuedFor, Answered, SameWithNameNode
<1> QED  BY <1>4, <1>5, <1>12, <1>13, <1>14, BgStepKeeps

\* kAppThreadDereg.
LEMMA BgAppThreadDeregKeeps ==
  ASSUME IInv, NEW b \in Bgs, NEW t \in ThreadsOf(ProcessOf(b)), BgAppThreadDereg(b, t)
  PROVE  IInv'
<1> DEFINE m == Msg("ClientShutDown")
           R == {NameNode} \cup OnChannel(Servers, b)
           last == bg[b].gone + 1 = Cardinality(ThreadsOf(ProcessOf(b)))
<1>1. /\ bg[b].stage = "run" /\ net[App(t)][b] # << >> /\ Head(net[App(t)][b]).type = "AppThreadDereg"
      /\ bg' = [bg EXCEPT ![b].gone = bg[b].gone + 1]
      /\ net' = IF last THEN Sent(Received(App(t), b), b, R, m) ELSE Received(App(t), b)
      /\ UNCHANGED <<nameNode, connected, creating, server, tables, thread, clocks>>
  BY DEF BgAppThreadDereg, Incoming
<1>2. App(t) \in Entities /\ b \in Receivers(App(t)) /\ App(t) # b /\ App(t) \notin Daemons
      /\ \A u \in ThreadsOf(ProcessOf(b)) : App(u) \in Entities /\ b \in Receivers(App(u))
      /\ \A v \in ThreadsOf(ProcessOf(b)) \ {t} : App(v) # App(t)
  BY <1>1, Hears
<1>3. /\ IsNet(net') /\ net'[App(t)][b] = Tail(net[App(t)][b])
      /\ \A x \in Entities : \A y \in Receivers(x) : x # b /\ (x # App(t) \/ y # b) => net'[x][y] = net[x][y]
      /\ \A y \in Receivers(b) : net'[b][y] = IF last /\ y \in R THEN Append(net[b][y], m) ELSE net[b][y]
  <2>1. m \in Message /\ b \in Entities
    BY Messages, EntitiesAre
  <2> HIDE DEF m, R, last
  <2>2. CASE last
    <3>1. net' = Sent(Received(App(t), b), b, R, m)
      BY <1>1, <2>2
    <3> QED  BY <1>1, <1>2, <2>1, <2>2, <3>1, BgAnswers
  <2>3. CASE ~last
    <3>1. net' = Received(App(t), b)
      BY <1>1, <2>3
    <3>2. /\ IsNet(net') /\ net'[App(t)][b] = Tail(net[App(t)][b])
          /\ \A x \in Entities : \A y \in Receivers(x) : x # App(t) \/ y # b => net'[x][y] = net[x][y]
      BY <1>1, <1>2, <3>1, BgReceives
    <3> QED  BY <1>2, <2>1, <2>3, <3>2
  <2> QED  BY <2>2, <2>3
<1>4. /\ bg' \in [Bgs -> [stage : BgStages, started : Nat, apps : Nat, gone : Nat, acks : Nat]]
      /\ \A d \in Bgs \ {b} : bg'[d] = bg[d]
      /\ bg'[b].gone = bg[b].gone + 1 /\ bg'[b].stage = bg[b].stage /\ bg'[b].started = bg[b].started
      /\ bg'[b].apps = bg[b].apps /\ bg'[b].acks = bg[b].acks
  <2> DEFINE x == [bg[b] EXCEPT !.gone = bg[b].gone + 1]
  <2>1. bg[b] \in [stage : BgStages, started : Nat, apps : Nat, gone : Nat, acks : Nat]
    BY DEF IInv, ShapeInv
  <2>2. /\ x \in [stage : BgStages, started : Nat, apps : Nat, gone : Nat, acks : Nat]
        /\ x.gone = bg[b].gone + 1 /\ x.stage = bg[b].stage /\ x.started = bg[b].started
        /\ x.apps = bg[b].apps /\ x.acks = bg[b].acks
    BY <2>1
  <2>3. bg' = [bg EXCEPT ![b] = x]
    BY <1>1
  <2> HIDE DEF x
  <2> QED  BY <2>2, <2>3, WorkerChanges
<1>5. BgStep(b)
  <2>1. \A x \in Entities : \A y \in Receivers(x) : x # b /\ y # b => net'[x][y] = net[x][y]
    BY <1>3
  <2> QED  BY <1>1, <1>3, <1>4, <2>1 DEF BgStep, IInv, ShapeInv
<1>6. WithProcess(b)'
  BY <1>1, <1>4, StageStays
<1>7. /\ WorkerOK(b) /\ ~Down(b) /\ (Down(b)' <=> last) /\ SameServersOf(b) /\ SameTablesOf(b)
  BY <1>1, <1>4, Parts, NotDown DEF Down, SameServersOf, SameTablesOf
<1>8. /\ net'[NameNode][b] = net[NameNode][b]
      /\ net'[b][NameNode] = IF last THEN Append(net[b][NameNode], m) ELSE net[b][NameNode]
      /\ \A s \in OnChannel(Servers, b) :
           net'[s][b] = net[s][b] /\ net'[b][s] = IF last THEN Append(net[b][s], m) ELSE net[b][s]
  <2>1. NameNode # App(t) /\ \A s \in OnChannel(Servers, b) : s # App(t)
    BY <1>2, Channels1, EntitiesAre
  <2>2. b # NameNode /\ b \notin OnChannel(Servers, b)
    BY Channels1, Kinds
  <2> HIDE DEF m, last
  <2> QED  BY <1>3, <2>1, <2>2, Channels1
<1>9. net[b][NameNode] = << >> /\ b \in connected[NameNode] /\ (last => net'[b][NameNode] = << m >>)
  <2>1. b \in connected[NameNode]
    BY <1>1, AllConnected
  <2>2. net[b][NameNode] = << >>
    BY <1>1, <1>7, <2>1 DEF WorkerOK, NameNodeOK, ToNameNode
  <2>3. Append(<< >>, m) = << m >>
    <3> HIDE DEF m
    <3> QED  BY OneMessage
  <2> QED  BY <1>8, <2>1, <2>2, <2>3
<1>10. NameNodeOK(b)'
  <2>1. FromNameNode(b)'
    BY <1>1, <1>4, <1>7, <1>8 DEF WorkerOK, NameNodeOK, FromNameNode, Runs, AllCreated, HaveCreatedAllTables
  <2>2. ToNameNode(b)'
    BY <1>1, <1>4, <1>7, <1>8, <1>9 DEF ToNameNode
  <2> QED  BY <2>1, <2>2 DEF NameNodeOK
<1>11. ASSUME NEW s \in OnChannel(Servers, b)
       PROVE  (ToServer(b, s) /\ FromServer(s, b))' /\ ~(Down(b) /\ net[b][s] = << >>)'
  <2>1. FromServer(s, b)'
    BY <1>1, <1>4, <1>7, <1>8, FromServerStays, Channels1 DEF WorkerOK, ServersOK
  <2>2. CASE last
    <3>1. m \in {Msg("ClientSendOpLog"), Msg("ClientShutDown")} /\ (m = Msg("ClientShutDown") <=> Down(b)')
      BY <1>7, <2>2
    <3>2. net'[b][s] = Append(net[b][s], m)
      BY <1>8, <2>2
    <3> HIDE DEF m, last
    <3>3. bg[b].stage = "run" /\ bg'[b].stage = "run" /\ ~Down(b) /\ connected' = connected
      BY <1>1, <1>4, <1>7
    <3>4. ToServer(b, s)' /\ net'[b][s] # << >>
      BY <3>1, <3>2, <3>3, SendsToServer
    <3> QED  BY <2>1, <3>4
  <2>3. CASE ~last
    <3>1. ToServer(b, s) /\ net'[b][s] = net[b][s]
      BY <1>7, <1>8, <2>3 DEF WorkerOK, ServersOK
    <3>2. ToServer(b, s)'
      BY <1>1, <1>4, <1>7, <2>3, <3>1 DEF ToServer
    <3> QED  BY <1>7, <2>1, <2>3, <3>2
  <2> QED  BY <2>2, <2>3
<1>12. CountsOK(b)'
  <2>1. \A e \in Peers(b) : net'[e][b] = net[e][b] /\ (Exited(e)' <=> Exited(e))
    BY <1>1, <1>8, Channels1, Kinds DEF Peers, Exited
  <2>2. StartsAt(b)' = StartsAt(b)
    BY <1>1, <1>4, <2>1 DEF StartsAt
  <2>3. AcksAt(b)' = AcksAt(b)
    BY <2>1 DEF AcksAt
  <2> QED  BY <1>1, <1>4, <1>7, <2>2, <2>3 DEF WorkerOK, CountsOK
<1>13. ThreadsOK(b)'
  <2>1. IsHead(b) => net'[b][App(InitOf(b))] = net[b][App(InitOf(b))]
    <3> SUFFICES ASSUME IsHead(b) PROVE net'[b][App(InitOf(b))] = net[b][App(InitOf(b))]
      OBVIOUS
    <3>1. b = HeadBg(ProcessOf(b)) /\ ProcessOf(b) \in Clients
      BY Workers DEF IsHead
    <3>2. App(InitOf(b)) \in Receivers(b)
      BY <3>1, Channels2
    <3>3. App(InitOf(b)) \notin R
      BY Channels1, Channels2, Kinds
    <3> QED  BY <1>3, <3>2, <3>3
  <2>2. \A u \in ThreadsOf(ProcessOf(b)) \ {t} : net'[App(u)][b] = net[App(u)][b]
    BY <1>2, <1>3, Channels2, Kinds
  <2>3. /\ bg'[b].apps = bg[b].apps + (IF Head(net[App(t)][b]).type = "AppConnect" THEN 1 ELSE 0)
        /\ bg'[b].gone = bg[b].gone + (IF Head(net[App(t)][b]).type = "AppThreadDereg" THEN 1 ELSE 0)
        /\ bg'[b].stage = "run"
    BY <1>1, <1>4, WorkerTypes DEF IInv
  <2> QED  BY <1>1, <1>3, <2>1, <2>2, <2>3, HeardNext
<1>14. WorkerOK(b)'
  BY <1>10, <1>11, <1>12, <1>13 DEF WorkerOK, ServersOK
<1>15. /\ (Down(b) /\ net[b][NameNode] = << >>)' <=> Down(b) /\ net[b][NameNode] = << >>
       /\ \A s \in OnChannel(Servers, b) : (Down(b) /\ net[b][s] = << >>)' <=> Down(b) /\ net[b][s] = << >>
  <2>1. ~(Down(b) /\ net[b][NameNode] = << >>)'
    BY <1>7, <1>9, OneMessage
  <2> QED  BY <1>7, <1>11, <2>1
<1>16. /\ \A tb \in Tables : QueuedFor(b, tb) => QueuedFor(b, tb)'
       /\ IsHead(b) => \A tb \in Tables : Answered(ProcessOf(b), tb)' <=> Answered(ProcessOf(b), tb)
  <2>1. IsHead(b) => b = HeadBg(ProcessOf(b))
    BY Workers DEF IsHead
  <2> QED  BY <1>1, <1>8, <2>1 DEF QueuedFor, Answered
<1> QED  BY <1>5, <1>6, <1>9, <1>14, <1>15, <1>16, BgStepKeeps

\* What the name node and the servers send to a running worker.
LEMMA RunningHears ==
  ASSUME IInv, NEW b \in Bgs, bg[b].stage = "run"
  PROVE  /\ \A e \in Peers(b) : net[e][b] # << >> => net[e][b] = << Msg("ServerShutDownAck") >> /\ Exited(e)
         /\ nameNode.stage # "init" /\ \A s \in OnChannel(Servers, b) : server[s].stage # "init" /\ b \in connected[s]
<1>1. WorkerOK(b)
  BY Parts
<1>2. bg[b].stage \notin {"connect", "handshake"}
  OBVIOUS
<1>3. nameNode.stage # "init" /\ \A s \in OnChannel(Servers, b) : server[s].stage # "init" /\ b \in connected[s]
  BY <1>2, AllStarted
<1>4. net[NameNode][b] # << >> => net[NameNode][b] = << Msg("ServerShutDownAck") >> /\ Exited(NameNode)
  BY <1>1 DEF WorkerOK, NameNodeOK, FromNameNode, Exited
<1>5. ASSUME NEW s \in OnChannel(Servers, b), net[s][b] # << >>
      PROVE  net[s][b] = << Msg("ServerShutDownAck") >> /\ Exited(s)
  <2>1. s \in Servers /\ s # NameNode
    BY Channels1, Kinds
  <2>2. FromServer(s, b) /\ server[s].stage \in {"run", "exited"}
    BY <1>1, <1>3, <2>1, WorkerTypes DEF WorkerOK, ServersOK, IInv
  <2> QED  BY <1>5, <2>1, <2>2 DEF FromServer, Exited
<1> QED  BY <1>3, <1>4, <1>5 DEF Peers

\* The threads of a worker that goes on to a later stage.
LEMMA ThreadsOfRunning ==
  ASSUME IInv, NEW b \in Bgs, bg[b].stage = "run", bg'[b].stage \in Runs, SameWithThreads(b),
         bg'[b].apps = bg[b].apps, bg'[b].gone = bg[b].gone, UNCHANGED <<thread, tables>>
  PROVE  ThreadsOK(b)'
<1>1. /\ ThreadsOK(b) /\ ProcessOf(b) \in Clients
      /\ \A t \in ThreadsOf(ProcessOf(b)) : t \in Threads /\ net'[App(t)][b] = net[App(t)][b]
  BY Parts, Workers, Channels2 DEF WorkerOK, SameWithThreads
<1>2. AppsAt(b)' = AppsAt(b) /\ GoneAt(b)' = GoneAt(b)
  BY <1>1 DEF AppsAt, GoneAt
<1>3. \A t \in ThreadsOf(ProcessOf(b)) : FromThread(t, b)'
  BY <1>1, FromThreadStays DEF ThreadsOK
<1>4. FromInit(b)'
  <2>1. thread'[InitOf(b)] # "register"
    BY InStep DEF Runs
  <2> QED  BY <2>1 DEF FromInit, InitOf, Runs, Starts
<1>5. b = HeadBg(ProcessOf(b)) => ToInit(ProcessOf(b))'
  <2> SUFFICES ASSUME b = HeadBg(ProcessOf(b)) PROVE ToInit(ProcessOf(b))'
    OBVIOUS
  <2>1. net[b][App(InitOf(b))] = << >> /\ InitOf(b) = InitThread[ProcessOf(b)]
    BY <1>1 DEF ThreadsOK, ToInit, InitOf
  <2>2. net'[HeadBg(ProcessOf(b))][App(InitThread[ProcessOf(b)])] = << >>
    BY <2>1 DEF SameWithThreads
  <2> QED  BY <2>2 DEF ToInit, Runs
<1> QED  BY <1>1, <1>2, <1>3, <1>4, <1>5 DEF ThreadsOK

\* kServerShutDownAck.
LEMMA BgShutDownAckKeeps ==
  ASSUME IInv, NEW b \in Bgs, NEW e \in {NameNode} \cup OnChannel(Servers, b), BgShutDownAck(b, e)
  PROVE  IInv'
<1> DEFINE next == IF bg[b].acks + 1 = Cardinality(Clients) + 1 THEN "exited" ELSE "run"
<1>1. /\ bg[b].stage = "run" /\ net[e][b] # << >> /\ net' = Received(e, b)
      /\ bg' = [bg EXCEPT ![b].acks = bg[b].acks + 1, ![b].stage = next]
      /\ UNCHANGED <<nameNode, connected, creating, server, tables, thread, clocks>>
  BY DEF BgShutDownAck, Incoming
<1>2. e \in Peers(b) /\ e \in Entities /\ b \in Receivers(e) /\ b \notin Peers(b)
  BY Channels1, EntitiesAre, Kinds DEF Peers
<1>3. /\ IsNet(net') /\ net'[e][b] = Tail(net[e][b])
      /\ \A x \in Entities : \A y \in Receivers(x) : x # e \/ y # b => net'[x][y] = net[x][y]
  BY <1>1, <1>2, BgReceives
<1>4. /\ bg' \in [Bgs -> [stage : BgStages, started : Nat, apps : Nat, gone : Nat, acks : Nat]]
      /\ \A d \in Bgs \ {b} : bg'[d] = bg[d]
      /\ bg'[b].acks = bg[b].acks + 1 /\ bg'[b].stage = next /\ bg'[b].started = bg[b].started
      /\ bg'[b].apps = bg[b].apps /\ bg'[b].gone = bg[b].gone
  <2> DEFINE x == [bg[b] EXCEPT !.acks = bg[b].acks + 1, !.stage = next]
  <2>1. bg[b] \in [stage : BgStages, started : Nat, apps : Nat, gone : Nat, acks : Nat]
    BY DEF IInv, ShapeInv
  <2>2. next \in BgStages
    BY DEF BgStages
  <2>3. bg' = [bg EXCEPT ![b] = x]
    BY <1>1
  <2> HIDE DEF next
  <2>4. /\ x \in [stage : BgStages, started : Nat, apps : Nat, gone : Nat, acks : Nat]
        /\ x.acks = bg[b].acks + 1 /\ x.stage = next /\ x.started = bg[b].started
        /\ x.apps = bg[b].apps /\ x.gone = bg[b].gone
    <3> DEFINE r == bg[b]
    <3>1. r \in [stage : BgStages, started : Nat, apps : Nat, gone : Nat, acks : Nat] /\ r.acks + 1 \in Nat
      BY <2>1
    <3>2. x = [r EXCEPT !.acks = r.acks + 1, !.stage = next]
      OBVIOUS
    <3> HIDE DEF r, x
    <3>3. x \in [stage : BgStages, started : Nat, apps : Nat, gone : Nat, acks : Nat]
      BY <2>2, <3>1, <3>2
    <3>4. x.acks = r.acks + 1 /\ x.stage = next /\ x.started = r.started /\ x.apps = r.apps /\ x.gone = r.gone
      BY <3>1, <3>2
    <3> QED  BY <3>3, <3>4 DEF r
  <2> HIDE DEF x
  <2> QED  BY <2>3, <2>4, WorkerChanges
<1>5. bg'[b].stage \in {"run", "exited"} /\ (bg'[b].stage = "exited" <=> bg'[b].acks = Cardinality(Clients) + 1)
  <2>1. next = "exited" <=> bg[b].acks + 1 = Cardinality(Clients) + 1
    OBVIOUS
  <2> QED  BY <1>4, <2>1
<1> HIDE DEF next
<1>6. BgStep(b)
  <2>1. \A x \in Entities : \A y \in Receivers(x) : x # b /\ y # b => net'[x][y] = net[x][y]
    BY <1>3
  <2> QED  BY <1>1, <1>3, <1>4, <2>1 DEF BgStep, IInv, ShapeInv
<1>7. WithProcess(b)'
  <2>1. WithInit(b) /\ (IsHead(b) => KnowsTables(ProcessOf(b)) /\ HeadBg(ProcessOf(b)) = b)
    BY Workers DEF IInv, StagesInv, IsHead
  <2>2. thread[InitOf(b)] \in {"run", "done"}
    BY <1>1, InStep DEF Runs
  <2> QED  BY <1>1, <1>5, <2>1, <2>2 DEF WithProcess, WithInit, KnowsTables, InitOf, IsHead, Runs
<1>8. WorkerOK(b)
  BY Parts
<1>9. /\ net[e][b] = << Msg("ServerShutDownAck") >> /\ Exited(e) /\ net'[e][b] = << >>
      /\ \A d \in Peers(b) \ {e} : net'[d][b] = net[d][b]
      /\ \A d \in Peers(b) : net'[b][d] = net[b][d] /\ (Exited(d)' <=> Exited(d))
  <2>1. net[e][b] = << Msg("ServerShutDownAck") >> /\ Exited(e)
    BY <1>1, <1>2, RunningHears
  <2>2. net'[e][b] = << >>
    BY <1>3, <2>1, OneMessage
  <2>3. /\ \A d \in Peers(b) : d \in Entities /\ b \in Receivers(d) /\ d \in Receivers(b) /\ d \notin Bgs
        /\ b \in Entities /\ b # e
    BY <1>2, Channels1, Kinds DEF Peers
  <2>4. \A d \in Peers(b) : Exited(d)' <=> Exited(d)
    <3>1. \A d \in Peers(b) : d = NameNode \/ d \in Servers
      BY Channels1 DEF Peers
    <3> QED  BY <1>1, <3>1 DEF Exited
  <2> QED  BY <1>3, <2>1, <2>2, <2>3, <2>4
<1>10. /\ AcksAt(b)' = AcksAt(b) \cup {e} /\ e \notin AcksAt(b)
       /\ bg'[b].acks = Cardinality(AcksAt(b)')
  <2>1. AcksAt(b)' = AcksAt(b) \cup {e}
    BY <1>2, <1>9 DEF AcksAt
  <2>2. e \notin AcksAt(b)
    BY <1>1 DEF AcksAt
  <2>3. AcksAt(b) \in SUBSET Peers(b) /\ IsFiniteSet(Peers(b))
    BY NumberOfPeers DEF AcksAt
  <2>4. Cardinality(AcksAt(b) \cup {e}) = Cardinality(AcksAt(b)) + 1
    BY <1>2, <2>2, <2>3, CountsAll
  <2> QED  BY <1>4, <1>8, <2>1, <2>2, <2>4 DEF WorkerOK, CountsOK
<1>11. bg'[b].stage = "exited" => \A d \in Peers(b) : Exited(d) /\ net'[d][b] = << >>
  <2>1. AcksAt(b)' \in SUBSET Peers(b)
    BY DEF AcksAt, Peers
  <2>2. bg'[b].stage = "exited" => AcksAt(b)' = Peers(b)
    BY <1>5, <1>10, <2>1, NumberOfPeers, CountsAll
  <2> QED  BY <1>9, <2>2 DEF AcksAt
<1>12. NameNode \in Peers(b) /\ \A s \in OnChannel(Servers, b) : s \in Peers(b) /\ s \in Servers /\ s # NameNode
  BY Channels1, Kinds DEF Peers
<1>13. NameNodeOK(b)'
  <2>1. net'[NameNode][b] = net[NameNode][b] \/ net'[NameNode][b] = << >>
    BY <1>9, <1>12
  <2>2. net'[b][NameNode] = net[b][NameNode]
    BY <1>9, <1>12
  <2>3. bg'[b].stage = "exited" => net'[b][NameNode] = << >> /\ net'[NameNode][b] = << >>
    BY <1>11, <1>12, <2>2, NameNodeGone DEF Exited
  <2>4. FromNameNode(b)'
    BY <1>1, <1>5, <1>8, <2>1, <2>3 DEF WorkerOK, NameNodeOK, FromNameNode, Runs, AllCreated, HaveCreatedAllTables
  <2>5. ToNameNode(b) => ToNameNode(b)'
    BY <1>1, <1>4, <1>5, <2>2, <2>3 DEF ToNameNode, Down
  <2> QED  BY <1>1, <1>8, <2>4, <2>5 DEF WorkerOK, NameNodeOK
<1>14. ASSUME NEW s \in OnChannel(Servers, b) PROVE (ToServer(b, s) /\ FromServer(s, b))'
  <2>1. /\ ToServer(b, s) /\ FromServer(s, b) /\ net'[b][s] = net[b][s] /\ s \in Servers
        /\ net'[s][b] = net[s][b] \/ net'[s][b] = << >>
        /\ server[s].stage # "init" /\ b \in connected[s]
    BY <1>1, <1>8, <1>9, <1>12, RunningHears DEF WorkerOK, ServersOK
  <2>2. bg'[b].stage = "exited" => server[s].stage = "exited" /\ net'[s][b] = << >>
    BY <1>11, <1>12 DEF Exited
  <2>3. ToServer(b, s)'
    BY <1>1, <1>4, <1>5, <2>1 DEF ToServer, Down, Runs
  <2>4. FromServer(s, b)'
    BY <1>1, <1>5, <2>1, <2>2 DEF FromServer
  <2> QED  BY <2>3, <2>4
<1>15. CountsOK(b)'
  <2>1. StartsAt(b)' = StartsAt(b)
    <3>1. << Msg("ServerShutDownAck") >> # << Msg("ClientStart") >> /\ << >> # << Msg("ClientStart") >>
      BY OneMessage, Messages
    <3>2. \A d \in Peers(b) : net'[d][b] # << Msg("ClientStart") >> <=> net[d][b] # << Msg("ClientStart") >>
      BY <1>9, <3>1
    <3> QED  BY <1>1, <1>5, <3>2 DEF StartsAt
  <2> QED  BY <1>1, <1>4, <1>5, <1>8, <1>10, <2>1 DEF WorkerOK, CountsOK
<1>16. ThreadsOK(b)'
  <2>1. SameWithThreads(b)
    <3>1. \A t \in ThreadsOf(ProcessOf(b)) : App(t) \in Entities /\ b \in Receivers(App(t)) /\ App(t) # e
      BY Channels1, Channels2, Kinds
    <3>2. b = HeadBg(ProcessOf(b)) => b \in Entities /\ App(InitOf(b)) \in Receivers(b) /\ App(InitOf(b)) # b
      BY Channels2, Workers, Kinds
    <3> QED  BY <1>3, <3>1, <3>2 DEF SameWithThreads
  <2> QED  BY <1>1, <1>4, <1>5, <2>1, ThreadsOfRunning DEF Runs
<1>17. WorkerOK(b)'
  BY <1>13, <1>14, <1>15, <1>16 DEF WorkerOK, ServersOK
<1>18. /\ (Down(b) /\ net[b][NameNode] = << >>)' <=> Down(b) /\ net[b][NameNode] = << >>
       /\ \A s \in OnChannel(Servers, b) : (Down(b) /\ net[b][s] = << >>)' <=> Down(b) /\ net[b][s] = << >>
       /\ net'[b][NameNode] = net[b][NameNode]
  BY <1>4, <1>9, <1>12 DEF Down
<1>19. /\ \A tb \in Tables : QueuedFor(b, tb) => QueuedFor(b, tb)'
       /\ IsHead(b) => \A tb \in Tables : Answered(ProcessOf(b), tb)' <=> Answered(ProcessOf(b), tb)
  <2>1. IsHead(b) => b = HeadBg(ProcessOf(b))
    BY Workers DEF IsHead
  <2>2. \A tb \in Tables : Holds(net'[NameNode][b], TableMsg("CreateTableReply", tb))
                             <=> Holds(net[NameNode][b], TableMsg("CreateTableReply", tb))
    <3>1. \A tb : ~Holds(<< Msg("ServerShutDownAck") >>, TableMsg("CreateTableReply", tb))
      BY OneMessage DEF Holds, Msg, TableMsg
    <3>2. \A tb : ~Holds(<< >>, TableMsg("CreateTableReply", tb))
      BY DEF Holds
    <3> QED  BY <1>9, <1>12, <3>1, <3>2
  <2> QED  BY <1>1, <2>1, <2>2 DEF QueuedFor, Answered
<1> QED  BY <1>6, <1>7, <1>17, <1>18, <1>19, BgStepKeeps

\* The threads of a worker that has not passed the first barrier.
LEMMA ThreadsOfStarting ==
  ASSUME IInv, NEW b \in Bgs, bg[b].stage \in Starts, bg'[b].stage \in Starts, SameWithThreads(b),
         bg'[b].apps = bg[b].apps, bg'[b].gone = bg[b].gone, UNCHANGED <<thread, tables>>
  PROVE  ThreadsOK(b)' /\ WithProcess(b)'
<1>1. /\ ThreadsOK(b) /\ ProcessOf(b) \in Clients /\ thread[InitOf(b)] = "start" /\ InitOf(b) \in ThreadsOf(ProcessOf(b))
      /\ \A t \in ThreadsOf(ProcessOf(b)) : t \in Threads /\ net'[App(t)][b] = net[App(t)][b]
  BY Parts, Workers, Channels2, InStep DEF WorkerOK, SameWithThreads
<1>2. AppsAt(b)' = AppsAt(b) /\ GoneAt(b)' = GoneAt(b)
  BY <1>1 DEF AppsAt, GoneAt
<1>3. \A t \in ThreadsOf(ProcessOf(b)) : FromThread(t, b)'
  BY <1>1, FromThreadStays DEF ThreadsOK
<1>4. FromInit(b)'
  BY <1>1 DEF ThreadsOK, FromInit, InitOf, Starts
<1>5. b = HeadBg(ProcessOf(b)) => ToInit(ProcessOf(b))'
  <2> SUFFICES ASSUME b = HeadBg(ProcessOf(b)) PROVE ToInit(ProcessOf(b))'
    OBVIOUS
  <2>1. net[b][App(InitOf(b))] = << >> /\ InitOf(b) = InitThread[ProcessOf(b)]
    BY <1>1 DEF ThreadsOK, ToInit, InitOf
  <2>2. net'[HeadBg(ProcessOf(b))][App(InitThread[ProcessOf(b)])] = << >>
    BY <2>1 DEF SameWithThreads
  <2> QED  BY <2>2 DEF ToInit, Starts
<1>6. ThreadsOK(b)'
  BY <1>1, <1>2, <1>3, <1>4, <1>5 DEF ThreadsOK
<1>7. WithProcess(b)'
  <2>1. WithInit(b) /\ (IsHead(b) => KnowsTables(ProcessOf(b)) /\ HeadBg(ProcessOf(b)) = b)
    BY Workers DEF IInv, StagesInv, IsHead
  <2> QED  BY <1>1, <2>1 DEF WithProcess, WithInit, KnowsTables, InitOf, IsHead, Starts, Runs
<1> QED  BY <1>6, <1>7

\* BgServerHandshake, when the name node says so.
LEMMA BgConnectServersKeeps ==
  ASSUME IInv, NEW b \in Bgs, BgConnectServers(b)
  PROVE  IInv'
<1> DEFINE m == Msg("ClientConnect")
           R == OnChannel(Servers, b)
<1>1. /\ bg[b].stage = "connect" /\ net[NameNode][b] # << >>
      /\ bg' = [bg EXCEPT ![b].stage = "handshake"]
      /\ net' = Sent(Received(NameNode, b), b, R, m)
      /\ UNCHANGED <<nameNode, connected, creating, server, tables, thread, clocks>>
  BY DEF BgConnectServers, Incoming
<1>2. NameNode \in Entities /\ b \in Receivers(NameNode) /\ NameNode # b
  BY Channels1, Kinds
<1>3. /\ IsNet(net') /\ net'[NameNode][b] = Tail(net[NameNode][b])
      /\ \A x \in Entities : \A y \in Receivers(x) : x # b /\ (x # NameNode \/ y # b) => net'[x][y] = net[x][y]
      /\ \A y \in Receivers(b) : net'[b][y] = IF y \in R THEN Append(net[b][y], m) ELSE net[b][y]
  <2>1. m \in Message
    BY Messages
  <2> HIDE DEF m, R
  <2> QED  BY <1>1, <1>2, <2>1, BgAnswers
<1>4. /\ bg' \in [Bgs -> [stage : BgStages, started : Nat, apps : Nat, gone : Nat, acks : Nat]]
      /\ \A d \in Bgs \ {b} : bg'[d] = bg[d]
      /\ bg'[b].acks = bg[b].acks /\ bg'[b].stage = "handshake" /\ bg'[b].started = bg[b].started
      /\ bg'[b].apps = bg[b].apps /\ bg'[b].gone = bg[b].gone
  <2> DEFINE x == [bg[b] EXCEPT !.stage = "handshake"]
  <2>1. bg[b] \in [stage : BgStages, started : Nat, apps : Nat, gone : Nat, acks : Nat] /\ "handshake" \in BgStages
    BY DEF IInv, ShapeInv, BgStages
  <2>2. /\ x \in [stage : BgStages, started : Nat, apps : Nat, gone : Nat, acks : Nat]
        /\ x.acks = bg[b].acks /\ x.stage = "handshake" /\ x.started = bg[b].started
        /\ x.apps = bg[b].apps /\ x.gone = bg[b].gone
    BY <2>1
  <2>3. bg' = [bg EXCEPT ![b] = x]
    BY <1>1
  <2> HIDE DEF x
  <2> QED  BY <2>2, <2>3, WorkerChanges
<1>5. BgStep(b)
  <2>1. \A x \in Entities : \A y \in Receivers(x) : x # b /\ y # b => net'[x][y] = net[x][y]
    BY <1>3
  <2> QED  BY <1>1, <1>3, <1>4, <2>1 DEF BgStep, IInv, ShapeInv
<1>6. WorkerOK(b)
  BY Parts
<1>7. /\ nameNode.stage # "init" /\ net[NameNode][b] = << Msg("ConnectServer"), Msg("ClientStart") >>
      /\ net'[NameNode][b] = << Msg("ClientStart") >>
  <2>1. nameNode.stage # "init" /\ net[NameNode][b] = << Msg("ConnectServer"), Msg("ClientStart") >>
    BY <1>1, <1>6 DEF WorkerOK, NameNodeOK, FromNameNode
  <2> QED  BY <1>3, <2>1, TwoMessages
<1>8. NameNode \notin R /\ b \notin R /\ net'[b][NameNode] = net[b][NameNode]
  BY <1>3, Channels1, Kinds
<1>9. ASSUME NEW s \in R
      PROVE  /\ net[b][s] = << >> /\ net'[b][s] = << m >> /\ net'[s][b] = net[s][b] /\ b \notin connected[s]
             /\ server[s].stage = "init" /\ s \in Servers /\ net[s][b] = << >>
  <2>1. /\ net[b][s] = << >> /\ b \notin connected[s] /\ s \in Servers /\ b \in OnChannel(Bgs, s)
    BY <1>1, <1>6, Channels1 DEF WorkerOK, ServersOK, ToServer
  <2>2. server[s].stage = "init"
    BY <2>1, AllConnected
  <2>3. net[s][b] = << >>
    BY <1>6, <2>2 DEF WorkerOK, ServersOK, FromServer
  <2>4. net'[b][s] = Append(<< >>, m)
    <3> HIDE DEF m
    <3> QED  BY <1>3, <2>1, Channels1
  <2>5. net'[b][s] = << m >>
    <3> HIDE DEF m
    <3> QED  BY <2>4, OneMessage
  <2>6. net'[s][b] = net[s][b]
    BY <1>3, <1>8, <2>1, Channels1, Kinds
  <2> QED  BY <2>1, <2>2, <2>3, <2>5, <2>6
<1>10. NameNodeOK(b)'
  BY <1>1, <1>4, <1>6, <1>7, <1>8 DEF WorkerOK, NameNodeOK, FromNameNode, ToNameNode, Runs
<1>11. ServersOK(b)'
  BY <1>1, <1>4, <1>9, OneMessage DEF ServersOK, ToServer, FromServer
<1>12. CountsOK(b)'
  <2>1. StartsAt(b) = {} /\ StartsAt(b)' = {}
    <3>1. NameNode \notin StartsAt(b) /\ NameNode \notin StartsAt(b)'
      BY <1>1, <1>7 DEF StartsAt
    <3>2. \A s \in R : s # NameNode /\ s \notin StartsAt(b) /\ s \notin StartsAt(b)'
      BY <1>1, <1>8, <1>9 DEF StartsAt
    <3> QED  BY <3>1, <3>2 DEF StartsAt, Peers
  <2>2. AcksAt(b) = {} /\ AcksAt(b)' = {}
    <3>1. NameNode \notin AcksAt(b) /\ NameNode \notin AcksAt(b)'
      BY <1>7, OneMessage, TwoMessages DEF AcksAt
    <3>2. \A s \in R : s # NameNode /\ s \notin AcksAt(b) /\ s \notin AcksAt(b)'
      BY <1>1, <1>8, <1>9 DEF AcksAt, Exited
    <3> QED  BY <3>1, <3>2 DEF AcksAt, Peers
  <2> QED  BY <1>1, <1>4, <1>6, <2>1, <2>2 DEF WorkerOK, CountsOK
<1>13. ThreadsOK(b)' /\ WithProcess(b)'
  <2>1. SameWithThreads(b)
    <3>1. \A t \in ThreadsOf(ProcessOf(b)) : App(t) \in Entities /\ b \in Receivers(App(t)) /\ App(t) # NameNode /\ App(t) # b
      BY Channels1, Channels2, Kinds
    <3>2. b = HeadBg(ProcessOf(b)) => App(InitOf(b)) \in Receivers(b) /\ App(InitOf(b)) \notin R
      BY Channels1, Channels2, Workers, Kinds
    <3> QED  BY <1>3, <3>1, <3>2 DEF SameWithThreads
  <2> QED  BY <1>1, <1>4, <2>1, ThreadsOfStarting DEF Starts
<1>14. WorkerOK(b)'
  BY <1>10, <1>11, <1>12, <1>13 DEF WorkerOK
<1>15. ~Down(b) /\ ~Down(b)'
  BY <1>1, <1>4, NotDown DEF Runs, Down
<1>16. /\ \A tb \in Tables : QueuedFor(b, tb) => QueuedFor(b, tb)'
       /\ IsHead(b) => \A tb \in Tables : Answered(ProcessOf(b), tb)' <=> Answered(ProcessOf(b), tb)
  <2>1. IsHead(b) => b = HeadBg(ProcessOf(b))
    BY Workers DEF IsHead
  <2>2. \A tb : ~Holds(net'[NameNode][b], TableMsg("CreateTableReply", tb))
    BY <1>7, OneMessage DEF Holds, Msg, TableMsg
  <2>3. \A tb : ~Holds(net[NameNode][b], TableMsg("CreateTableReply", tb))
    BY <1>7, TwoMessages DEF Holds, Msg, TableMsg
  <2> QED  BY <1>1, <2>1, <2>2, <2>3 DEF QueuedFor, Answered
<1> QED  BY <1>5, <1>8, <1>13, <1>14, <1>15, <1>16, BgStepKeeps

\* BgServerHandshake, when the name node or a server permits to start.
LEMMA BgClientStartKeeps ==
  ASSUME IInv, NEW b \in Bgs, NEW e \in {NameNode} \cup OnChannel(Servers, b), BgClientStart(b, e)
  PROVE  IInv'
<1> DEFINE next == IF bg[b].started + 1 = Cardinality(Clients) + 1 THEN "init barrier" ELSE "handshake"
<1>1. /\ bg[b].stage = "handshake" /\ net[e][b] # << >> /\ net' = Received(e, b)
      /\ Head(net[e][b]).type = "ClientStart"
      /\ bg' = [bg EXCEPT ![b].started = bg[b].started + 1, ![b].stage = next]
      /\ UNCHANGED <<nameNode, connected, creating, server, tables, thread, clocks>>
  BY DEF BgClientStart, Incoming
<1>2. e \in Peers(b) /\ e \in Entities /\ b \in Receivers(e) /\ b \notin Peers(b)
  BY Channels1, EntitiesAre, Kinds DEF Peers
<1>3. /\ IsNet(net') /\ net'[e][b] = Tail(net[e][b])
      /\ \A x \in Entities : \A y \in Receivers(x) : x # e \/ y # b => net'[x][y] = net[x][y]
  BY <1>1, <1>2, BgReceives
<1>4. /\ bg' \in [Bgs -> [stage : BgStages, started : Nat, apps : Nat, gone : Nat, acks : Nat]]
      /\ \A d \in Bgs \ {b} : bg'[d] = bg[d]
      /\ bg'[b].started = bg[b].started + 1 /\ bg'[b].stage = next /\ bg'[b].acks = bg[b].acks
      /\ bg'[b].apps = bg[b].apps /\ bg'[b].gone = bg[b].gone
  <2> DEFINE x == [bg[b] EXCEPT !.started = bg[b].started + 1, !.stage = next]
  <2>1. bg[b] \in [stage : BgStages, started : Nat, apps : Nat, gone : Nat, acks : Nat]
    BY DEF IInv, ShapeInv
  <2>2. next \in BgStages
    BY DEF BgStages
  <2>3. bg' = [bg EXCEPT ![b] = x]
    BY <1>1
  <2> HIDE DEF next
  <2>4. /\ x \in [stage : BgStages, started : Nat, apps : Nat, gone : Nat, acks : Nat]
        /\ x.started = bg[b].started + 1 /\ x.stage = next /\ x.acks = bg[b].acks
        /\ x.apps = bg[b].apps /\ x.gone = bg[b].gone
    <3> DEFINE r == bg[b]
    <3>1. r \in [stage : BgStages, started : Nat, apps : Nat, gone : Nat, acks : Nat] /\ r.started + 1 \in Nat
      BY <2>1
    <3>2. x = [r EXCEPT !.started = r.started + 1, !.stage = next]
      OBVIOUS
    <3> HIDE DEF r, x
    <3>3. x \in [stage : BgStages, started : Nat, apps : Nat, gone : Nat, acks : Nat]
      BY <2>2, <3>1, <3>2
    <3>4. x.started = r.started + 1 /\ x.stage = next /\ x.acks = r.acks /\ x.apps = r.apps /\ x.gone = r.gone
      BY <3>1, <3>2
    <3> QED  BY <3>3, <3>4 DEF r
  <2> HIDE DEF x
  <2> QED  BY <2>3, <2>4, WorkerChanges
<1>5. /\ bg'[b].stage \in {"handshake", "init barrier"}
      /\ bg'[b].stage = "init barrier" <=> bg'[b].started = Cardinality(Clients) + 1
  <2>1. next = "init barrier" <=> bg[b].started + 1 = Cardinality(Clients) + 1
    OBVIOUS
  <2> QED  BY <1>4, <2>1
<1> HIDE DEF next
<1>6. BgStep(b)
  <2>1. \A x \in Entities : \A y \in Receivers(x) : x # b /\ y # b => net'[x][y] = net[x][y]
    BY <1>3
  <2> QED  BY <1>1, <1>3, <1>4, <2>1 DEF BgStep, IInv, ShapeInv
<1>7. WorkerOK(b) /\ ~Down(b) /\ ~Down(b)'
  BY <1>1, <1>4, Parts, NotDown DEF Down, Runs
<1>8. NameNode \in Peers(b) /\ \A s \in OnChannel(Servers, b) : s \in Peers(b) /\ s \in Servers /\ s # NameNode
  BY Channels1, Kinds DEF Peers
<1>9. /\ net[e][b] = << Msg("ClientStart") >> /\ ~Exited(e) /\ net'[e][b] = << >>
      /\ e # NameNode => server[e].stage = "run"
      /\ \A d \in Peers(b) \ {e} : net'[d][b] = net[d][b]
      /\ \A d \in Peers(b) : net'[b][d] = net[b][d] /\ (Exited(d)' <=> Exited(d))
  <2>1. CASE e = NameNode
    <3>1. net[e][b] = << Msg("ClientStart") >>
      BY <1>1, <1>7, <2>1 DEF WorkerOK, NameNodeOK, FromNameNode
    <3>2. ~Exited(e)
      BY <1>7, <2>1, NameNodeGone DEF Exited
    <3> QED  BY <1>1, <1>2, <1>3, <1>8, <3>1, <3>2, <2>1, OneMessage, Channels1, EntitiesAre DEF Exited, Peers
  <2>2. CASE e # NameNode
    <3>1. e \in Servers /\ FromServer(e, b)
      BY <1>7, <2>2, Channels1 DEF WorkerOK, ServersOK
    <3>2. net[e][b] # << Msg("ServerShutDownAck") >>
      BY <1>1, OneMessage, Messages
    <3>3. server[e].stage = "run" /\ net[e][b] = << Msg("ClientStart") >>
      BY <1>1, <3>1, <3>2, WorkerTypes DEF FromServer, IInv
    <3>4. ~Exited(e)
      BY <2>2, <3>1, <3>3 DEF Exited
    <3> QED  BY <1>1, <1>2, <1>3, <1>8, <3>3, <3>4, OneMessage, Channels1, EntitiesAre DEF Exited, Peers
  <2> QED  BY <2>1, <2>2
<1>10. /\ StartsAt(b)' = StartsAt(b) \cup {e} /\ e \notin StartsAt(b)
       /\ bg'[b].started = Cardinality(StartsAt(b)')
  <2>1. << >> # << Msg("ClientStart") >>
    BY OneMessage
  <2>2. StartsAt(b)' = StartsAt(b) \cup {e}
    BY <1>1, <1>2, <1>5, <1>9, <2>1 DEF StartsAt
  <2>3. e \notin StartsAt(b)
    BY <1>9 DEF StartsAt
  <2>4. StartsAt(b) \in SUBSET Peers(b) /\ IsFiniteSet(Peers(b))
    BY NumberOfPeers DEF StartsAt
  <2>5. Cardinality(StartsAt(b) \cup {e}) = Cardinality(StartsAt(b)) + 1
    BY <1>2, <2>3, <2>4, CountsAll
  <2> QED  BY <1>4, <1>7, <2>2, <2>3, <2>5 DEF WorkerOK, CountsOK
<1>11. bg'[b].stage = "init barrier" =>
         /\ net'[NameNode][b] = << >>
         /\ \A s \in OnChannel(Servers, b) : server[s].stage # "init" /\ net'[s][b] # << Msg("ClientStart") >>
  <2>1. StartsAt(b)' \in SUBSET Peers(b)
    BY DEF StartsAt, Peers
  <2>2. bg'[b].stage = "init barrier" => StartsAt(b)' = Peers(b)
    <3> DEFINE S == StartsAt(b)'
    <3>1. S \in SUBSET Peers(b) /\ bg'[b].started = Cardinality(S)
      BY <1>10, <2>1
    <3>2. IsFiniteSet(Peers(b)) /\ Cardinality(Peers(b)) = Cardinality(Clients) + 1
      BY NumberOfPeers
    <3> HIDE DEF S
    <3>3. Cardinality(S) = Cardinality(Peers(b)) => S = Peers(b)
      BY <3>1, <3>2, CountsAll
    <3>4. bg'[b].stage = "init barrier" => Cardinality(S) = Cardinality(Peers(b))
      BY <1>5, <3>1, <3>2
    <3>5. bg'[b].stage = "init barrier" => S = Peers(b)
      BY <3>3, <3>4
    <3> QED  BY <3>5 DEF S
  <2>3. bg'[b].stage = "init barrier" => \A d \in Peers(b) : net'[d][b] # << Msg("ClientStart") >>
    BY <2>2 DEF StartsAt
  <2>4. net'[NameNode][b] \in {<< >>, << Msg("ClientStart") >>}
    BY <1>1, <1>7, <1>8, <1>9 DEF WorkerOK, NameNodeOK, FromNameNode
  <2>5. bg'[b].stage = "init barrier" => \A s \in OnChannel(Servers, b) : server'[s].stage # "init"
    BY <1>8, <2>2 DEF StartsAt
  <2> QED  BY <1>1, <1>8, <2>3, <2>4, <2>5
<1>12. NameNodeOK(b)'
  <2>1. net'[NameNode][b] \in {<< >>, << Msg("ClientStart") >>} /\ net'[b][NameNode] = net[b][NameNode]
    BY <1>1, <1>7, <1>8, <1>9 DEF WorkerOK, NameNodeOK, FromNameNode
  <2> QED  BY <1>1, <1>5, <1>7, <1>11, <2>1 DEF WorkerOK, NameNodeOK, FromNameNode, ToNameNode, Runs
<1>13. ASSUME NEW s \in OnChannel(Servers, b) PROVE (ToServer(b, s) /\ FromServer(s, b))'
  <2>1. /\ ToServer(b, s) /\ FromServer(s, b) /\ net'[b][s] = net[b][s] /\ s \in Servers
        /\ net'[s][b] = net[s][b] \/ (net'[s][b] = << >> /\ server[s].stage = "run")
        /\ b \in OnChannel(Bgs, s) /\ s # NameNode
    BY <1>7, <1>8, <1>9, Channels1 DEF WorkerOK, ServersOK
  <2>2. server[s].stage # "init" => b \in connected[s]
    BY <2>1, AllConnected
  <2>3. ToServer(b, s)'
    <3>1. CASE b \in connected[s]
      BY <1>1, <1>5, <1>7, <2>1, <3>1 DEF ToServer, Runs
    <3>2. CASE b \notin connected[s]
      <4>1. bg'[b].stage = "handshake"
        BY <1>5, <1>11, <2>2, <3>2
      <4> QED  BY <1>1, <2>1, <3>2, <4>1 DEF ToServer
    <3> QED  BY <3>1, <3>2
  <2>4. FromServer(s, b)'
    BY <1>1, <1>5, <1>11, <2>1 DEF FromServer
  <2> QED  BY <2>3, <2>4
<1>14. CountsOK(b)'
  <2>1. AcksAt(b)' = AcksAt(b)
    BY <1>2, <1>9 DEF AcksAt
  <2> QED  BY <1>1, <1>4, <1>5, <1>7, <1>10, <2>1 DEF WorkerOK, CountsOK
<1>15. ThreadsOK(b)' /\ WithProcess(b)'
  <2>1. SameWithThreads(b)
    <3>1. \A t \in ThreadsOf(ProcessOf(b)) : App(t) \in Entities /\ b \in Receivers(App(t)) /\ App(t) # e
      BY Channels1, Channels2, Kinds
    <3>2. b = HeadBg(ProcessOf(b)) => b \in Entities /\ App(InitOf(b)) \in Receivers(b) /\ App(InitOf(b)) # b
      BY Channels2, Workers, Kinds
    <3> QED  BY <1>3, <3>1, <3>2 DEF SameWithThreads
  <2> QED  BY <1>1, <1>4, <1>5, <2>1, ThreadsOfStarting DEF Starts
<1>16. WorkerOK(b)'
  BY <1>12, <1>13, <1>14, <1>15 DEF WorkerOK, ServersOK
<1>17. net'[b][NameNode] = net[b][NameNode]
  BY <1>8, <1>9
<1>18. /\ \A tb \in Tables : QueuedFor(b, tb) => QueuedFor(b, tb)'
       /\ IsHead(b) => \A tb \in Tables : Answered(ProcessOf(b), tb)' <=> Answered(ProcessOf(b), tb)
  <2>1. IsHead(b) => b = HeadBg(ProcessOf(b))
    BY Workers DEF IsHead
  <2>2. \A tb \in Tables : Holds(net'[NameNode][b], TableMsg("CreateTableReply", tb))
                             <=> Holds(net[NameNode][b], TableMsg("CreateTableReply", tb))
    <3>1. \A tb : ~Holds(<< Msg("ClientStart") >>, TableMsg("CreateTableReply", tb))
      BY OneMessage DEF Holds, Msg, TableMsg
    <3>2. \A tb : ~Holds(<< >>, TableMsg("CreateTableReply", tb))
      BY DEF Holds
    <3> QED  BY <1>8, <1>9, <3>1, <3>2
  <2> QED  BY <1>1, <2>1, <2>2 DEF QueuedFor, Answered
<1> QED  BY <1>6, <1>7, <1>15, <1>16, <1>17, <1>18, BgStepKeeps

\* A worker that only changes its stage.
LEMMA NewStage ==
  ASSUME IInv, NEW b \in Bgs, NEW stage \in BgStages, bg' = [bg EXCEPT ![b].stage = stage]
  PROVE  /\ bg' \in [Bgs -> [stage : BgStages, started : Nat, apps : Nat, gone : Nat, acks : Nat]]
         /\ \A d \in Bgs \ {b} : bg'[d] = bg[d]
         /\ bg'[b].stage = stage /\ bg'[b].started = bg[b].started /\ bg'[b].apps = bg[b].apps
         /\ bg'[b].gone = bg[b].gone /\ bg'[b].acks = bg[b].acks
<1> DEFINE r == bg[b]
           x == [r EXCEPT !.stage = stage]
<1>1. r \in [stage : BgStages, started : Nat, apps : Nat, gone : Nat, acks : Nat] /\ bg' = [bg EXCEPT ![b] = x]
  BY DEF IInv, ShapeInv
<1>2. /\ x \in [stage : BgStages, started : Nat, apps : Nat, gone : Nat, acks : Nat]
      /\ x.stage = stage /\ x.started = r.started /\ x.apps = r.apps /\ x.gone = r.gone /\ x.acks = r.acks
  <2> HIDE DEF r
  <2> QED  BY <1>1
<1> HIDE DEF x
<1>3. /\ bg' \in [Bgs -> [stage : BgStages, started : Nat, apps : Nat, gone : Nat, acks : Nat]]
      /\ bg'[b] = x /\ \A d \in Bgs \ {b} : bg'[d] = bg[d]
  BY <1>1, <1>2, WorkerChanges
<1> QED  BY <1>2, <1>3 DEF r

\* What is said between a worker that creates tables, the name node and the init thread.
LEMMA WhileCreating ==
  ASSUME IInv, NEW b \in Bgs, bg[b].stage \in Creates
  PROVE  /\ WorkerOK(b) /\ b \in connected[NameNode] /\ nameNode.stage # "init" /\ ~Down(b)
         /\ InitOf(b) \in ThreadsOf(ProcessOf(b)) /\ InitOf(b) \in Threads /\ InitOf(b) = InitThread[ProcessOf(b)]
         /\ App(InitOf(b)) \in Entities /\ b \in Receivers(App(InitOf(b)))
         /\ App(InitOf(b)) # b /\ App(InitOf(b)) # NameNode /\ App(InitOf(b)) \notin Daemons
         /\ NameNode # b /\ b \in Entities /\ NameNode \in Entities
         /\ NameNode \in Receivers(b) /\ b \in Receivers(NameNode) /\ ProcessOf(b) \in Clients
         /\ thread[InitOf(b)] \in {"register", "create", "wait"}
         /\ \A t \in ThreadsOf(ProcessOf(b)) : /\ t \in Threads /\ App(t) \in Entities /\ b \in Receivers(App(t))
                                               /\ t # InitOf(b) => App(t) # App(InitOf(b))
         /\ \A s \in OnChannel(Servers, b) : /\ s \in Servers /\ s \in Entities /\ s # b /\ s # NameNode /\ s # App(InitOf(b))
                                             /\ b \in Receivers(s) /\ s \in Receivers(b)
         /\ IsHead(b) => /\ b = HeadBg(ProcessOf(b)) /\ App(InitOf(b)) \in Receivers(b)
                         /\ KnowsTables(ProcessOf(b)) /\ ToInit(ProcessOf(b))
         /\ b = HeadBg(ProcessOf(b)) => IsHead(b)
         /\ bg[b].stage \in {"tables", "asked", "all tables"} => IsHead(b)
<1>1. bg[b].stage # "connect" /\ bg[b].stage \notin Runs
  BY DEF Creates, Runs
<1>2. WorkerOK(b) /\ b \in connected[NameNode] /\ nameNode.stage # "init" /\ ~Down(b)
  BY <1>1, Parts, AllConnected, NotDown
<1>3. /\ InitOf(b) \in ThreadsOf(ProcessOf(b)) /\ InitOf(b) \in Threads /\ InitOf(b) = InitThread[ProcessOf(b)]
      /\ \A t \in ThreadsOf(ProcessOf(b)) : t \in Threads /\ App(t) \in Entities /\ b \in Receivers(App(t))
      /\ ProcessOf(b) \in Clients /\ NameNode # b /\ b \in Entities /\ NameNode \in Entities
      /\ NameNode \in Receivers(b) /\ b \in Receivers(NameNode)
  BY Channels1, Channels2, Workers, EntitiesAre, Kinds
<1>4. /\ \A t \in Threads : App(t) # b /\ App(t) # NameNode /\ App(t) \notin Daemons
      /\ \A t, u \in Threads : App(t) = App(u) => t = u
  BY Kinds, EntitiesAre
<1>5. \A s \in OnChannel(Servers, b) : /\ s \in Servers /\ s \in Entities /\ s # b /\ s # NameNode
                                       /\ b \in Receivers(s) /\ s \in Receivers(b)
                                       /\ \A t \in Threads : s # App(t)
  BY Channels1, EntitiesAre, Kinds
<1>6. thread[InitOf(b)] \in {"register", "create", "wait"}
  BY InStep
<1>7. /\ IsHead(b) => b = HeadBg(ProcessOf(b))
      /\ b = HeadBg(ProcessOf(b)) => IsHead(b) /\ App(InitOf(b)) \in Receivers(b)
  BY <1>3, Workers, Channels2 DEF IsHead
<1>8. KnowsTables(ProcessOf(b)) /\ ToInit(ProcessOf(b)) /\ (bg[b].stage \in {"tables", "asked", "all tables"} => IsHead(b))
  BY <1>3 DEF IInv, StagesInv, WithInit, ToInitInv
<1> QED  BY <1>2, <1>3, <1>4, <1>5, <1>6, <1>7, <1>8

\* RecvAppInitThreadConnection.
LEMMA BgInitThreadConnectionKeeps ==
  ASSUME IInv, NEW b \in Bgs, BgInitThreadConnection(b)
  PROVE  IInv'
<1> DEFINE t == InitOf(b)
           q == net[App(t)][b]
           next == IF ChannelOf(b) = HeadChannel THEN "tables" ELSE "table barrier"
<1>1. /\ bg[b].stage = "app" /\ q # << >> /\ net' = Received(App(t), b) /\ bg[b].stage \in Creates
      /\ bg' = [bg EXCEPT ![b].apps = @ + 1, ![b].stage = next]
      /\ UNCHANGED <<nameNode, connected, creating, server, tables, thread, clocks>>
  BY DEF BgInitThreadConnection, Incoming, InitOf, Creates
<1>2. /\ WorkerOK(b) /\ b \in connected[NameNode] /\ nameNode.stage # "init" /\ ~Down(b)
      /\ t \in ThreadsOf(ProcessOf(b)) /\ t \in Threads /\ t = InitThread[ProcessOf(b)]
      /\ App(t) \in Entities /\ b \in Receivers(App(t)) /\ App(t) # b /\ App(t) # NameNode
      /\ NameNode # b /\ b \in Entities /\ NameNode \in Entities
      /\ NameNode \in Receivers(b) /\ b \in Receivers(NameNode) /\ ProcessOf(b) \in Clients
      /\ thread[t] \in {"register", "create", "wait"}
      /\ \A u \in ThreadsOf(ProcessOf(b)) : /\ u \in Threads /\ App(u) \in Entities /\ b \in Receivers(App(u))
                                            /\ u # t => App(u) # App(t)
      /\ \A s \in OnChannel(Servers, b) : /\ s \in Servers /\ s \in Entities /\ s # b /\ s # App(t)
                                          /\ b \in Receivers(s) /\ s \in Receivers(b)
      /\ IsHead(b) => /\ b = HeadBg(ProcessOf(b)) /\ App(t) \in Receivers(b)
                      /\ KnowsTables(ProcessOf(b)) /\ ToInit(ProcessOf(b))
      /\ b = HeadBg(ProcessOf(b)) => IsHead(b)
  BY <1>1, WhileCreating
<1>3. /\ IsNet(net') /\ net'[App(t)][b] = Tail(q)
      /\ \A x \in Entities : \A y \in Receivers(x) : x # App(t) \/ y # b => net'[x][y] = net[x][y]
  BY <1>1, <1>2, BgReceives
<1>4. /\ bg' \in [Bgs -> [stage : BgStages, started : Nat, apps : Nat, gone : Nat, acks : Nat]]
      /\ \A d \in Bgs \ {b} : bg'[d] = bg[d]
      /\ bg'[b].apps = bg[b].apps + 1 /\ bg'[b].stage = next /\ bg'[b].started = bg[b].started
      /\ bg'[b].gone = bg[b].gone /\ bg'[b].acks = bg[b].acks
  <2> DEFINE x == [bg[b] EXCEPT !.apps = @ + 1, !.stage = next]
  <2>1. bg[b] \in [stage : BgStages, started : Nat, apps : Nat, gone : Nat, acks : Nat] /\ next \in BgStages
    BY DEF IInv, ShapeInv, BgStages
  <2>2. bg' = [bg EXCEPT ![b] = x]
    BY <1>1
  <2> HIDE DEF next
  <2>3. /\ x \in [stage : BgStages, started : Nat, apps : Nat, gone : Nat, acks : Nat]
        /\ x.apps = bg[b].apps + 1 /\ x.stage = next /\ x.started = bg[b].started
        /\ x.gone = bg[b].gone /\ x.acks = bg[b].acks
    <3> DEFINE r == bg[b]
    <3>1. r \in [stage : BgStages, started : Nat, apps : Nat, gone : Nat, acks : Nat] /\ r.apps + 1 \in Nat /\ next \in BgStages
      BY <2>1
    <3>2. x = [r EXCEPT !.apps = r.apps + 1, !.stage = next]
      BY <3>1
    <3> HIDE DEF r, x
    <3>3. x \in [stage : BgStages, started : Nat, apps : Nat, gone : Nat, acks : Nat]
      BY <3>1, <3>2
    <3>4. x.apps = r.apps + 1 /\ x.stage = next /\ x.started = r.started /\ x.gone = r.gone /\ x.acks = r.acks
      BY <3>1, <3>2
    <3> QED  BY <3>3, <3>4 DEF r
  <2> HIDE DEF x
  <2> QED  BY <2>2, <2>3, WorkerChanges
<1>5. /\ bg'[b].stage = (IF IsHead(b) THEN "tables" ELSE "table barrier") /\ bg[b].stage = "app"
      /\ UNCHANGED <<nameNode, connected, creating, server, tables, thread, clocks>>
  BY <1>1, <1>4 DEF IsHead
<1> HIDE DEF next
<1>6. /\ thread[t] \in {"create", "wait"}
      /\ Holds(q, Msg("AppConnect")) /\ ~Holds(net'[App(t)][b], Msg("AppConnect"))
      /\ IF IsHead(b) /\ thread[t] = "wait"
         THEN \E tb \in Tables \ tables[ProcessOf(b)] : net'[App(t)][b] = << TableMsg("BgCreateTable", tb) >>
         ELSE net'[App(t)][b] = << >>
  <2>1. FromInit(b) /\ thread[t] # "register"
    BY <1>1, <1>2 DEF WorkerOK, ThreadsOK, FromInit
  <2>2. CASE IsHead(b) /\ thread[t] = "wait"
    <3>1. PICK tb \in Tables \ tables[ProcessOf(b)] : q = << Msg("AppConnect"), TableMsg("BgCreateTable", tb) >>
      BY <1>1, <2>1, <2>2 DEF FromInit
    <3> DEFINE m == Msg("AppConnect")
               k == TableMsg("BgCreateTable", tb)
    <3>2. m # k
      BY DEF Msg, TableMsg
    <3> HIDE DEF m, k
    <3>3. q = << m, k >>
      BY <3>1 DEF m, k
    <3>4. Tail(q) = << k >> /\ DOMAIN q = {1, 2} /\ q[1] = m
      BY <3>3, TwoMessages
    <3>5. DOMAIN << k >> = {1} /\ << k >>[1] = k
      BY OneMessage
    <3>6. Holds(q, m) /\ ~Holds(<< k >>, m)
      BY <3>2, <3>4, <3>5 DEF Holds
    <3>7. net'[App(t)][b] = << k >>
      BY <1>3, <3>4
    <3> QED  BY <1>2, <2>1, <2>2, <3>6, <3>7 DEF m, k
  <2>3. CASE ~(IsHead(b) /\ thread[t] = "wait")
    <3> DEFINE m == Msg("AppConnect")
    <3>1. q = << m >>
      BY <1>1, <2>1, <2>3 DEF FromInit
    <3> HIDE DEF m
    <3>2. net'[App(t)][b] = << >> /\ Holds(q, m) /\ ~Holds(<< >>, m)
      BY <1>3, <3>1, OneMessage DEF Holds
    <3> QED  BY <1>2, <2>1, <2>3, <3>2 DEF m
  <2> QED  BY <2>2, <2>3
<1>7. BgStep(b)
  <2>1. \A x \in Entities : \A y \in Receivers(x) : x # b /\ y # b => net'[x][y] = net[x][y]
    BY <1>3
  <2> QED  BY <1>1, <1>3, <1>4, <2>1 DEF BgStep, IInv, ShapeInv
<1>8. /\ net[NameNode][b] = << >> /\ SameWithNameNode(b) /\ SameWithServers(b) /\ SameServersOf(b)
  <2>1. net[NameNode][b] = << >>
    BY <1>1, <1>2 DEF WorkerOK, NameNodeOK, FromNameNode
  <2> QED  BY <1>1, <1>2, <1>3, <2>1 DEF SameWithNameNode, SameWithServers, SameServersOf
<1>9. ServersOK(b)' /\ CountsOK(b)'
  <2>1. bg[b].stage \in Middle /\ bg'[b].stage \in Middle \cup {"run"}
    BY <1>1, <1>4, <1>5 DEF Middle, Creates
  <2>2. net'[NameNode][b] # << Msg("ClientStart") >>
    BY <1>8, OneMessage DEF SameWithNameNode
  <2> QED  BY <1>1, <1>4, <1>8, <2>1, <2>2, MiddleStays
<1>10. NameNodeOK(b)'
  <2>1. net'[NameNode][b] = << >> /\ net'[b][NameNode] = net[b][NameNode]
    BY <1>8 DEF SameWithNameNode
  <2>2. net[b][NameNode] = << >>
    BY <1>1, <1>2 DEF WorkerOK, NameNodeOK, ToNameNode
  <2> QED  BY <1>2, <1>5, <2>1, <2>2 DEF NameNodeOK, FromNameNode, ToNameNode, Runs, IsHead
<1>11. ThreadsOK(b)'
  <2>1. bg[b].apps = Cardinality(AppsAt(b)) /\ bg[b].gone = Cardinality(GoneAt(b)) /\ \A u \in ThreadsOf(ProcessOf(b)) : FromThread(u, b)
    BY <1>2 DEF WorkerOK, ThreadsOK
  <2>2. \A u \in ThreadsOf(ProcessOf(b)) \ {t} : net'[App(u)][b] = net[App(u)][b]
    BY <1>2, <1>3
  <2>3. bg'[b].apps = Cardinality(AppsAt(b)')
    <3>1. AppsAt(b)' = AppsAt(b) \cup {t} /\ t \notin AppsAt(b)
      BY <1>1, <1>2, <1>6, <2>2 DEF AppsAt, Unregistered
    <3>2. IsFiniteSet(ThreadsOf(ProcessOf(b))) /\ AppsAt(b) \in SUBSET ThreadsOf(ProcessOf(b))
      BY NumberOfThreads DEF AppsAt
    <3>3. Cardinality(AppsAt(b) \cup {t}) = Cardinality(AppsAt(b)) + 1
      BY <1>2, <3>1, <3>2, CountsAll
    <3> QED  BY <1>4, <2>1, <3>1, <3>3
  <2>4. bg'[b].gone = Cardinality(GoneAt(b)')
    <3>1. GoneAt(b)' = GoneAt(b)
      BY <1>1, <1>2, <1>6, <2>2 DEF GoneAt
    <3> QED  BY <1>4, <2>1, <3>1
  <2>5. ASSUME NEW u \in ThreadsOf(ProcessOf(b)) PROVE FromThread(u, b)'
    <3>1. CASE u = t
      BY <1>1, <1>6, <3>1 DEF FromThread
    <3>2. CASE u # t
      BY <1>1, <1>2, <2>1, <2>2, <3>2, FromThreadStays
    <3> QED  BY <3>1, <3>2
  <2>6. FromInit(b)'
    BY <1>5, <1>6 DEF FromInit, InitOf, IsHead, Starts
  <2>7. b = HeadBg(ProcessOf(b)) => ToInit(ProcessOf(b))'
    <3> SUFFICES ASSUME b = HeadBg(ProcessOf(b)) PROVE ToInit(ProcessOf(b))'
      OBVIOUS
    <3>1. net[b][App(t)] = << >> /\ net'[b][App(t)] = net[b][App(t)]
      BY <1>1, <1>2, <1>3 DEF ToInit
    <3> QED  BY <1>2, <1>5, <3>1 DEF ToInit
  <2> QED  BY <2>3, <2>4, <2>5, <2>6, <2>7 DEF ThreadsOK
<1>12. WithProcess(b)'
  <2>1. IsHead(b) => KnowsTables(ProcessOf(b))'
    BY <1>2, <1>5 DEF KnowsTables, Runs
  <2>2. WithInit(b)'
    BY <1>5, <1>6 DEF WithInit, InitOf, IsHead, Creates
  <2> QED  BY <2>1, <2>2 DEF WithProcess, IsHead
<1>13. WorkerOK(b)'
  BY <1>9, <1>10, <1>11 DEF WorkerOK
<1>14. /\ ~Down(b)' /\ \A tb \in Tables : QueuedFor(b, tb) => QueuedFor(b, tb)'
       /\ IsHead(b) => \A tb \in Tables : Answered(ProcessOf(b), tb)' <=> Answered(ProcessOf(b), tb)
  BY <1>1, <1>2, <1>4, <1>8 DEF QueuedFor, Answered, SameWithNameNode, Down
<1> QED  BY <1>2, <1>7, <1>12, <1>13, <1>14, BgStepKeeps

\* The threads of a worker that creates tables.
LEMMA ThreadsOfCreating ==
  ASSUME IInv, NEW b \in Bgs, bg[b].stage \in Creates, thread' = thread,
         bg'[b].apps = bg[b].apps, bg'[b].gone = bg[b].gone,
         \A u \in ThreadsOf(ProcessOf(b)) \ {InitOf(b)} : net'[App(u)][b] = net[App(u)][b],
         ~Holds(net[App(InitOf(b))][b], Msg("AppConnect")), ~Holds(net'[App(InitOf(b))][b], Msg("AppConnect")),
         FromInit(b)', IsHead(b) => ToInit(ProcessOf(b))'
  PROVE  ThreadsOK(b)'
<1> DEFINE t == InitOf(b)
<1>1. /\ thread[t] \in {"register", "create", "wait"} /\ \A u \in ThreadsOf(ProcessOf(b)) : u \in Threads
      /\ b = HeadBg(ProcessOf(b)) => IsHead(b)
  BY WhileCreating
<1>2. bg[b].apps = Cardinality(AppsAt(b)) /\ bg[b].gone = Cardinality(GoneAt(b)) /\ \A u \in ThreadsOf(ProcessOf(b)) : FromThread(u, b)
  BY Parts DEF WorkerOK, ThreadsOK
<1>3. AppsAt(b)' = AppsAt(b)
  BY DEF AppsAt
<1>4. GoneAt(b)' = GoneAt(b)
  BY <1>1 DEF GoneAt
<1>5. ASSUME NEW u \in ThreadsOf(ProcessOf(b)) PROVE FromThread(u, b)'
  <2>1. CASE u = t
    BY <1>1, <2>1 DEF FromThread
  <2>2. CASE u # t
    BY <1>1, <1>2, <2>2, FromThreadStays
  <2> QED  BY <2>1, <2>2
<1> QED  BY <1>1, <1>2, <1>3, <1>4, <1>5 DEF ThreadsOK

\* HandleCreateTables, when the init thread asks for a table.
LEMMA BgCreateTableKeeps ==
  ASSUME IInv, NEW b \in Bgs, BgCreateTable(b)
  PROVE  IInv'
<1> DEFINE t == InitOf(b)
           q == net[App(t)][b]
<1>1. /\ bg[b].stage = "tables" /\ q # << >> /\ bg[b].stage \in Creates
      /\ net' = Sent(Received(App(t), b), b, {NameNode}, TableMsg("CreateTable", Head(q).table))
      /\ bg' = [bg EXCEPT ![b].stage = "asked"]
      /\ UNCHANGED <<nameNode, connected, creating, server, tables, thread, clocks>>
  BY DEF BgCreateTable, Incoming, InitOf, Creates, Content
<1>2. /\ WorkerOK(b) /\ b \in connected[NameNode] /\ nameNode.stage # "init" /\ ~Down(b)
      /\ t \in ThreadsOf(ProcessOf(b)) /\ t \in Threads /\ t = InitThread[ProcessOf(b)]
      /\ App(t) \in Entities /\ b \in Receivers(App(t)) /\ App(t) # b /\ App(t) # NameNode
      /\ NameNode # b /\ b \in Entities /\ NameNode \in Entities
      /\ NameNode \in Receivers(b) /\ b \in Receivers(NameNode) /\ ProcessOf(b) \in Clients
      /\ \A u \in ThreadsOf(ProcessOf(b)) : /\ u \in Threads /\ App(u) \in Entities /\ b \in Receivers(App(u))
                                            /\ u # t => App(u) # App(t)
      /\ \A s \in OnChannel(Servers, b) : /\ s \in Servers /\ s \in Entities /\ s # b /\ s # App(t) /\ s # NameNode
                                          /\ b \in Receivers(s) /\ s \in Receivers(b)
      /\ IsHead(b) /\ b = HeadBg(ProcessOf(b)) /\ App(t) \in Receivers(b)
      /\ KnowsTables(ProcessOf(b)) /\ ToInit(ProcessOf(b))
  BY <1>1, WhileCreating
<1>3. /\ thread[t] = "wait"
      /\ \E tb \in Tables \ tables[ProcessOf(b)] : q = << TableMsg("BgCreateTable", tb) >>
  <2>1. FromInit(b)
    BY <1>2 DEF WorkerOK, ThreadsOK
  <2> QED  BY <1>1, <2>1 DEF FromInit
<1>4. PICK tb \in Tables \ tables[ProcessOf(b)] : q = << TableMsg("BgCreateTable", tb) >>
  BY <1>3
<1> DEFINE m == TableMsg("CreateTable", tb)
           R == {NameNode}
<1>5. Head(q).table = tb /\ Tail(q) = << >> /\ ~Holds(q, Msg("AppConnect"))
  <2> DEFINE k == TableMsg("BgCreateTable", tb)
  <2>1. k.table = tb /\ k # Msg("AppConnect")
    BY DEF Msg, TableMsg
  <2>2. q = << k >>
    BY <1>4
  <2> HIDE DEF k, q
  <2> QED  BY <2>1, <2>2, OneMessage DEF Holds
<1>6. /\ IsNet(net') /\ net'[App(t)][b] = << >>
      /\ \A x \in Entities : \A y \in Receivers(x) : x # b /\ (x # App(t) \/ y # b) => net'[x][y] = net[x][y]
      /\ \A y \in Receivers(b) : net'[b][y] = IF y \in R THEN Append(net[b][y], m) ELSE net[b][y]
  <2>1. m \in Message /\ net' = Sent(Received(App(t), b), b, R, m)
    BY <1>1, <1>5, Messages
  <2> DEFINE a == App(t)
  <2>2. net[a][b] # << >> /\ Tail(net[a][b]) = << >> /\ a \in Entities /\ b \in Receivers(a) /\ a # b
    BY <1>1, <1>2, <1>5
  <2>3. m \in Message /\ net' = Sent(Received(a, b), b, R, m)
    BY <2>1
  <2> HIDE DEF m, R, a
  <2>4. /\ IsNet(net') /\ net'[a][b] = Tail(net[a][b])
        /\ \A x \in Entities : \A y \in Receivers(x) : x # b /\ (x # a \/ y # b) => net'[x][y] = net[x][y]
        /\ \A y \in Receivers(b) : net'[b][y] = IF y \in R THEN Append(net[b][y], m) ELSE net[b][y]
    BY <2>2, <2>3, BgAnswers
  <2> QED  BY <2>2, <2>4 DEF a
<1>7. /\ bg' \in [Bgs -> [stage : BgStages, started : Nat, apps : Nat, gone : Nat, acks : Nat]]
      /\ \A d \in Bgs \ {b} : bg'[d] = bg[d]
      /\ bg'[b].stage = "asked" /\ bg'[b].started = bg[b].started /\ bg'[b].apps = bg[b].apps
      /\ bg'[b].gone = bg[b].gone /\ bg'[b].acks = bg[b].acks
  BY <1>1, NewStage DEF BgStages
<1>8. /\ bg[b].stage = "tables" /\ bg'[b].stage = "asked"
      /\ UNCHANGED <<nameNode, connected, creating, server, tables, thread, clocks>>
  BY <1>1, <1>7
<1>9. BgStep(b)
  <2>1. \A x \in Entities : \A y \in Receivers(x) : x # b /\ y # b => net'[x][y] = net[x][y]
    BY <1>6
  <2> QED  BY <1>6, <1>7, <1>8, <2>1 DEF BgStep, IInv, ShapeInv
<1>10. /\ net[b][NameNode] = << >> /\ net[NameNode][b] = << >> /\ net'[NameNode][b] = << >>
       /\ net'[b][NameNode] = << m >>
  <2>1. net[b][NameNode] = << >> /\ net[NameNode][b] = << >>
    BY <1>2, <1>8 DEF WorkerOK, NameNodeOK, FromNameNode, ToNameNode
  <2>2. net'[NameNode][b] = << >> /\ net'[b][NameNode] = Append(<< >>, m)
    <3> HIDE DEF m
    <3> QED  BY <1>2, <1>6, <2>1
  <2>3. net'[b][NameNode] = << m >>
    <3> HIDE DEF m
    <3> QED  BY <2>2, OneMessage
  <2> QED  BY <2>1, <2>2, <2>3
<1>11. SameWithServers(b) /\ SameServersOf(b)
  <2> HIDE DEF m
  <2> QED  BY <1>2, <1>6, <1>8 DEF SameWithServers, SameServersOf
<1>12. ServersOK(b)' /\ CountsOK(b)'
  <2>1. bg[b].stage \in Middle /\ bg'[b].stage \in Middle \cup {"run"}
    BY <1>8 DEF Middle, Creates
  <2>2. net'[NameNode][b] # << Msg("ClientStart") >>
    BY <1>10, OneMessage
  <2> QED  BY <1>7, <1>8, <1>11, <2>1, <2>2, MiddleStays
<1>13. NameNodeOK(b)'
  <2>1. AskedFor(b, tb)'
    BY <1>10 DEF AskedFor
  <2> QED  BY <1>2, <1>8, <2>1 DEF NameNodeOK, FromNameNode, ToNameNode, Runs
<1>14. ThreadsOK(b)'
  <2>1. \A u \in ThreadsOf(ProcessOf(b)) \ {t} : net'[App(u)][b] = net[App(u)][b]
    <3> HIDE DEF m
    <3>1. \A u \in ThreadsOf(ProcessOf(b)) : App(u) # b
      BY Kinds, <1>2
    <3> QED  BY <1>2, <1>6, <3>1
  <2>2. FromInit(b)'
    BY <1>6, <1>8, <1>3 DEF FromInit, InitOf
  <2>3. ToInit(ProcessOf(b))'
    <3>1. net[b][App(t)] = << >>
      BY <1>2, <1>4, OneMessage DEF ToInit
    <3>2. net'[b][App(t)] = << >>
      <4> HIDE DEF m
      <4> QED  BY <1>2, <1>6, <3>1
    <3> QED  BY <1>2, <1>3, <1>8, <3>2 DEF ToInit
  <2>4. ~Holds(net'[App(t)][b], Msg("AppConnect"))
    BY <1>6 DEF Holds
  <2>5. bg[b].stage \in Creates
    BY <1>1
  <2> QED  BY <1>5, <1>7, <1>8, <2>1, <2>2, <2>3, <2>4, <2>5, ThreadsOfCreating
<1>15. WithProcess(b)'
  <2>1. KnowsTables(ProcessOf(b))'
    BY <1>2, <1>8 DEF KnowsTables, Runs
  <2>2. WithInit(b)'
    BY <1>2, <1>3, <1>8 DEF WithInit, InitOf, IsHead, Creates
  <2> QED  BY <2>1, <2>2 DEF WithProcess, IsHead
<1>16. WorkerOK(b)'
  BY <1>12, <1>13, <1>14 DEF WorkerOK
<1>17. /\ ~Down(b)' /\ \A u \in Tables : QueuedFor(b, u) => QueuedFor(b, u)'
       /\ IsHead(b) => \A u \in Tables : Answered(ProcessOf(b), u)' <=> Answered(ProcessOf(b), u)
  BY <1>2, <1>7, <1>8, <1>10 DEF QueuedFor, Answered, Down
<1> QED  BY <1>2, <1>9, <1>15, <1>16, <1>17, BgStepKeeps

\* All tables are created: every process has been told of each of them.
LEMMA AllAnswered ==
  ASSUME IInv, AllCreated, NEW c \in Clients, NEW tb \in Tables
  PROVE  Answered(c, tb) /\ creating[tb].known /\ ReceivedFromAllServers(creating[tb])
<1> DEFINE S == {d \in Clients : Answered(d, tb)}
<1>1. CreatingOK(tb)
  BY DEF IInv, CreatingInv
<1>2. creating[tb].known /\ Cardinality(S) = Cardinality(Clients) /\ IsFiniteSet(Clients)
  BY <1>1, LifecycleAssumption DEF CreatingOK, AllCreated, HaveCreatedAllTables
<1>3. S \in SUBSET Clients
  OBVIOUS
<1>4. S = Clients
  <2> HIDE DEF S
  <2> QED  BY <1>2, <1>3, CountsAll
<1>5. Answered(c, tb)
  BY <1>4
<1> QED  BY <1>1, <1>2, <1>5 DEF CreatingOK

\* HandleCreateTables, when the name node has replied.
LEMMA BgTableCreatedKeeps ==
  ASSUME IInv, NEW b \in Bgs, BgTableCreated(b)
  PROVE  IInv'
<1> DEFINE t == InitOf(b)
           c == ProcessOf(b)
           q == net[NameNode][b]
<1>1. /\ bg[b].stage = "asked" /\ q # << >> /\ bg[b].stage \in Creates
      /\ tables' = [tables EXCEPT ![c] = tables[c] \cup {Head(q).table}]
      /\ bg' = [bg EXCEPT ![b].stage = IF tables[c] \cup {Head(q).table} = Tables THEN "all tables" ELSE "tables"]
      /\ net' = Sent(Received(NameNode, b), b, {App(t)}, TableMsg("CreateTableReply", Head(q).table))
      /\ UNCHANGED <<nameNode, connected, creating, server, thread, clocks>>
  BY DEF BgTableCreated, Incoming, InitOf, Creates, Content
<1>2. /\ WorkerOK(b) /\ b \in connected[NameNode] /\ nameNode.stage # "init" /\ ~Down(b)
      /\ t \in ThreadsOf(ProcessOf(b)) /\ t \in Threads /\ t = InitThread[ProcessOf(b)]
      /\ App(t) \in Entities /\ b \in Receivers(App(t)) /\ App(t) # b /\ App(t) # NameNode
      /\ NameNode # b /\ b \in Entities /\ NameNode \in Entities
      /\ NameNode \in Receivers(b) /\ b \in Receivers(NameNode) /\ ProcessOf(b) \in Clients
      /\ \A u \in ThreadsOf(ProcessOf(b)) : /\ u \in Threads /\ App(u) \in Entities /\ b \in Receivers(App(u))
                                            /\ u # t => App(u) # App(t)
      /\ \A s \in OnChannel(Servers, b) : /\ s \in Servers /\ s \in Entities /\ s # b /\ s # App(t) /\ s # NameNode
                                          /\ b \in Receivers(s) /\ s \in Receivers(b)
      /\ IsHead(b) /\ b = HeadBg(ProcessOf(b)) /\ App(t) \in Receivers(b)
      /\ KnowsTables(ProcessOf(b)) /\ ToInit(ProcessOf(b))
  BY <1>1, WhileCreating
<1>3. PICK tb \in Tables \ tables[c] :
        /\ net[b][NameNode] = << >>
        /\ q = IF AllCreated THEN << TableMsg("CreateTableReply", tb), Msg("CreatedAllTables") >>
                             ELSE << TableMsg("CreateTableReply", tb) >>
  <2>1. FromNameNode(b)
    BY <1>2 DEF WorkerOK, NameNodeOK
  <2>2. \E tb \in Tables \ tables[c] : AskedFor(b, tb)
    BY <1>1, <2>1 DEF FromNameNode
  <2> QED  BY <1>1, <2>2 DEF AskedFor
<1> DEFINE m == TableMsg("CreateTableReply", tb)
           all == tables[c] \cup {tb}
           next == IF all = Tables THEN "all tables" ELSE "tables"
           R == {App(t)}
<1>4. /\ Head(q).table = tb /\ Tail(q) = (IF AllCreated THEN << Msg("CreatedAllTables") >> ELSE << >>)
      /\ \A u \in Tables : Holds(q, TableMsg("CreateTableReply", u)) <=> u = tb
      /\ \A u \in Tables : ~Holds(Tail(q), TableMsg("CreateTableReply", u))
  <2> DEFINE k == Msg("CreatedAllTables")
  <2>1. m.table = tb /\ \A u : TableMsg("CreateTableReply", u) # k /\ (TableMsg("CreateTableReply", u) = m <=> u = tb)
    BY DEF Msg, TableMsg
  <2>2. q = IF AllCreated THEN << m, k >> ELSE << m >>
    BY <1>3
  <2> HIDE DEF k, q, m
  <2>3. CASE AllCreated
    <3>1. q = << m, k >>
      BY <2>2, <2>3
    <3>2. Head(q) = m /\ Tail(q) = << k >> /\ DOMAIN q = {1, 2} /\ q[1] = m /\ q[2] = k
      BY <3>1, TwoMessages
    <3>3. DOMAIN << k >> = {1} /\ << k >>[1] = k
      BY OneMessage
    <3>4. \A u \in Tables : Holds(q, TableMsg("CreateTableReply", u)) <=> u = tb
      BY <2>1, <3>2 DEF Holds
    <3>5. \A u \in Tables : ~Holds(<< k >>, TableMsg("CreateTableReply", u))
      BY <2>1, <3>3 DEF Holds
    <3> QED  BY <2>1, <2>3, <3>2, <3>4, <3>5 DEF k
  <2>4. CASE ~AllCreated
    <3>1. q = << m >>
      BY <2>2, <2>4
    <3>2. Head(q) = m /\ Tail(q) = << >> /\ DOMAIN q = {1} /\ q[1] = m
      BY <3>1, OneMessage
    <3>3. \A u \in Tables : Holds(q, TableMsg("CreateTableReply", u)) <=> u = tb
      BY <2>1, <3>2 DEF Holds
    <3>4. \A u \in Tables : ~Holds(<< >>, TableMsg("CreateTableReply", u))
      BY DEF Holds
    <3> QED  BY <2>1, <2>4, <3>2, <3>3, <3>4
  <2> QED  BY <2>3, <2>4
<1>5. /\ IsNet(net') /\ net'[NameNode][b] = Tail(q)
      /\ \A x \in Entities : \A y \in Receivers(x) : x # b /\ (x # NameNode \/ y # b) => net'[x][y] = net[x][y]
      /\ \A y \in Receivers(b) : net'[b][y] = IF y \in R THEN Append(net[b][y], m) ELSE net[b][y]
  <2>1. m \in Message /\ net' = Sent(Received(NameNode, b), b, R, m)
    BY <1>1, <1>4, Messages
  <2>2. net[NameNode][b] # << >> /\ NameNode \in Entities /\ b \in Receivers(NameNode) /\ NameNode # b
    BY <1>1, <1>2
  <2> HIDE DEF m, R
  <2> QED  BY <2>1, <2>2, BgAnswers
<1>6. /\ bg' \in [Bgs -> [stage : BgStages, started : Nat, apps : Nat, gone : Nat, acks : Nat]]
      /\ \A d \in Bgs \ {b} : bg'[d] = bg[d]
      /\ bg'[b].stage = next /\ bg'[b].started = bg[b].started /\ bg'[b].apps = bg[b].apps
      /\ bg'[b].gone = bg[b].gone /\ bg'[b].acks = bg[b].acks
  <2>1. next \in BgStages
    BY DEF BgStages
  <2>2. bg' = [bg EXCEPT ![b].stage = next]
    BY <1>1, <1>4
  <2> HIDE DEF next
  <2> QED  BY <2>1, <2>2, NewStage
<1>7. /\ bg[b].stage = "asked" /\ bg'[b].stage \in {"tables", "all tables"}
      /\ bg'[b].stage = "all tables" <=> all = Tables
      /\ UNCHANGED <<nameNode, connected, creating, server, thread, clocks>>
  BY <1>1, <1>6
<1>8. /\ tables' \in [Clients -> SUBSET Tables] /\ tables'[c] = all /\ all \subseteq Tables
      /\ \A d \in Clients \ {c} : tables'[d] = tables[d]
  <2>1. tables \in [Clients -> SUBSET Tables] /\ c \in Clients
    BY <1>2 DEF IInv, ShapeInv
  <2>2. tables' = [tables EXCEPT ![c] = all] /\ all \subseteq Tables
    BY <1>1, <1>4, <2>1
  <2> HIDE DEF all
  <2> QED  BY <2>1, <2>2
<1> HIDE DEF next
<1>9. BgStep(b)
  <2>1. \A x \in Entities : \A y \in Receivers(x) : x # b /\ y # b => net'[x][y] = net[x][y]
    BY <1>5
  <2>2. \A d \in Clients : tables'[d] = tables[d] \/ (d = ProcessOf(b) /\ IsHead(b))
    BY <1>2, <1>8
  <2> QED  BY <1>5, <1>6, <1>7, <1>8, <2>1, <2>2 DEF BgStep
<1>10. /\ AllCreated => all = Tables
       /\ \A u \in Tables : Answered(c, u) <=> u \in all
       /\ \A u \in Tables : Answered(c, u)' <=> u \in all
  <2>1. \A u \in Tables : Answered(c, u) <=> u \in all
    BY <1>2, <1>4 DEF Answered
  <2>2. \A u \in Tables : Answered(c, u)' <=> u \in all
    BY <1>2, <1>4, <1>5, <1>8 DEF Answered
  <2>3. AllCreated => all = Tables
    BY <1>2, <1>8, <2>1, AllAnswered
  <2> QED  BY <2>1, <2>2, <2>3
<1>11. SameWithServers(b) /\ SameServersOf(b) /\ net'[b][NameNode] = net[b][NameNode]
  <2> HIDE DEF m
  <2> QED  BY <1>2, <1>5, <1>7 DEF SameWithServers, SameServersOf
<1>12. ServersOK(b)' /\ CountsOK(b)'
  <2>1. bg[b].stage \in Middle /\ bg'[b].stage \in Middle \cup {"run"}
    BY <1>7 DEF Middle, Creates
  <2>2. net'[NameNode][b] # << Msg("ClientStart") >>
    <3>1. << Msg("CreatedAllTables") >> # << Msg("ClientStart") >>
      BY Messages, OneMessage
    <3> QED  BY <1>4, <1>5, <3>1, OneMessage
  <2> QED  BY <1>6, <1>7, <1>11, <2>1, <2>2, MiddleStays
<1>13. NameNodeOK(b)'
  <2>1. AllCreated' <=> AllCreated
    BY <1>7 DEF AllCreated
  <2>2. net'[NameNode][b] = (IF AllCreated THEN << Msg("CreatedAllTables") >> ELSE << >>)
    BY <1>4, <1>5
  <2>3. bg'[b].stage = "tables" => net'[NameNode][b] = << >>
    BY <1>7, <1>10, <2>2
  <2>4. FromNameNode(b)'
    BY <1>2, <1>7, <2>1, <2>2, <2>3 DEF FromNameNode, Runs
  <2>5. ToNameNode(b)'
    BY <1>3, <1>7, <1>11 DEF ToNameNode
  <2> QED  BY <2>4, <2>5 DEF NameNodeOK
<1>14. ThreadsOK(b)'
  <2>1. \A u \in ThreadsOf(ProcessOf(b)) : net'[App(u)][b] = net[App(u)][b]
    <3> HIDE DEF m
    <3>1. \A u \in ThreadsOf(ProcessOf(b)) : App(u) # b /\ App(u) # NameNode
      BY Kinds, <1>2
    <3> QED  BY <1>2, <1>5, <3>1
  <2>2. net[App(t)][b] = << >> /\ net'[App(t)][b] = << >> /\ thread[t] = "wait" /\ net[b][App(t)] = << >>
    <3>1. net[App(t)][b] = << >>
      BY <1>2, <1>7 DEF WorkerOK, ThreadsOK, FromInit
    <3> QED  BY <1>2, <1>7, <2>1, <3>1 DEF ToInit
  <2>3. FromInit(b)'
    BY <1>7, <2>2 DEF FromInit, InitOf
  <2>4. ToInit(ProcessOf(b))'
    <3>1. net'[b][App(t)] = Append(<< >>, m)
      <4> HIDE DEF m
      <4> QED  BY <1>2, <1>5, <2>2
    <3>2. net'[b][App(t)] = << m >>
      <4> HIDE DEF m
      <4> QED  BY <3>1, OneMessage
    <3> QED  BY <1>2, <1>7, <2>2, <3>2 DEF ToInit
  <2>5. ~Holds(net[App(t)][b], Msg("AppConnect")) /\ ~Holds(net'[App(t)][b], Msg("AppConnect"))
    BY <2>2 DEF Holds
  <2>6. bg[b].stage \in Creates
    BY <1>1
  <2> QED  BY <1>6, <1>7, <2>1, <2>3, <2>4, <2>5, <2>6, ThreadsOfCreating
<1>15. WithProcess(b)'
  <2>1. KnowsTables(ProcessOf(b))'
    BY <1>2, <1>7, <1>8 DEF KnowsTables, Runs
  <2>2. thread[t] = "wait"
    BY <1>2, <1>7 DEF ToInit
  <2>3. WithInit(b)'
    BY <1>2, <1>7, <2>2 DEF WithInit, InitOf, IsHead, Creates
  <2> QED  BY <2>1, <2>3 DEF WithProcess, IsHead
<1>16. WorkerOK(b)'
  BY <1>12, <1>13, <1>14 DEF WorkerOK
<1>17. /\ ~Down(b)' /\ \A u \in Tables : QueuedFor(b, u) => QueuedFor(b, u)'
       /\ \A u \in Tables : Answered(ProcessOf(b), u)' <=> Answered(ProcessOf(b), u)
  BY <1>1, <1>2, <1>6, <1>10 DEF QueuedFor, Down
<1> QED  BY <1>2, <1>9, <1>15, <1>16, <1>17, BgStepKeeps

\* HandleCreateTables, when all processes have all tables.
LEMMA BgCreatedAllTablesKeeps ==
  ASSUME IInv, NEW b \in Bgs, BgCreatedAllTables(b)
  PROVE  IInv'
<1> DEFINE t == InitOf(b)
           c == ProcessOf(b)
           q == net[NameNode][b]
<1>1. /\ bg[b].stage = "all tables" /\ q # << >> /\ bg[b].stage \in Creates
      /\ bg' = [bg EXCEPT ![b].stage = "table barrier"] /\ net' = Received(NameNode, b)
      /\ UNCHANGED <<nameNode, connected, creating, server, tables, thread, clocks>>
  BY DEF BgCreatedAllTables, Incoming, Creates
<1>2. /\ WorkerOK(b) /\ b \in connected[NameNode] /\ nameNode.stage # "init" /\ ~Down(b)
      /\ t \in ThreadsOf(ProcessOf(b)) /\ t \in Threads /\ t = InitThread[ProcessOf(b)]
      /\ NameNode # b /\ b \in Entities /\ NameNode \in Entities
      /\ NameNode \in Receivers(b) /\ b \in Receivers(NameNode) /\ ProcessOf(b) \in Clients
      /\ \A u \in ThreadsOf(ProcessOf(b)) : u \in Threads /\ App(u) \in Entities /\ b \in Receivers(App(u))
      /\ \A s \in OnChannel(Servers, b) : /\ s \in Servers /\ s \in Entities /\ s # NameNode
                                          /\ b \in Receivers(s) /\ s \in Receivers(b)
      /\ IsHead(b) /\ b = HeadBg(ProcessOf(b)) /\ App(t) \in Receivers(b)
      /\ KnowsTables(ProcessOf(b)) /\ ToInit(ProcessOf(b)) /\ thread[t] \in {"register", "create", "wait"}
  BY <1>1, WhileCreating
<1>3. /\ IsNet(net') /\ net'[NameNode][b] = Tail(q)
      /\ \A x \in Entities : \A y \in Receivers(x) : x # NameNode \/ y # b => net'[x][y] = net[x][y]
  BY <1>1, <1>2, BgReceives
<1>4. AllCreated /\ q = << Msg("CreatedAllTables") >> /\ net'[NameNode][b] = << >>
  <2>1. AllCreated /\ q = << Msg("CreatedAllTables") >>
    BY <1>1, <1>2 DEF WorkerOK, NameNodeOK, FromNameNode
  <2> QED  BY <1>3, <2>1, OneMessage
<1>5. /\ bg' \in [Bgs -> [stage : BgStages, started : Nat, apps : Nat, gone : Nat, acks : Nat]]
      /\ \A d \in Bgs \ {b} : bg'[d] = bg[d]
      /\ bg'[b].stage = "table barrier" /\ bg'[b].started = bg[b].started /\ bg'[b].apps = bg[b].apps
      /\ bg'[b].gone = bg[b].gone /\ bg'[b].acks = bg[b].acks
  BY <1>1, NewStage DEF BgStages
<1>6. /\ bg[b].stage = "all tables" /\ bg'[b].stage = "table barrier"
      /\ UNCHANGED <<nameNode, connected, creating, server, tables, thread, clocks>>
  BY <1>1, <1>5
<1>7. BgStep(b)
  <2>1. \A x \in Entities : \A y \in Receivers(x) : x # b /\ y # b => net'[x][y] = net[x][y]
    BY <1>3
  <2> QED  BY <1>3, <1>5, <1>6, <2>1 DEF BgStep, IInv, ShapeInv
<1>8. SameWithServers(b) /\ SameServersOf(b) /\ net'[b][NameNode] = net[b][NameNode]
  BY <1>2, <1>3, <1>6 DEF SameWithServers, SameServersOf
<1>9. ServersOK(b)' /\ CountsOK(b)'
  <2>1. bg[b].stage \in Middle /\ bg'[b].stage \in Middle \cup {"run"}
    BY <1>6 DEF Middle, Creates
  <2>2. net'[NameNode][b] # << Msg("ClientStart") >>
    BY <1>4, OneMessage
  <2> QED  BY <1>5, <1>6, <1>8, <2>1, <2>2, MiddleStays
<1>10. NameNodeOK(b)'
  <2>1. AllCreated'
    BY <1>4, <1>6 DEF AllCreated
  <2>2. net[b][NameNode] = << >>
    BY <1>2, <1>6 DEF WorkerOK, NameNodeOK, ToNameNode
  <2> QED  BY <1>2, <1>4, <1>6, <1>8, <2>1, <2>2 DEF NameNodeOK, FromNameNode, ToNameNode, Runs
<1>11. ThreadsOK(b)'
  <2>1. \A u \in ThreadsOf(ProcessOf(b)) : net'[App(u)][b] = net[App(u)][b]
    <3>1. \A u \in ThreadsOf(ProcessOf(b)) : App(u) # NameNode
      BY Kinds, <1>2
    <3> QED  BY <1>2, <1>3, <3>1
  <2>2. net[App(t)][b] = << >> /\ net'[App(t)][b] = << >> /\ net'[b][App(t)] = net[b][App(t)]
    <3>1. net[App(t)][b] = << >>
      BY <1>2, <1>6 DEF WorkerOK, ThreadsOK, FromInit
    <3> QED  BY <1>2, <1>3, <2>1, <3>1
  <2>3. FromInit(b)'
    BY <1>6, <2>2 DEF FromInit, InitOf
  <2>4. ToInit(ProcessOf(b))'
    BY <1>2, <1>6, <2>2 DEF ToInit
  <2>5. ~Holds(net[App(t)][b], Msg("AppConnect")) /\ ~Holds(net'[App(t)][b], Msg("AppConnect"))
    BY <2>2 DEF Holds
  <2>6. bg[b].stage \in Creates
    BY <1>1
  <2> QED  BY <1>5, <1>6, <2>1, <2>3, <2>4, <2>5, <2>6, ThreadsOfCreating
<1>12. WithProcess(b)'
  <2>1. KnowsTables(ProcessOf(b))'
    BY <1>2, <1>6 DEF KnowsTables, Runs
  <2>2. thread[t] \in {"create", "wait"}
    <3>1. WithInit(b)
      BY DEF IInv, StagesInv
    <3> QED  BY <1>2, <1>6, <3>1 DEF WithInit
  <2>3. WithInit(b)'
    BY <1>2, <1>6, <2>2 DEF WithInit, InitOf, IsHead, Creates
  <2> QED  BY <2>1, <2>3 DEF WithProcess, IsHead
<1>13. WorkerOK(b)'
  BY <1>9, <1>10, <1>11 DEF WorkerOK
<1>14. /\ ~Down(b)' /\ \A u \in Tables : QueuedFor(b, u) => QueuedFor(b, u)'
       /\ \A u \in Tables : Answered(ProcessOf(b), u)' <=> Answered(ProcessOf(b), u)
  <2>1. \A u \in Tables : ~Holds(net[NameNode][b], TableMsg("CreateTableReply", u))
    BY <1>4, OneMessage DEF Holds, Msg, TableMsg
  <2>2. \A u \in Tables : ~Holds(net'[NameNode][b], TableMsg("CreateTableReply", u))
    BY <1>4 DEF Holds
  <2> QED  BY <1>2, <1>5, <1>6, <2>1, <2>2 DEF QueuedFor, Answered, Down
<1> QED  BY <1>2, <1>7, <1>12, <1>13, <1>14, BgStepKeeps

-----------------------------------------------------------------------------
(* The other steps of the servers.                                         *)

\* A server's step has to do with its own channels, and with nobody else's.
ServerStep(s) ==
  /\ IsNet(net')
  /\ \A x \in Entities : \A y \in Receivers(x) : x # s /\ y # s => net'[x][y] = net[x][y]
  /\ UNCHANGED <<nameNode, creating, bg, tables, thread, clocks>>
  /\ connected' \in [Servers \cup {NameNode} -> SUBSET (Bgs \cup Servers)]
  /\ connected'[NameNode] = connected[NameNode]
  /\ server' \in [Servers -> [stage : {"init", "run", "exited"}, tables : SUBSET Tables, down : Nat]]
  /\ \A z \in Servers \ {s} : server'[z] = server[z] /\ connected'[z] = connected[z]

\* What the server and the workers of its channel know of each other.
ServerOK(s) ==
  /\ connected[s] \subseteq OnChannel(Bgs, s)
  /\ server[s].stage = "init" <=> connected[s] # OnChannel(Bgs, s)
  /\ server[s].down = Cardinality(ShutDownsAt(s, OnChannel(Bgs, s)))
  /\ server[s].stage = "exited" <=> server[s].down = Cardinality(Clients)

\* After a server's step, only the workers of its channel need another look.
LEMMA ServerStepKeeps ==
  ASSUME IInv, NEW s \in Servers, ServerStep(s), ServerOK(s)', TablesInv',
         s \in connected[NameNode] \/ net'[s][NameNode] = net[s][NameNode],
         \A d \in OnChannel(Bgs, s) : (ToServer(d, s) /\ FromServer(s, d) /\ CountsOK(d))'
  PROVE  IInv'
<1>0. /\ UNCHANGED <<nameNode, creating, bg, tables, thread, clocks>>
      /\ connected'[NameNode] = connected[NameNode] /\ s # NameNode /\ s \in Entities
      /\ \A z \in Servers \ {s} : server'[z] = server[z] /\ connected'[z] = connected[z]
      /\ \A x \in Entities : \A y \in Receivers(x) : x # s /\ y # s => net'[x][y] = net[x][y]
  BY Kinds, EntitiesAre DEF ServerStep
<1>1. ShapeInv'
  <2>1. \A z \in Servers : connected'[z] \subseteq OnChannel(Bgs, z)
    BY <1>0 DEF ServerOK, IInv, ShapeInv
  <2> QED  BY <1>0, <2>1 DEF ServerStep, IInv, ShapeInv
<1>2. SameStages /\ SameGone /\ SameFromBgs /\ SameToBgs /\ StagesInv'
  <2>1. SameStages /\ SameGone
    BY <1>0 DEF SameStages, SameGone
  <2>2. SameFromBgs /\ SameToBgs
    BY <1>0, Channels1, Kinds DEF SameFromBgs, SameToBgs
  <2> QED  BY <1>0, <2>1, <2>2, StagesStay DEF IInv
<1>3. ASSUME NEW d \in Bgs
      PROVE  /\ SameWithNameNode(d) /\ SameWithThreads(d) /\ SameThreadsOf(d) /\ d # s
             /\ NameNodeOK(d)' /\ ThreadsOK(d)' /\ WorkerOK(d)
             /\ \A z \in OnChannel(Servers, d) \ {s} :
                  /\ net'[d][z] = net[d][z] /\ net'[z][d] = net[z][d]
                  /\ (ToServer(d, z) /\ FromServer(z, d))'
  <2>1. SameWithNameNode(d) /\ d # s /\ WorkerOK(d)
    BY <1>2, Parts, Kinds DEF SameWithNameNode, SameFromBgs, SameToBgs
  <2>2. SameThreadsOf(d) /\ SameTablesOf(d)
    BY <1>0 DEF SameThreadsOf, SameTablesOf
  <2>3. SameWithThreads(d)
    <3>1. \A t \in ThreadsOf(ProcessOf(d)) : App(t) \in Entities /\ d \in Receivers(App(t)) /\ App(t) # s
      BY Channels2, Kinds
    <3>2. d = HeadBg(ProcessOf(d)) => d \in Entities /\ App(InitOf(d)) \in Receivers(d) /\ App(InitOf(d)) # s
      BY Channels2, Kinds, Workers
    <3> QED  BY <1>0, <2>1, <3>1, <3>2 DEF SameWithThreads
  <2>4. NameNodeOK(d)'
    BY <1>0, <2>1, <2>2, NameNodeOKStays DEF WorkerOK
  <2>5. ThreadsOK(d)'
    BY <1>0, <2>1, <2>2, <2>3, ThreadsOKStay DEF WorkerOK
  <2>6. ASSUME NEW z \in OnChannel(Servers, d) \ {s}
        PROVE  /\ net'[d][z] = net[d][z] /\ net'[z][d] = net[z][d]
               /\ (ToServer(d, z) /\ FromServer(z, d))'
    <3>1. z \in Servers /\ z \in Entities /\ d \in Entities /\ d \in Receivers(z) /\ z \in Receivers(d)
      BY Channels1, EntitiesAre
    <3>2. net'[d][z] = net[d][z] /\ net'[z][d] = net[z][d]
      BY <1>0, <2>1, <3>1
    <3>3. ToServer(d, z) /\ FromServer(z, d)
      BY <2>1 DEF WorkerOK, ServersOK
    <3> QED  BY <1>0, <3>1, <3>2, <3>3, ToServerStays, FromServerStays
  <2> QED  BY <2>1, <2>2, <2>3, <2>4, <2>5, <2>6
<1>4. ASSUME NEW d \in Bgs PROVE WorkerOK(d)'
  <2>1. CASE d \in OnChannel(Bgs, s)
    <3>1. ServersOK(d)'
      BY <1>3, <2>1 DEF ServersOK
    <3> QED  BY <1>3, <2>1, <3>1 DEF WorkerOK
  <2>2. CASE d \notin OnChannel(Bgs, s)
    <3>1. \A z \in OnChannel(Servers, d) : z \in Servers \ {s}
      BY <2>2, Channels1
    <3>2. SameWithServers(d) /\ SameServersOf(d)
      BY <1>0, <1>3, <3>1 DEF SameWithServers, SameServersOf
    <3>3. Aside(d)
      BY <1>0, <1>3, <3>2 DEF Aside
    <3> QED  BY <1>0, <1>3, <3>3, WorkerStays
  <2> QED  BY <2>1, <2>2
<1>5. NameNodeInv'
  <2>1. \A z \in Servers \ {s} : net'[z][NameNode] = net[z][NameNode]
    BY <1>0, Channels1
  <2> QED  BY <1>0, <1>2, <2>1, NameNodeStays DEF IInv
<1>6. ServerInv'
  <2> SUFFICES ASSUME NEW z \in Servers
               PROVE  (/\ server[z].stage = "init" <=> connected[z] # OnChannel(Bgs, z)
                       /\ server[z].down = Cardinality(ShutDownsAt(z, OnChannel(Bgs, z)))
                       /\ server[z].stage = "exited" <=> server[z].down = Cardinality(Clients))'
    BY DEF ServerInv
  <2>1. CASE z = s
    BY <2>1 DEF ServerOK
  <2>2. CASE z # s
    <3>1. \A d \in OnChannel(Bgs, z) : net'[d][z] = net[d][z]
      BY <1>3, <2>2, Channels1
    <3>2. ShutDownsAt(z, OnChannel(Bgs, z))' = ShutDownsAt(z, OnChannel(Bgs, z))
      BY <1>0, <3>1 DEF ShutDownsAt, Down
    <3> QED  BY <1>0, <2>2, <3>2 DEF IInv, ServerInv
  <2> QED  BY <2>1, <2>2
<1>7. CreatingInv'
  <2>1. \A b \in Bgs : \A tb \in Tables : QueuedFor(b, tb) => QueuedFor(b, tb)'
    BY <1>0, <1>2 DEF QueuedFor, SameToBgs, SameFromBgs
  <2>2. \A c \in Clients : \A tb \in Tables : Answered(c, tb)' <=> Answered(c, tb)
    BY <1>0, <1>2, Workers DEF Answered, SameToBgs
  <2> QED  BY <1>0, <2>1, <2>2, CreatingStays DEF IInv
<1> QED  BY <1>1, <1>2, <1>4, <1>5, <1>6, <1>7, PartsNext

\* The next request or reply is taken,
LEMMA RequestsTaken ==
  ASSUME NEW q \in Seq(Message), q # << >>, NEW type, Requests(q, type)
  PROVE  /\ \E tb \in Tables : Head(q) = TableMsg(type, tb)
         /\ Requests(Tail(q), type) /\ ~Holds(Tail(q), Head(q))
<1> DEFINE a == Tail(q)
<1>1. /\ Head(q) = q[1] /\ Len(q) \in Nat \ {0} /\ DOMAIN q = 1 .. Len(q)
      /\ DOMAIN a = 1 .. Len(q) - 1 /\ \A i \in 1 .. Len(q) - 1 : a[i] = q[i + 1]
  BY Taken
<1>2. /\ \A i \in 1 .. Len(q) : \E tb \in Tables : q[i] = TableMsg(type, tb)
      /\ \A i, j \in 1 .. Len(q) : q[i] = q[j] => i = j
  BY <1>1 DEF Requests
<1> HIDE DEF a
<1>3. 1 \in 1 .. Len(q) /\ \A i \in 1 .. Len(q) - 1 : i + 1 \in 1 .. Len(q) /\ i + 1 # 1
  <2> DEFINE L == Len(q)
  <2>1. L \in Nat \ {0}
    BY <1>1
  <2> HIDE DEF L
  <2>2. 1 \in 1 .. L /\ \A i \in 1 .. L - 1 : i + 1 \in 1 .. L /\ i + 1 # 1
    BY <2>1
  <2> QED  BY <2>2 DEF L
<1>4. \E tb \in Tables : Head(q) = TableMsg(type, tb)
  BY <1>1, <1>2, <1>3
<1>5. ~Holds(a, Head(q))
  BY <1>1, <1>2, <1>3 DEF Holds
<1>6. \A i \in DOMAIN a : \E tb \in Tables : a[i] = TableMsg(type, tb)
  BY <1>1, <1>2, <1>3
<1>7. ASSUME NEW i \in DOMAIN a, NEW j \in DOMAIN a, a[i] = a[j] PROVE i = j
  <2>1. i + 1 = j + 1
    BY <1>1, <1>2, <1>3, <1>7
  <2> QED  BY <1>1, <2>1
<1>8. Requests(a, type)
  BY <1>6, <1>7 DEF Requests
<1> QED  BY <1>4, <1>5, <1>8 DEF a

\* and a new one is put behind the others.
LEMMA RequestsAppended ==
  ASSUME NEW q \in Seq(Message), NEW type, Requests(q, type), NEW tb \in Tables,
         TableMsg(type, tb) \in Message, ~Holds(q, TableMsg(type, tb))
  PROVE  Requests(Append(q, TableMsg(type, tb)), type)
<1> DEFINE m == TableMsg(type, tb)
           a == Append(q, m)
<1>1. /\ Len(q) \in Nat /\ DOMAIN q = 1 .. Len(q)
      /\ DOMAIN a = 1 .. Len(q) + 1 /\ (\A i \in 1 .. Len(q) : a[i] = q[i]) /\ a[Len(q) + 1] = m
  BY Appended
<1>2. /\ \A i \in 1 .. Len(q) : \E u \in Tables : q[i] = TableMsg(type, u)
      /\ \A i, j \in 1 .. Len(q) : q[i] = q[j] => i = j
      /\ \A i \in 1 .. Len(q) : q[i] # m
  BY <1>1 DEF Requests, Holds
<1> HIDE DEF a
<1>3. \A i \in DOMAIN a : i \in 1 .. Len(q) \/ i = Len(q) + 1
  BY <1>1
<1>4. \A i \in DOMAIN a : \E u \in Tables : a[i] = TableMsg(type, u)
  BY <1>1, <1>2, <1>3
<1>5. \A i, j \in DOMAIN a : a[i] = a[j] => i = j
  <2> HIDE DEF m
  <2> QED  BY <1>1, <1>2, <1>3
<1>6. Requests(a, type)
  BY <1>4, <1>5 DEF Requests
<1> QED  BY <1>6 DEF a

\* HandleCreateTable of a server.
LEMMA ServerCreateTableKeeps ==
  ASSUME IInv, NEW s \in Servers, ServerCreateTable(s)
  PROVE  IInv'
<1> DEFINE q == net[NameNode][s]
           r == net[s][NameNode]
<1>1. /\ server[s].stage = "run" /\ q # << >>
      /\ net' = Sent(Received(NameNode, s), s, {NameNode}, TableMsg("CreateTableReply", Head(q).table))
      /\ server' = [server EXCEPT ![s].tables = @ \cup {Head(q).table}]
      /\ UNCHANGED <<nameNode, connected, creating, bg, tables, thread, clocks>>
  BY DEF ServerCreateTable, Incoming, Content
<1>2. /\ s \in Entities /\ NameNode \in Entities /\ s # NameNode /\ s \notin Bgs
      /\ s \in Receivers(NameNode) /\ NameNode \in Receivers(s)
      /\ q \in Seq(Message) /\ r \in Seq(Message) /\ ServerTables(s)
  BY Channels1, EntitiesAre, Kinds, WorkerTypes DEF IInv, TablesInv
<1>3. /\ \E tb \in Tables : Head(q) = TableMsg("CreateTable", tb)
      /\ Requests(Tail(q), "CreateTable") /\ ~Holds(Tail(q), Head(q))
  <2>1. Requests(q, "CreateTable")
    BY <1>2 DEF ServerTables
  <2> HIDE DEF q
  <2> QED  BY <1>1, <1>2, <2>1, RequestsTaken
<1>4. PICK tb \in Tables : Head(q) = TableMsg("CreateTable", tb)
  BY <1>3
<1> DEFINE m == TableMsg("CreateTableReply", tb)
<1>5. Head(q).table = tb /\ m \in Message
  BY <1>4, Messages
<1>6. /\ Told(s, tb) /\ tb \notin server[s].tables /\ ~Replied(s, tb) /\ creating[tb].known
      /\ \A u \in Tables : Holds(Tail(q), TableMsg("CreateTable", u)) <=> Told(s, u) /\ u # tb
  <2>1. \A u : Holds(q, TableMsg("CreateTable", u)) <=> Head(q) = TableMsg("CreateTable", u) \/ Holds(Tail(q), TableMsg("CreateTable", u))
    <3> HIDE DEF q
    <3> QED  BY <1>1, <1>2, HoldsTaken
  <2>2. \A u : TableMsg("CreateTable", tb) = TableMsg("CreateTable", u) <=> u = tb
    BY DEF TableMsg
  <2>3. \A u : Told(s, u) <=> u = tb \/ Holds(Tail(q), TableMsg("CreateTable", u))
    BY <1>4, <2>1, <2>2 DEF Told
  <2>4. ~Holds(Tail(q), TableMsg("CreateTable", tb))
    BY <1>3, <1>4
  <2>5. Told(s, tb) /\ tb \notin server[s].tables /\ ~Replied(s, tb) /\ creating[tb].known
    BY <1>2, <2>3 DEF ServerTables
  <2> QED  BY <2>3, <2>4, <2>5
<1>7. nameNode.stage # "init" /\ s \in connected[NameNode]
  <2>1. nameNode.stage # "init"
    BY <1>2, <1>6 DEF ServerTables
  <2> QED  BY <2>1, AllConnected
<1>8. /\ IsNet(net') /\ net'[NameNode][s] = Tail(q)
      /\ net'[s][NameNode] = Append(r, m)
      /\ \A x \in Entities : \A y \in Receivers(x) :
           ~(x = NameNode /\ y = s) /\ ~(x = s /\ y = NameNode) => net'[x][y] = net[x][y]
  <2> DEFINE n == Received(NameNode, s)
             R == {NameNode}
  <2>1. /\ IsNet(n)
        /\ \A x \in Entities : \A y \in Receivers(x) :
             n[x][y] = IF x = NameNode /\ y = s THEN Tail(net[NameNode][s]) ELSE net[x][y]
    BY <1>1, <1>2, ReceivedNet DEF IInv, ShapeInv
  <2>2. net' = Sent(n, s, R, m)
    BY <1>1, <1>5
  <2> HIDE DEF n, R, m
  <2>3. /\ IsNet(net')
        /\ \A x \in Entities : \A y \in Receivers(x) :
             net'[x][y] = IF x = s /\ y \in R THEN Append(n[x][y], m) ELSE n[x][y]
    BY <1>2, <1>5, <2>1, <2>2, SentNet
  <2>4. n[s][NameNode] = r /\ n[NameNode][s] = Tail(q)
    BY <1>2, <2>1
  <2>5. net'[NameNode][s] = Tail(q) /\ net'[s][NameNode] = Append(r, m)
    BY <1>2, <2>3, <2>4 DEF R
  <2>6. \A x \in Entities : \A y \in Receivers(x) :
          ~(x = NameNode /\ y = s) /\ ~(x = s /\ y = NameNode) => net'[x][y] = net[x][y]
    BY <2>1, <2>3 DEF R
  <2> QED  BY <2>3, <2>5, <2>6
<1>9. /\ server' \in [Servers -> [stage : {"init", "run", "exited"}, tables : SUBSET Tables, down : Nat]]
      /\ \A z \in Servers \ {s} : server'[z] = server[z]
      /\ server'[s].stage = "run" /\ server'[s].down = server[s].down /\ server'[s].tables = server[s].tables \cup {tb}
  <2> DEFINE x == [server[s] EXCEPT !.tables = @ \cup {tb}]
  <2>1. server \in [Servers -> [stage : {"init", "run", "exited"}, tables : SUBSET Tables, down : Nat]]
    BY DEF IInv, ShapeInv
  <2>2. /\ x \in [stage : {"init", "run", "exited"}, tables : SUBSET Tables, down : Nat]
        /\ x.stage = "run" /\ x.down = server[s].down /\ x.tables = server[s].tables \cup {tb}
    BY <1>1, <2>1
  <2>3. server' = [server EXCEPT ![s] = x]
    BY <1>1, <1>5
  <2> HIDE DEF x
  <2> QED  BY <2>1, <2>2, <2>3
<1>10. /\ UNCHANGED <<nameNode, connected, creating, bg, tables, thread, clocks>>
       /\ server[s].stage = "run"
  BY <1>1
<1>11. ServerStep(s)
  <2>1. \A x \in Entities : \A y \in Receivers(x) : x # s /\ y # s => net'[x][y] = net[x][y]
    BY <1>8
  <2>2. connected \in [Servers \cup {NameNode} -> SUBSET (Bgs \cup Servers)]
    BY DEF IInv, ShapeInv
  <2> QED  BY <1>8, <1>9, <1>10, <2>1, <2>2 DEF ServerStep
<1>12. ASSUME NEW d \in OnChannel(Bgs, s)
       PROVE  net'[d][s] = net[d][s] /\ net'[s][d] = net[s][d] /\ d \in Bgs /\ d # NameNode
  <2>1. d \in Bgs /\ d \in Entities /\ d # NameNode /\ s \in Receivers(d) /\ d \in Receivers(s)
    BY Channels1, Kinds, EntitiesAre
  <2> QED  BY <1>2, <1>8, <2>1
<1>13. ServerOK(s)'
  <2>1. ShutDownsAt(s, OnChannel(Bgs, s))' = ShutDownsAt(s, OnChannel(Bgs, s))
    BY <1>10, <1>12 DEF ShutDownsAt, Down
  <2> QED  BY <1>9, <1>10, <2>1 DEF IInv, ShapeInv, ServerInv, ServerOK
<1>14. ASSUME NEW d \in OnChannel(Bgs, s) PROVE (ToServer(d, s) /\ FromServer(s, d) /\ CountsOK(d))'
  <2>1. WorkerOK(d) /\ d \in Bgs /\ s \in OnChannel(Servers, d) /\ d # s
    BY <1>12, <1>2, Parts, Channels1
  <2>2. \A z \in OnChannel(Servers, d) : server'[z].stage = server[z].stage
    BY <1>9, <1>10, OnChannels
  <2>3. SameWithServers(d) /\ SameServersOf(d) /\ net'[NameNode][d] = net[NameNode][d]
    <3>1. \A z \in OnChannel(Servers, d) : /\ z \in Entities /\ d \in Receivers(z) /\ z \in Receivers(d) /\ z # NameNode
      BY <2>1, Channels1, Kinds
    <3>2. d \in Entities /\ d # NameNode /\ d \in Receivers(NameNode)
      BY <2>1, Channels1, Kinds
    <3>3. SameWithServers(d)
      <4> SUFFICES ASSUME NEW z \in OnChannel(Servers, d) PROVE net'[d][z] = net[d][z] /\ net'[z][d] = net[z][d]
        BY DEF SameWithServers
      <4> HIDE DEF q, r, m
      <4> QED  BY <1>8, <2>1, <3>1, <3>2
    <3>4. net'[NameNode][d] = net[NameNode][d]
      BY <1>2, <1>8, <2>1, <3>2
    <3>5. SameServersOf(d)
      BY <1>10, <2>2 DEF SameServersOf
    <3> QED  BY <3>3, <3>4, <3>5
  <2>4. ServersOK(d)' /\ CountsOK(d)'
    BY <1>10, <2>1, <2>3, ServersOKStays, CountsOKStay DEF WorkerOK
  <2> QED  BY <2>1, <2>4 DEF ServersOK
<1>15. TablesInv'
  <2>1. /\ \A u \in Tables : Told(s, u)' <=> Told(s, u) /\ u # tb
        /\ \A u \in Tables : Replied(s, u)' <=> Replied(s, u) \/ u = tb
        /\ Requests(net'[NameNode][s], "CreateTable") /\ Requests(net'[s][NameNode], "CreateTableReply")
    <3>1. \A u \in Tables : Told(s, u)' <=> Told(s, u) /\ u # tb
      BY <1>6, <1>8 DEF Told
    <3>2. \A u : m = TableMsg("CreateTableReply", u) <=> u = tb
      BY DEF TableMsg
    <3>3. \A u \in Tables : Replied(s, u)' <=> Replied(s, u) \/ u = tb
      <4> HIDE DEF m, r
      <4>1. \A k : Holds(Append(r, m), k) <=> Holds(r, k) \/ m = k
        BY <1>2, <1>5, HoldsAppended
      <4> QED  BY <1>8, <3>2, <4>1 DEF Replied, r
    <3>4. Requests(net'[s][NameNode], "CreateTableReply")
      <4>1. Requests(r, "CreateTableReply") /\ ~Holds(r, TableMsg("CreateTableReply", tb))
        BY <1>2, <1>6, <1>7 DEF ServerTables, Replied
      <4> HIDE DEF r
      <4>2. Requests(Append(r, TableMsg("CreateTableReply", tb)), "CreateTableReply")
        BY <1>2, <1>5, <4>1, RequestsAppended
      <4> QED  BY <1>8, <4>2
    <3> QED  BY <1>3, <1>8, <3>1, <3>3, <3>4
  <2>2. ServerTables(s)'
    <3>1. s \in connected'[NameNode]
      BY <1>7, <1>10
    <3> HIDE DEF q, r, m
    <3>2. ASSUME NEW u \in Tables
          PROVE  (/\ creating[u].known <=> Told(s, u) \/ u \in server[s].tables
                  /\ ~(Told(s, u) /\ u \in server[s].tables)
                  /\ Replied(s, u) => u \in server[s].tables
                  /\ creating[u].known => server[s].stage # "init" /\ nameNode.stage # "init")'
      BY <1>2, <1>6, <1>9, <1>10, <2>1 DEF ServerTables
    <3> QED  BY <2>1, <3>1, <3>2 DEF ServerTables
  <2>3. ASSUME NEW z \in Servers \ {s}
        PROVE  ServerTables(z)' /\ \A u \in Tables : Replied(z, u)' <=> Replied(z, u)
    <3>1. net'[NameNode][z] = net[NameNode][z] /\ net'[z][NameNode] = net[z][NameNode]
      <4>1. z \in Entities /\ z \in Receivers(NameNode) /\ NameNode \in Receivers(z) /\ z # NameNode
        BY Channels1, Kinds
      <4> QED  BY <1>2, <1>8, <4>1
    <3>2. server'[z] = server[z] /\ ServerTables(z)
      BY <1>9 DEF IInv, TablesInv
    <3> QED  BY <1>10, <3>1, <3>2 DEF ServerTables, Told, Replied
  <2>4. ASSUME NEW u \in Tables PROVE CreatedOn(u)' = CreatedOn(u)
    <3>1. \A z \in Servers : (u \in server[z].tables /\ ~Replied(z, u))' <=> u \in server[z].tables /\ ~Replied(z, u)
      BY <1>6, <1>9, <2>1, <2>3
    <3> QED  BY <3>1 DEF CreatedOn
  <2>5. \A u \in Tables : creating'[u].servers = Cardinality(CreatedOn(u)')
    BY <1>10, <2>4 DEF IInv, TablesInv
  <2> QED  BY <2>2, <2>3, <2>5 DEF TablesInv
<1> QED  BY <1>7, <1>11, <1>13, <1>14, <1>15, ServerStepKeeps

\* InitServer.
LEMMA ServerConnectionKeeps ==
  ASSUME IInv, NEW s \in Servers, NEW b \in OnChannel(Bgs, s), ServerConnection(s, b)
  PROVE  IInv'
<1> DEFINE all == connected[s] \cup {b}
           C == OnChannel(Bgs, s)
           m == Msg("ClientStart")
           q == net[b][s]
<1>1. /\ server[s].stage = "init" /\ q # << >> /\ Head(q).type = "ClientConnect"
      /\ connected' = [connected EXCEPT ![s] = all]
      /\ UNCHANGED <<nameNode, creating, bg, tables, thread, clocks>>
  BY DEF ServerConnection, Incoming
<1>2. IF Cardinality(all) = Cardinality(Clients)
      THEN server' = [server EXCEPT ![s].stage = "run"] /\ net' = Sent(Received(b, s), s, all, m)
      ELSE net' = Received(b, s) /\ UNCHANGED server
  BY DEF ServerConnection
<1>3. /\ b \in Bgs /\ b \in Entities /\ s \in Entities /\ s \in Receivers(b) /\ s # NameNode /\ b # s /\ m \in Message
      /\ \A d \in C : d \in Bgs /\ d \in Entities /\ d \in Receivers(s) /\ s \in Receivers(d) /\ d # s /\ d # NameNode
                      /\ s \in OnChannel(Servers, d) /\ WorkerOK(d)
      /\ q \in Seq(Message) /\ NameNode \in Receivers(s) /\ s \in Receivers(NameNode) /\ NameNode \in Entities
      /\ NameNode \notin all
  <2>1. connected[s] \subseteq C
    BY DEF IInv, ShapeInv
  <2> QED  BY <2>1, Channels1, EntitiesAre, Kinds, Messages, Parts, WorkerTypes DEF IInv
<1>4. IsFiniteSet(C) /\ Cardinality(C) = Cardinality(Clients) /\ all \in SUBSET C /\ connected[s] \subseteq C
  <2>1. connected[s] \subseteq C
    BY DEF IInv, ShapeInv
  <2>2. ChannelOf(s) \in Channels
    BY ServersKnown
  <2> QED  BY <2>1, <2>2, NumberOnChannel
<1>5. Cardinality(all) = Cardinality(Clients) <=> all = C
  <2> HIDE DEF all, C
  <2> QED  BY <1>4, CountsAll
<1>6. bg[b].stage = "handshake" /\ b \notin connected[s] /\ q = << Msg("ClientConnect") >>
  <2>1. ToServer(b, s)
    BY <1>3 DEF WorkerOK, ServersOK
  <2>2. b \notin connected[s]
    <3> SUFFICES ASSUME b \in connected[s] PROVE FALSE
      OBVIOUS
    <3>1. /\ Head(q) = q[1] /\ Len(q) \in Nat \ {0} /\ DOMAIN q = 1 .. Len(q)
      <4> HIDE DEF q
      <4> QED  BY <1>1, <1>3, Taken
    <3>2. 1 \in DOMAIN q
      BY <3>1
    <3>3. q[1] = Msg("ClientSendOpLog") \/ q[1] = Msg("ClientShutDown")
      BY <2>1, <3>2 DEF ToServer
    <3> QED  BY <1>1, <3>1, <3>3, Messages
  <2> QED  BY <1>1, <2>1, <2>2 DEF ToServer
<1>7. \A d \in C : bg[d].stage \in {"connect", "handshake"} /\ net[s][d] = << >>
  BY <1>1, <1>3 DEF WorkerOK, ServersOK, FromServer
<1>8. all = C => \A d \in C : bg[d].stage = "handshake"
  <2> SUFFICES ASSUME all = C, NEW d \in C PROVE bg[d].stage = "handshake"
    OBVIOUS
  <2>1. CASE d = b
    BY <1>6, <2>1
  <2>2. CASE d # b
    <3>1. d \in connected[s] /\ ToServer(d, s)
      BY <1>3, <2>2 DEF WorkerOK, ServersOK
    <3> QED  BY <1>7, <3>1 DEF ToServer
  <2> QED  BY <2>1, <2>2
<1>9. /\ IsNet(net') /\ net'[b][s] = << >>
      /\ \A x \in Entities : \A y \in Receivers(x) : x # s /\ ~(x = b /\ y = s) => net'[x][y] = net[x][y]
      /\ net'[s][NameNode] = net[s][NameNode]
      /\ \A d \in C : net'[s][d] = IF all = C THEN << m >> ELSE << >>
  <2> DEFINE n == Received(b, s)
  <2>1. /\ IsNet(n)
        /\ \A x \in Entities : \A y \in Receivers(x) : n[x][y] = IF x = b /\ y = s THEN Tail(net[b][s]) ELSE net[x][y]
    BY <1>1, <1>3, ReceivedNet DEF IInv, ShapeInv
  <2>2. Tail(net[b][s]) = << >>
    BY <1>6, OneMessage
  <2>3. CASE all = C
    <3>1. net' = Sent(n, s, all, m)
      BY <1>2, <1>5, <2>3
    <3> HIDE DEF n, m, all, C
    <3>2. /\ IsNet(net')
          /\ \A x \in Entities : \A y \in Receivers(x) :
               net'[x][y] = IF x = s /\ y \in all THEN Append(n[x][y], m) ELSE n[x][y]
      BY <1>3, <2>1, <3>1, SentNet
    <3>3. \A d \in C : net'[s][d] = << m >>
      <4> SUFFICES ASSUME NEW d \in C PROVE net'[s][d] = << m >>
        OBVIOUS
      <4>1. n[s][d] = << >>
        BY <1>3, <1>7, <2>1
      <4>2. net'[s][d] = Append(<< >>, m)
        BY <1>3, <2>3, <3>2, <4>1
      <4> QED  BY <4>2, OneMessage
    <3>4. net'[s][NameNode] = net[s][NameNode]
      BY <1>3, <2>1, <3>2
    <3>5. net'[b][s] = << >>
      BY <1>3, <2>1, <2>2, <3>2
    <3>6. \A x \in Entities : \A y \in Receivers(x) : x # s /\ ~(x = b /\ y = s) => net'[x][y] = net[x][y]
      BY <2>1, <3>2
    <3> QED  BY <2>3, <3>2, <3>3, <3>4, <3>5, <3>6
  <2>4. CASE all # C
    <3>1. net' = n
      BY <1>2, <1>5, <2>4
    <3> HIDE DEF n
    <3>2. \A d \in C : net'[s][d] = << >>
      BY <1>3, <1>7, <2>1, <3>1
    <3>3. net'[s][NameNode] = net[s][NameNode] /\ net'[b][s] = << >>
      BY <1>3, <2>1, <2>2, <3>1
    <3> QED  BY <2>1, <2>4, <3>1, <3>2, <3>3
  <2> QED  BY <2>3, <2>4
<1>10. /\ server' \in [Servers -> [stage : {"init", "run", "exited"}, tables : SUBSET Tables, down : Nat]]
       /\ \A z \in Servers \ {s} : server'[z] = server[z]
       /\ server'[s].stage = (IF all = C THEN "run" ELSE "init")
       /\ server'[s].down = server[s].down /\ server'[s].tables = server[s].tables
  <2>1. server \in [Servers -> [stage : {"init", "run", "exited"}, tables : SUBSET Tables, down : Nat]]
    BY DEF IInv, ShapeInv
  <2>2. CASE all = C
    <3> DEFINE x == [server[s] EXCEPT !.stage = "run"]
    <3>1. server' = [server EXCEPT ![s] = x]
      BY <1>2, <1>5, <2>2
    <3>2. /\ x \in [stage : {"init", "run", "exited"}, tables : SUBSET Tables, down : Nat]
          /\ x.stage = "run" /\ x.down = server[s].down /\ x.tables = server[s].tables
      BY <2>1
    <3> HIDE DEF x
    <3> QED  BY <2>1, <2>2, <3>1, <3>2
  <2>3. CASE all # C
    BY <1>1, <1>2, <1>5, <2>1, <2>3
  <2> QED  BY <2>2, <2>3
<1>11. /\ connected' \in [Servers \cup {NameNode} -> SUBSET (Bgs \cup Servers)]
       /\ connected'[s] = all /\ connected'[NameNode] = connected[NameNode]
       /\ \A z \in Servers \ {s} : connected'[z] = connected[z]
  <2>1. connected \in [Servers \cup {NameNode} -> SUBSET (Bgs \cup Servers)] /\ all \in SUBSET (Bgs \cup Servers)
    BY <1>3, <1>4 DEF IInv, ShapeInv
  <2> HIDE DEF all
  <2> QED  BY <1>1, <1>3, <2>1
<1>12. UNCHANGED <<nameNode, creating, bg, tables, thread, clocks>> /\ server[s].stage = "init"
  BY <1>1
<1> HIDE DEF all, m
<1>13. ServerStep(s)
  <2>1. \A x \in Entities : \A y \in Receivers(x) : x # s /\ y # s => net'[x][y] = net[x][y]
    BY <1>9
  <2> QED  BY <1>9, <1>10, <1>11, <1>12, <2>1 DEF ServerStep
<1>14. \A d \in C : d # b => net'[d][s] = net[d][s]
  BY <1>3, <1>9
<1>15. ServerOK(s)'
  <2>1. ~Down(b)
    BY <1>3, <1>6, NotDown DEF Runs
  <2>2. ShutDownsAt(s, OnChannel(Bgs, s))' = ShutDownsAt(s, OnChannel(Bgs, s))
    BY <1>12, <1>14, <2>1 DEF ShutDownsAt, Down
  <2>3. server[s].down # Cardinality(Clients) /\ server[s].down = Cardinality(ShutDownsAt(s, OnChannel(Bgs, s)))
    BY <1>12 DEF IInv, ServerInv
  <2> QED  BY <1>4, <1>10, <1>11, <2>2, <2>3 DEF ServerOK
<1>16. ASSUME NEW d \in C PROVE (ToServer(d, s) /\ FromServer(s, d) /\ CountsOK(d))'
  <2>1. ToServer(d, s) /\ FromServer(s, d) /\ CountsOK(d) /\ d \in Bgs
    BY <1>3 DEF WorkerOK, ServersOK
  <2>2. ToServer(d, s)'
    <3>1. CASE d = b
      BY <1>6, <1>9, <1>11, <1>12, <3>1 DEF ToServer, all
    <3>2. CASE d # b
      <4>1. d \in connected'[s] <=> d \in connected[s]
        BY <1>11, <3>2 DEF all
      <4> QED  BY <1>12, <1>14, <2>1, <3>2, <4>1 DEF ToServer, Down
    <3> QED  BY <3>1, <3>2
  <2>3. FromServer(s, d)'
    BY <1>7, <1>8, <1>9, <1>10, <1>12 DEF FromServer, m
  <2>4. CountsOK(d)'
    <3>1. /\ net'[NameNode][d] = net[NameNode][d] /\ NameNode # s
          /\ \A z \in OnChannel(Servers, d) \ {s} : net'[z][d] = net[z][d] /\ server'[z] = server[z] /\ z # NameNode
      <4>1. \A z \in OnChannel(Servers, d) : z \in Servers /\ z \in Entities /\ d \in Receivers(z) /\ z # b /\ z # NameNode
        BY <1>3, <2>1, Channels1, EntitiesAre, Kinds
      <4>2. d \in Receivers(NameNode)
        BY <2>1, Channels1
      <4> QED  BY <1>3, <1>9, <1>10, <4>1, <4>2
    <3>2. s \notin StartsAt(d) /\ s \notin StartsAt(d)'
      BY <1>3, <1>9, <1>10, <1>12 DEF StartsAt, m
    <3>3. StartsAt(d)' = StartsAt(d)
      <4>1. \A e \in Peers(d) \ {s} : e \in StartsAt(d)' <=> e \in StartsAt(d)
        BY <1>12, <3>1 DEF StartsAt, Peers
      <4> QED  BY <3>2, <4>1 DEF StartsAt, Peers
    <3>4. AcksAt(d)' = AcksAt(d)
      <4>1. s \notin AcksAt(d) /\ s \notin AcksAt(d)'
        BY <1>3, <1>10, <1>12 DEF AcksAt, Exited
      <4>2. \A e \in Peers(d) \ {s} : e \in AcksAt(d)' <=> e \in AcksAt(d)
        <5>1. \A e \in Peers(d) \ {s} : net'[e][d] = net[e][d] /\ (Exited(e)' <=> Exited(e))
          BY <1>12, <2>1, <3>1, Channels1, Kinds DEF Peers, Exited
        <5> QED  BY <5>1 DEF AcksAt, Peers
      <4> QED  BY <4>1, <4>2 DEF AcksAt, Peers
    <3> QED  BY <1>12, <2>1, <3>3, <3>4 DEF CountsOK
  <2> QED  BY <2>2, <2>3, <2>4
<1>17. TablesInv'
  <2>1. SameToServers /\ SameFromServers
    <3>1. \A z \in Servers : net'[z][NameNode] = net[z][NameNode]
      BY <1>9, Channels1, Kinds, <1>3
    <3>2. \A z \in Servers : net'[NameNode][z] = net[NameNode][z]
      BY <1>9, Channels1, Kinds, <1>3
    <3> QED  BY <3>1, <3>2 DEF SameToServers, SameFromServers
  <2>2. \A z \in Servers : server'[z].tables = server[z].tables /\ (server[z].stage # "init" => server'[z].stage # "init")
    BY <1>10, <1>12
  <2> QED  BY <1>11, <1>12, <2>1, <2>2, TablesStay DEF IInv
<1> QED  BY <1>9, <1>13, <1>15, <1>16, <1>17, ServerStepKeeps

\* HandleShutDownMsg of a server.
LEMMA ServerShutDownKeeps ==
  ASSUME IInv, NEW s \in Servers, NEW b \in OnChannel(Bgs, s), ServerShutDown(s, b)
  PROVE  IInv'
<1> DEFINE down == server[s].down + 1
           last == down = Cardinality(Clients)
           C == OnChannel(Bgs, s)
           m == Msg("ServerShutDownAck")
           q == net[b][s]
<1>1. /\ server[s].stage = "run" /\ q # << >> /\ Head(q).type = "ClientShutDown"
      /\ server' = [server EXCEPT ![s].down = down, ![s].stage = IF last THEN "exited" ELSE "run"]
      /\ net' = IF last THEN Sent(Received(b, s), s, connected[s], m) ELSE Received(b, s)
      /\ UNCHANGED <<nameNode, connected, creating, bg, tables, thread, clocks>>
  BY DEF ServerShutDown, Incoming
<1>2. /\ b \in Bgs /\ b \in Entities /\ s \in Entities /\ s \in Receivers(b) /\ s # NameNode /\ b # s /\ m \in Message
      /\ \A d \in C : d \in Bgs /\ d \in Entities /\ d \in Receivers(s) /\ s \in Receivers(d) /\ d # s /\ d # NameNode
                      /\ s \in OnChannel(Servers, d) /\ WorkerOK(d)
      /\ q \in Seq(Message) /\ NameNode \in Receivers(s) /\ s \in Receivers(NameNode) /\ NameNode \in Entities
      /\ NameNode \notin C
  BY Channels1, EntitiesAre, Kinds, Messages, Parts, WorkerTypes DEF IInv
<1>3. /\ IsFiniteSet(C) /\ Cardinality(C) = Cardinality(Clients) /\ connected[s] = C
      /\ server[s].down = Cardinality(ShutDownsAt(s, C)) /\ ShutDownsAt(s, C) \in SUBSET C
  <2>1. ChannelOf(s) \in Channels
    BY ServersKnown
  <2>2. connected[s] = C
    BY <1>1, AllConnected
  <2>3. server[s].down = Cardinality(ShutDownsAt(s, C)) /\ ShutDownsAt(s, C) \in SUBSET C
    BY DEF IInv, ServerInv, ShutDownsAt
  <2> QED  BY <2>1, <2>2, <2>3, NumberOnChannel
<1>4. Down(b) /\ Tail(q) = << >>
  <2>1. /\ Head(q) = q[1] /\ Len(q) \in Nat \ {0} /\ DOMAIN q = 1 .. Len(q) /\ (Tail(q) = << >> <=> Len(q) = 1)
    <3> HIDE DEF q
    <3> QED  BY <1>1, <1>2, Taken
  <2>2. 1 \in DOMAIN q
    BY <2>1
  <2>3. ToServer(b, s) /\ b \in connected[s]
    BY <1>2, <1>3 DEF WorkerOK, ServersOK
  <2>4. q[1] = Msg("ClientSendOpLog") \/ (q[1] = Msg("ClientShutDown") /\ Down(b) /\ 1 = Len(q))
    BY <2>2, <2>3 DEF ToServer
  <2> QED  BY <1>1, <2>1, <2>4, Messages
<1>5. /\ UNCHANGED <<nameNode, connected, creating, bg, tables, thread, clocks>>
      /\ server[s].stage = "run"
  BY <1>1
<1>6. \A d \in C : net[s][d] = << >> \/ (net[s][d] = << Msg("ClientStart") >> /\ bg[d].stage = "handshake")
  BY <1>2, <1>5 DEF WorkerOK, ServersOK, FromServer
<1>7. ShutDownsAt(s, C) \cup {b} \in SUBSET C /\ b \notin ShutDownsAt(s, C)
      /\ down = Cardinality(ShutDownsAt(s, C) \cup {b}) /\ (last <=> ShutDownsAt(s, C) \cup {b} = C)
  <2> DEFINE S == ShutDownsAt(s, C)
  <2>1. S \in SUBSET C /\ b \in C /\ b \notin S /\ server[s].down = Cardinality(S)
    BY <1>1, <1>3 DEF ShutDownsAt
  <2> DEFINE T == S \cup {b}
  <2>2. IsFiniteSet(C) /\ Cardinality(C) = Cardinality(Clients)
    BY <1>3
  <2> HIDE DEF S, C
  <2>3. Cardinality(T) = Cardinality(S) + 1 /\ T \in SUBSET C
    BY <2>1, <2>2, CountsAll
  <2> HIDE DEF T
  <2>4. Cardinality(T) = Cardinality(C) <=> T = C
    BY <2>2, <2>3, CountsAll
  <2> QED  BY <2>1, <2>2, <2>3, <2>4 DEF S, T
<1>8. last => \A d \in C : Down(d) /\ bg[d].stage = "run" /\ net[s][d] = << >>
  <2> SUFFICES ASSUME last, NEW d \in C PROVE Down(d) /\ bg[d].stage = "run" /\ net[s][d] = << >>
    OBVIOUS
  <2>1. Down(d)
    BY <1>4, <1>7 DEF ShutDownsAt
  <2>2. bg[d].stage \in Runs
    BY <1>2, <2>1, DownMeans
  <2>3. bg[d].stage # "exited"
    <3>1. ~Exited(s)
      BY <1>2, <1>5 DEF Exited
    <3>2. s \in Peers(d)
      BY <1>2 DEF Peers
    <3> QED  BY <1>2, <3>1, <3>2, WorkerGone
  <2> QED  BY <1>6, <2>1, <2>2, <2>3 DEF Runs
<1>9. /\ IsNet(net') /\ net'[b][s] = << >>
      /\ \A x \in Entities : \A y \in Receivers(x) : x # s /\ ~(x = b /\ y = s) => net'[x][y] = net[x][y]
      /\ net'[s][NameNode] = net[s][NameNode]
      /\ \A d \in C : net'[s][d] = IF last THEN << m >> ELSE net[s][d]
  <2> DEFINE n == Received(b, s)
  <2>1. /\ IsNet(n)
        /\ \A x \in Entities : \A y \in Receivers(x) : n[x][y] = IF x = b /\ y = s THEN Tail(net[b][s]) ELSE net[x][y]
    BY <1>1, <1>2, ReceivedNet DEF IInv, ShapeInv
  <2>2. Tail(net[b][s]) = << >>
    BY <1>4
  <2>3. CASE last
    <3>1. net' = Sent(n, s, C, m)
      BY <1>1, <1>3, <2>3
    <3> HIDE DEF n, m, C, last
    <3>2. /\ IsNet(net')
          /\ \A x \in Entities : \A y \in Receivers(x) :
               net'[x][y] = IF x = s /\ y \in C THEN Append(n[x][y], m) ELSE n[x][y]
      BY <1>2, <2>1, <3>1, SentNet
    <3>3. \A d \in C : net'[s][d] = << m >>
      <4> SUFFICES ASSUME NEW d \in C PROVE net'[s][d] = << m >>
        OBVIOUS
      <4>1. n[s][d] = << >>
        BY <1>2, <1>8, <2>1, <2>3
      <4>2. net'[s][d] = Append(<< >>, m)
        BY <1>2, <3>2, <4>1
      <4> QED  BY <4>2, OneMessage
    <3>4. net'[s][NameNode] = net[s][NameNode]
      BY <1>2, <2>1, <3>2
    <3>5. net'[b][s] = << >>
      BY <1>2, <2>1, <2>2, <3>2
    <3>6. \A x \in Entities : \A y \in Receivers(x) : x # s /\ ~(x = b /\ y = s) => net'[x][y] = net[x][y]
      BY <2>1, <3>2
    <3> QED  BY <2>3, <3>2, <3>3, <3>4, <3>5, <3>6
  <2>4. CASE ~last
    <3>1. net' = n
      BY <1>1, <2>4
    <3> HIDE DEF n, last
    <3>2. \A d \in C : net'[s][d] = net[s][d]
      BY <1>2, <2>1, <3>1
    <3>3. net'[s][NameNode] = net[s][NameNode] /\ net'[b][s] = << >>
      BY <1>2, <2>1, <2>2, <3>1
    <3> QED  BY <2>1, <2>4, <3>1, <3>2, <3>3
  <2> QED  BY <2>3, <2>4
<1>10. /\ server' \in [Servers -> [stage : {"init", "run", "exited"}, tables : SUBSET Tables, down : Nat]]
       /\ \A z \in Servers \ {s} : server'[z] = server[z]
       /\ server'[s].stage = (IF last THEN "exited" ELSE "run")
       /\ server'[s].down = down /\ server'[s].tables = server[s].tables
  <2> DEFINE next == IF last THEN "exited" ELSE "run"
             r == server[s]
             x == [r EXCEPT !.down = down, !.stage = next]
  <2>1. /\ server \in [Servers -> [stage : {"init", "run", "exited"}, tables : SUBSET Tables, down : Nat]]
        /\ r \in [stage : {"init", "run", "exited"}, tables : SUBSET Tables, down : Nat]
    BY DEF IInv, ShapeInv
  <2>2. down \in Nat /\ next \in {"init", "run", "exited"}
    BY <2>1
  <2>3. server' = [server EXCEPT ![s] = x]
    BY <1>1
  <2> HIDE DEF last, down, next, r
  <2>4. /\ x \in [stage : {"init", "run", "exited"}, tables : SUBSET Tables, down : Nat]
        /\ x.stage = next /\ x.down = down /\ x.tables = r.tables
    BY <2>1, <2>2
  <2> HIDE DEF x
  <2>5. server'[s] = x /\ \A z \in Servers \ {s} : server'[z] = server[z]
    BY <2>1, <2>3
  <2>6. server' \in [Servers -> [stage : {"init", "run", "exited"}, tables : SUBSET Tables, down : Nat]]
    BY <2>1, <2>3, <2>4
  <2> QED  BY <2>4, <2>5, <2>6 DEF next, r
<1> HIDE DEF m, last
<1>11. ServerStep(s)
  <2>1. \A x \in Entities : \A y \in Receivers(x) : x # s /\ y # s => net'[x][y] = net[x][y]
    BY <1>9
  <2>2. connected \in [Servers \cup {NameNode} -> SUBSET (Bgs \cup Servers)]
    BY DEF IInv, ShapeInv
  <2> QED  BY <1>5, <1>9, <1>10, <2>1, <2>2 DEF ServerStep
<1>12. \A d \in C : d # b => net'[d][s] = net[d][s]
  BY <1>2, <1>9
<1>13. ServerOK(s)'
  <2>1. ShutDownsAt(s, OnChannel(Bgs, s))' = ShutDownsAt(s, C) \cup {b}
    BY <1>4, <1>5, <1>9, <1>12 DEF ShutDownsAt, Down
  <2>2. last <=> down = Cardinality(Clients)
    BY DEF last
  <2> HIDE DEF down
  <2> QED  BY <1>3, <1>5, <1>7, <1>10, <2>1, <2>2 DEF ServerOK
<1>14. ASSUME NEW d \in C PROVE (ToServer(d, s) /\ FromServer(s, d) /\ CountsOK(d))'
  <2>1. ToServer(d, s) /\ FromServer(s, d) /\ CountsOK(d) /\ d \in Bgs /\ d \in connected[s]
    BY <1>2, <1>3 DEF WorkerOK, ServersOK
  <2>2. ToServer(d, s)'
    <3>1. CASE d = b
      <4>1. bg[b].stage # "connect"
        BY <1>2, <1>4, DownMeans DEF Runs
      <4> QED  BY <1>5, <1>9, <2>1, <3>1, <4>1 DEF ToServer
    <3>2. CASE d # b
      BY <1>5, <1>12, <2>1, <3>2 DEF ToServer, Down
    <3> QED  BY <3>1, <3>2
  <2>3. FromServer(s, d)'
    BY <1>5, <1>6, <1>8, <1>9, <1>10 DEF FromServer, m
  <2>4. CountsOK(d)'
    <3>1. /\ net'[NameNode][d] = net[NameNode][d] /\ NameNode # s
          /\ \A z \in OnChannel(Servers, d) \ {s} : net'[z][d] = net[z][d] /\ server'[z] = server[z] /\ z # NameNode
      <4>1. \A z \in OnChannel(Servers, d) : z \in Servers /\ z \in Entities /\ d \in Receivers(z) /\ z # b /\ z # NameNode
        BY <1>2, <2>1, Channels1, EntitiesAre, Kinds
      <4>2. d \in Receivers(NameNode)
        BY <2>1, Channels1
      <4> QED  BY <1>2, <1>9, <1>10, <4>1, <4>2
    <3>2. s \in StartsAt(d)' <=> s \in StartsAt(d)
      <4>1. << m >> # << Msg("ClientStart") >> /\ << >> # << Msg("ClientStart") >>
        BY OneMessage, Messages DEF m
      <4> QED  BY <1>2, <1>5, <1>8, <1>9, <1>10, <4>1 DEF StartsAt
    <3>3. StartsAt(d)' = StartsAt(d)
      <4>1. \A e \in Peers(d) \ {s} : e \in StartsAt(d)' <=> e \in StartsAt(d)
        BY <1>5, <3>1 DEF StartsAt, Peers
      <4> QED  BY <3>2, <4>1 DEF StartsAt, Peers
    <3>4. AcksAt(d)' = AcksAt(d)
      <4>1. s \notin AcksAt(d) /\ s \notin AcksAt(d)'
        BY <1>2, <1>5, <1>9, <1>10, OneMessage DEF AcksAt, Exited
      <4>2. \A e \in Peers(d) \ {s} : e \in AcksAt(d)' <=> e \in AcksAt(d)
        <5>1. \A e \in Peers(d) \ {s} : net'[e][d] = net[e][d] /\ (Exited(e)' <=> Exited(e))
          BY <1>5, <2>1, <3>1, Channels1, Kinds DEF Peers, Exited
        <5> QED  BY <5>1 DEF AcksAt, Peers
      <4> QED  BY <4>1, <4>2 DEF AcksAt, Peers
    <3> QED  BY <1>5, <2>1, <3>3, <3>4 DEF CountsOK
  <2> QED  BY <2>2, <2>3, <2>4
<1>15. TablesInv'
  <2>1. SameToServers /\ SameFromServers
    <3>1. \A z \in Servers : net'[z][NameNode] = net[z][NameNode]
      BY <1>9, Channels1, Kinds, <1>2
    <3>2. \A z \in Servers : net'[NameNode][z] = net[NameNode][z]
      BY <1>9, Channels1, Kinds, <1>2
    <3> QED  BY <3>1, <3>2 DEF SameToServers, SameFromServers
  <2>2. \A z \in Servers : server'[z].tables = server[z].tables /\ (server[z].stage # "init" => server'[z].stage # "init")
    BY <1>5, <1>10
  <2> QED  BY <1>5, <2>1, <2>2, TablesStay DEF IInv
<1> QED  BY <1>9, <1>11, <1>13, <1>14, <1>15, ServerStepKeeps

-----------------------------------------------------------------------------
(* The name node's steps.                                                  *)

\* They have to do with the name node's channels, and with nobody else's.
NameNodeStep ==
  /\ IsNet(net')
  /\ \A x \in Entities : \A y \in Receivers(x) : x # NameNode /\ y # NameNode => net'[x][y] = net[x][y]
  /\ UNCHANGED <<server, bg, tables, thread, clocks>>
  /\ nameNode' \in [stage : {"init", "run", "exited"}, down : Nat]
  /\ connected' \in [Servers \cup {NameNode} -> SUBSET (Bgs \cup Servers)]
  /\ \A s \in Servers : connected'[s] = connected[s]
  /\ creating' \in [Tables -> CreatingTypes]

\* What a worker has counted of the name node stays as it is.
SameToCount(b) ==
  /\ bg[b].stage = "connect" \/ (net'[NameNode][b] = << Msg("ClientStart") >> <=> net[NameNode][b] = << Msg("ClientStart") >>)
  /\ (Exited(NameNode) /\ net[NameNode][b] = << >>)' <=> Exited(NameNode) /\ net[NameNode][b] = << >>

\* After the name node's step, the workers do, one by one.
LEMMA NameNodeStepKeeps ==
  ASSUME IInv, NameNodeStep, NameNodeInv', TablesInv', CreatingInv',
         \A d \in Bgs : NameNodeOK(d)' /\ SameToCount(d)
  PROVE  IInv'
<1>0. /\ UNCHANGED <<server, bg, tables, thread, clocks>> /\ \A s \in Servers : connected'[s] = connected[s]
      /\ \A x \in Entities : \A y \in Receivers(x) : x # NameNode /\ y # NameNode => net'[x][y] = net[x][y]
  BY DEF NameNodeStep
<1>1. ShapeInv'
  BY DEF NameNodeStep, IInv, ShapeInv
<1>2. StagesInv'
  <2>1. SameStages
    BY <1>0 DEF SameStages
  <2> QED  BY <1>0, <2>1, StagesStay DEF IInv
<1>3. SameOpLogs /\ SameAnswers
  <2> SUFFICES ASSUME NEW s \in Servers, NEW b \in OnChannel(Bgs, s)
               PROVE  net'[b][s] = net[b][s] /\ net'[s][b] = net[s][b]
    BY DEF SameOpLogs, SameAnswers
  <2>1. /\ b \in Entities /\ s \in Entities /\ b \in Receivers(s) /\ s \in Receivers(b)
        /\ b # NameNode /\ s # NameNode
    BY Channels1, EntitiesAre, Kinds
  <2> QED  BY <1>0, <2>1
<1>4. ServerInv'
  <2>1. SameGone
    BY <1>0 DEF SameGone
  <2> QED  BY <1>0, <1>3, <2>1, ServerStays DEF IInv
<1>5. ASSUME NEW d \in Bgs PROVE WorkerOK(d)'
  <2>1. WorkerOK(d) /\ SameToCount(d)
    BY Parts
  <2>2. SameWithServers(d) /\ SameServersOf(d)
    BY <1>0, <1>3, Channels1 DEF SameOpLogs, SameAnswers, SameWithServers, SameServersOf
  <2>3. SameThreadsOf(d)
    BY <1>0 DEF SameThreadsOf, SameTablesOf
  <2>4. SameWithThreads(d)
    <3>1. \A t \in ThreadsOf(ProcessOf(d)) : App(t) \in Entities /\ d \in Receivers(App(t)) /\ App(t) # NameNode
      BY Channels2, Kinds
    <3>2. d = HeadBg(ProcessOf(d)) => /\ d \in Entities /\ App(InitOf(d)) \in Receivers(d) /\ App(InitOf(d)) # NameNode
      BY Channels2, Kinds, Workers
    <3>3. d # NameNode
      BY Kinds
    <3> QED  BY <1>0, <3>1, <3>2, <3>3 DEF SameWithThreads
  <2>5. ServersOK(d)' /\ ThreadsOK(d)'
    BY <1>0, <2>1, <2>2, <2>3, <2>4, ServersOKStays, ThreadsOKStay DEF WorkerOK
  <2>6. StartsAt(d)' = StartsAt(d)
    <3>1. \A s \in OnChannel(Servers, d) : net'[s][d] = net[s][d] /\ s # NameNode
      BY <2>2, Channels1, Kinds DEF SameWithServers
    <3>2. \A e \in Peers(d) : e \in StartsAt(d)' <=> e \in StartsAt(d)
      BY <1>0, <2>1, <3>1 DEF StartsAt, Peers, SameToCount
    <3> QED  BY <3>2 DEF StartsAt, Peers
  <2>7. AcksAt(d)' = AcksAt(d)
    <3>1. \A s \in OnChannel(Servers, d) : net'[s][d] = net[s][d] /\ (Exited(s)' <=> Exited(s))
      BY <1>0, <2>2, Channels1, Kinds DEF SameWithServers, Exited
    <3>2. \A e \in Peers(d) : e \in AcksAt(d)' <=> e \in AcksAt(d)
      BY <2>1, <3>1 DEF AcksAt, Peers, SameToCount
    <3> QED  BY <3>2 DEF AcksAt, Peers
  <2>8. CountsOK(d)'
    BY <1>0, <2>1, <2>6, <2>7 DEF WorkerOK, CountsOK
  <2> QED  BY <2>5, <2>8 DEF WorkerOK
<1> QED  BY <1>1, <1>2, <1>4, <1>5, PartsNext

\* What the name node hears from a worker that has connected.
LEMMA NameNodeHears ==
  ASSUME IInv, nameNode.stage = "run", NEW b \in Bgs, net[b][NameNode] # << >>
  PROVE  /\ WorkerOK(b) /\ connected[NameNode] = Bgs \cup Servers
         /\ net[b][NameNode] \in Seq(Message) /\ b \in Entities /\ NameNode \in Receivers(b) /\ b \in Receivers(NameNode)
         /\ \/ /\ bg[b].stage = "run" /\ net[b][NameNode] = << Msg("ClientShutDown") >> /\ Down(b)
            \/ /\ bg[b].stage = "asked" /\ net[NameNode][b] = << >>
               /\ \E tb \in Tables \ tables[ProcessOf(b)] : net[b][NameNode] = << TableMsg("CreateTable", tb) >>
<1>1. /\ WorkerOK(b) /\ connected[NameNode] = Bgs \cup Servers
      /\ net[b][NameNode] \in Seq(Message) /\ b \in Entities /\ NameNode \in Receivers(b) /\ b \in Receivers(NameNode)
  BY Parts, AllConnected, Channels1, WorkerTypes DEF IInv
<1>2. FromNameNode(b) /\ ToNameNode(b)
  BY <1>1 DEF WorkerOK, NameNodeOK
<1>3. CASE bg[b].stage = "run"
  BY <1>1, <1>2, <1>3 DEF ToNameNode
<1>4. CASE bg[b].stage = "asked"
  BY <1>1, <1>2, <1>4 DEF FromNameNode, AskedFor
<1> QED  BY <1>2, <1>3, <1>4 DEF ToNameNode

\* HandleShutDownMsg of the name node.
LEMMA NameNodeShutDownKeeps ==
  ASSUME IInv, NEW b \in Bgs, NameNodeShutDown(b)
  PROVE  IInv'
<1> DEFINE down == nameNode.down + 1
           last == down = Cardinality(Bgs)
           m == Msg("ServerShutDownAck")
           q == net[b][NameNode]
<1>1. /\ nameNode.stage = "run" /\ q # << >> /\ Head(q).type = "ClientShutDown"
      /\ nameNode' = [stage |-> IF last THEN "exited" ELSE "run", down |-> down]
      /\ net' = IF last THEN Sent(Received(b, NameNode), NameNode, Bgs, m) ELSE Received(b, NameNode)
      /\ UNCHANGED <<connected, creating, server, bg, tables, thread, clocks>>
  BY DEF NameNodeShutDown, Incoming
<1>2. /\ \A d \in Bgs : d \in Entities /\ d \in Receivers(NameNode) /\ NameNode \in Receivers(d) /\ d # NameNode /\ WorkerOK(d)
      /\ \A s \in Servers : s \in Entities /\ s \in Receivers(NameNode) /\ NameNode \in Receivers(s) /\ s # NameNode /\ s \notin Bgs
      /\ NameNode \in Entities /\ m \in Message /\ connected[NameNode] = Bgs \cup Servers
      /\ NameNode \notin Receivers(NameNode)
  BY <1>1, Channels1, EntitiesAre, Kinds, Messages, Parts, AllConnected, ReceiversOf
<1>3. bg[b].stage = "run" /\ Down(b) /\ Tail(q) = << >>
  <2>1. \A tb : q # << TableMsg("CreateTable", tb) >>
    <3> SUFFICES ASSUME NEW tb, q = << TableMsg("CreateTable", tb) >> PROVE FALSE
      OBVIOUS
    <3>1. Head(q) = TableMsg("CreateTable", tb)
      <4> DEFINE k == TableMsg("CreateTable", tb)
      <4>1. q = << k >>
        OBVIOUS
      <4> HIDE DEF k, q
      <4>2. Head(q) = k
        BY <4>1, OneMessage
      <4> QED  BY <4>2 DEF k
    <3> QED  BY <1>1, <3>1 DEF TableMsg
  <2>2. bg[b].stage = "run" /\ q = << Msg("ClientShutDown") >> /\ Down(b)
    BY <1>1, <2>1, NameNodeHears
  <2> QED  BY <2>2, OneMessage
<1>4. /\ UNCHANGED <<connected, creating, server, bg, tables, thread, clocks>> /\ nameNode.stage = "run"
      /\ nameNode'.stage = (IF last THEN "exited" ELSE "run") /\ nameNode'.down = down
      /\ nameNode' \in [stage : {"init", "run", "exited"}, down : Nat]
  <2>1. nameNode.down \in Nat
    BY DEF IInv, ShapeInv
  <2> QED  BY <1>1, <2>1
<1>5. /\ down = Cardinality(ShutDownsAt(NameNode, Bgs) \cup {b})
      /\ (last <=> ShutDownsAt(NameNode, Bgs) \cup {b} = Bgs)
  <2> DEFINE S == ShutDownsAt(NameNode, Bgs)
             T == S \cup {b}
  <2>1. S \in SUBSET Bgs /\ b \notin S /\ nameNode.down = Cardinality(S)
    BY <1>1 DEF ShutDownsAt, IInv, NameNodeInv
  <2>2. IsFiniteSet(Bgs)
    BY NumberOfWorkers
  <2> HIDE DEF S
  <2>3. Cardinality(T) = Cardinality(S) + 1 /\ T \in SUBSET Bgs
    BY <2>1, <2>2, CountsAll
  <2> HIDE DEF T
  <2>4. Cardinality(T) = Cardinality(Bgs) <=> T = Bgs
    BY <2>2, <2>3, CountsAll
  <2> QED  BY <2>1, <2>3, <2>4 DEF S, T
<1>6. last => \A d \in Bgs : Down(d) /\ bg[d].stage = "run" /\ net[NameNode][d] = << >>
  <2> SUFFICES ASSUME last, NEW d \in Bgs PROVE Down(d) /\ bg[d].stage = "run" /\ net[NameNode][d] = << >>
    OBVIOUS
  <2>1. Down(d)
    BY <1>3, <1>5 DEF ShutDownsAt
  <2>2. bg[d].stage \in Runs
    BY <2>1, DownMeans
  <2>3. bg[d].stage # "exited"
    <3>1. ~Exited(NameNode)
      BY <1>4 DEF Exited
    <3>2. NameNode \in Peers(d)
      BY DEF Peers
    <3> QED  BY <3>1, <3>2, WorkerGone
  <2>4. bg[d].stage = "run"
    BY <2>2, <2>3 DEF Runs
  <2> QED  BY <1>2, <1>4, <2>1, <2>4 DEF WorkerOK, NameNodeOK, FromNameNode
<1>7. /\ IsNet(net') /\ net'[b][NameNode] = << >>
      /\ \A x \in Entities : \A y \in Receivers(x) : x # NameNode /\ ~(x = b /\ y = NameNode) => net'[x][y] = net[x][y]
      /\ \A s \in Servers : net'[NameNode][s] = net[NameNode][s]
      /\ \A d \in Bgs : net'[NameNode][d] = IF last THEN << m >> ELSE net[NameNode][d]
  <2> DEFINE n == Received(b, NameNode)
  <2>1. /\ IsNet(n)
        /\ \A x \in Entities : \A y \in Receivers(x) : n[x][y] = IF x = b /\ y = NameNode THEN Tail(q) ELSE net[x][y]
    BY <1>1, <1>2, ReceivedNet DEF IInv, ShapeInv
  <2>2. Tail(q) = << >>
    BY <1>3
  <2>3. CASE last
    <3>1. net' = Sent(n, NameNode, Bgs, m)
      BY <1>1, <2>3
    <3> HIDE DEF n, m, last, q
    <3>2. /\ IsNet(net')
          /\ \A x \in Entities : \A y \in Receivers(x) :
               net'[x][y] = IF x = NameNode /\ y \in Bgs THEN Append(n[x][y], m) ELSE n[x][y]
      BY <1>2, <2>1, <3>1, SentNet
    <3>3. \A d \in Bgs : net'[NameNode][d] = << m >>
      <4> SUFFICES ASSUME NEW d \in Bgs PROVE net'[NameNode][d] = << m >>
        OBVIOUS
      <4>1. n[NameNode][d] = << >>
        BY <1>2, <1>6, <2>1, <2>3
      <4>2. net'[NameNode][d] = Append(<< >>, m)
        BY <1>2, <3>2, <4>1
      <4> QED  BY <4>2, OneMessage
    <3>4. \A s \in Servers : net'[NameNode][s] = net[NameNode][s]
      BY <1>2, <2>1, <3>2
    <3>5. net'[b][NameNode] = << >>
      BY <1>2, <2>1, <2>2, <3>2
    <3>6. \A x \in Entities : \A y \in Receivers(x) : x # NameNode /\ ~(x = b /\ y = NameNode) => net'[x][y] = net[x][y]
      BY <2>1, <3>2
    <3> QED  BY <2>3, <3>2, <3>3, <3>4, <3>5, <3>6
  <2>4. CASE ~last
    <3>1. net' = n
      BY <1>1, <2>4
    <3> HIDE DEF n, last
    <3>2. \A d \in Bgs : net'[NameNode][d] = net[NameNode][d]
      BY <1>2, <2>1, <3>1
    <3>3. net'[b][NameNode] = << >> /\ \A s \in Servers : net'[NameNode][s] = net[NameNode][s]
      BY <1>2, <2>1, <2>2, <3>1
    <3> QED  BY <2>1, <2>4, <3>1, <3>2, <3>3
  <2> QED  BY <2>3, <2>4
<1>8. (last <=> down = Cardinality(Bgs)) /\ << m >> # << >> /\ << m >> # << Msg("ClientStart") >>
      /\ \A tb : ~Holds(<< m >>, TableMsg("CreateTableReply", tb))
  BY Messages, OneMessage DEF Holds, Msg, TableMsg
<1> HIDE DEF last, down
<1>9. NameNodeStep
  <2>1. \A x \in Entities : \A y \in Receivers(x) : x # NameNode /\ y # NameNode => net'[x][y] = net[x][y]
    BY <1>7
  <2>2. /\ connected \in [Servers \cup {NameNode} -> SUBSET (Bgs \cup Servers)] /\ creating \in [Tables -> CreatingTypes]
    BY DEF IInv, ShapeInv
  <2> QED  BY <1>4, <1>7, <2>1, <2>2 DEF NameNodeStep
<1>10. \A d \in Bgs \ {b} : net'[d][NameNode] = net[d][NameNode]
  BY <1>2, <1>7
<1>11. SameFromServers /\ SameToServers
  BY <1>2, <1>7 DEF SameFromServers, SameToServers
<1>12. NameNodeInv'
  <2>1. ShutDownsAt(NameNode, Bgs)' = ShutDownsAt(NameNode, Bgs) \cup {b}
    BY <1>3, <1>4, <1>7, <1>10 DEF ShutDownsAt, Down
  <2> QED  BY <1>2, <1>4, <1>5, <1>8, <2>1 DEF NameNodeInv
<1>13. ASSUME NEW d \in Bgs PROVE NameNodeOK(d)' /\ SameToCount(d)
  <2>1. FromNameNode(d) /\ ToNameNode(d) /\ ~Exited(NameNode)
    BY <1>2, <1>4 DEF WorkerOK, NameNodeOK, Exited
  <2>2. AllCreated' <=> AllCreated
    BY <1>4 DEF AllCreated
  <2>3. SameToCount(d)
    <3>1. CASE last
      BY <1>4, <1>6, <1>7, <1>8, <2>1, <3>1, OneMessage DEF SameToCount
    <3>2. CASE ~last
      <4>1. ~Exited(NameNode)'
        BY <1>4, <3>2 DEF Exited
      <4> QED  BY <1>7, <2>1, <3>2, <4>1 DEF SameToCount
    <3> QED  BY <3>1, <3>2
  <2>4. FromNameNode(d)'
    <3>1. CASE last
      <4> HIDE DEF m
      <4>1. nameNode'.stage = "exited" /\ bg'[d].stage = "run" /\ net'[NameNode][d] = << m >>
        BY <1>4, <1>6, <1>7, <3>1
      <4> QED  BY <1>4, <1>6, <2>1, <2>2, <3>1, <4>1 DEF FromNameNode, Runs, m
    <3>2. CASE ~last /\ d = b
      BY <1>3, <1>4, <1>7, <2>1, <2>2, <3>2 DEF FromNameNode, Runs
    <3>3. CASE ~last /\ d # b
      BY <1>4, <1>7, <1>10, <2>1, <3>3, FromNameNodeStays DEF SameTablesOf
    <3> QED  BY <3>1, <3>2, <3>3
  <2>5. ToNameNode(d)'
    <3>1. CASE d = b
      BY <1>7, <3>1 DEF ToNameNode
    <3>2. CASE d # b
      BY <1>4, <1>10, <2>1, <3>2 DEF ToNameNode, Down
    <3> QED  BY <3>1, <3>2
  <2> QED  BY <2>3, <2>4, <2>5 DEF NameNodeOK
<1>14. TablesInv'
  BY <1>4, <1>11, TablesStay DEF IInv
<1>15. CreatingInv'
  <2>1. ASSUME NEW d \in Bgs, NEW tb \in Tables, QueuedFor(d, tb) PROVE QueuedFor(d, tb)'
    <3>1. d # b /\ ~last /\ bg[d].stage = "asked"
      BY <1>3, <1>6, <2>1 DEF QueuedFor
    <3> QED  BY <1>4, <1>7, <1>10, <2>1, <3>1 DEF QueuedFor
  <2>2. ASSUME NEW c \in Clients, NEW tb \in Tables PROVE Answered(c, tb)' <=> Answered(c, tb)
    <3>1. HeadBg(c) \in Bgs
      BY Workers
    <3>2. CASE last
      <4>1. net[NameNode][HeadBg(c)] = << >> /\ net'[NameNode][HeadBg(c)] = << m >>
        BY <1>6, <1>7, <3>1, <3>2
      <4>2. ~Holds(net[NameNode][HeadBg(c)], TableMsg("CreateTableReply", tb))
        BY <4>1 DEF Holds
      <4>3. ~Holds(net'[NameNode][HeadBg(c)], TableMsg("CreateTableReply", tb))
        BY <1>8, <4>1
      <4> QED  BY <1>4, <4>2, <4>3 DEF Answered
    <3>3. CASE ~last
      BY <1>4, <1>7, <3>1, <3>3 DEF Answered
    <3> QED  BY <3>2, <3>3
  <2> QED  BY <1>4, <2>1, <2>2, CreatingStays DEF IInv
<1> QED  BY <1>9, <1>12, <1>13, <1>14, <1>15, NameNodeStepKeeps

\* InitNameNode.
LEMMA NameNodeConnectionKeeps ==
  ASSUME IInv, NEW e \in Bgs \cup Servers, NameNodeConnection(e)
  PROVE  IInv'
<1> DEFINE all == connected[NameNode] \cup {e}
           A == Bgs \cup Servers
           type == IF e \in Bgs THEN "ClientConnect" ELSE "ServerConnect"
           m1 == Msg("ConnectServer")
           m2 == Msg("ClientStart")
           q == net[e][NameNode]
<1>1. /\ nameNode.stage = "init" /\ q # << >> /\ Head(q).type = type
      /\ connected' = [connected EXCEPT ![NameNode] = all]
      /\ UNCHANGED <<creating, server, bg, tables, thread, clocks>>
  BY DEF NameNodeConnection, Incoming
<1>2. IF Cardinality(all) = 2 * Cardinality(Bgs)
      THEN /\ nameNode' = [nameNode EXCEPT !.stage = "run"]
           /\ net' = Sent(Sent(Received(e, NameNode), NameNode, all \cap Bgs, m1), NameNode, all \cap Bgs, m2)
      ELSE net' = Received(e, NameNode) /\ UNCHANGED nameNode
  BY DEF NameNodeConnection
<1>3. /\ \A d \in Bgs : d \in Entities /\ d \in Receivers(NameNode) /\ NameNode \in Receivers(d) /\ d # NameNode /\ WorkerOK(d)
      /\ \A s \in Servers : /\ s \in Entities /\ s \in Receivers(NameNode) /\ NameNode \in Receivers(s)
                            /\ s # NameNode /\ s \notin Bgs /\ ServerTables(s)
      /\ NameNode \in Entities /\ m1 \in Message /\ m2 \in Message /\ NameNode \notin Receivers(NameNode)
      /\ e \in Entities /\ NameNode \in Receivers(e) /\ e # NameNode /\ q \in Seq(Message)
  BY Channels1, EntitiesAre, Kinds, Messages, Parts, ReceiversOf, WorkerTypes DEF IInv, TablesInv
<1>4. connected[NameNode] \subseteq A /\ all \in SUBSET A /\ (Cardinality(all) = 2 * Cardinality(Bgs) <=> all = A)
  <2>1. connected[NameNode] \subseteq A /\ all \in SUBSET A
    BY DEF IInv, ShapeInv
  <2>2. IsFiniteSet(A) /\ Cardinality(A) = 2 * Cardinality(Bgs)
    BY NumberOfWorkers
  <2> HIDE DEF A, all
  <2> QED  BY <2>1, <2>2, CountsAll
<1>5. \A d \in Bgs : bg[d].stage = "connect" /\ net[NameNode][d] = << >> /\ ~Down(d)
  <2> SUFFICES ASSUME NEW d \in Bgs PROVE bg[d].stage = "connect" /\ net[NameNode][d] = << >> /\ ~Down(d)
    OBVIOUS
  <2>1. bg[d].stage = "connect"
    BY <1>1, AllConnected
  <2>2. net[NameNode][d] = << >>
    BY <1>1, <1>3, <2>1 DEF WorkerOK, NameNodeOK, FromNameNode
  <2> QED  BY <2>1, <2>2, NotDown DEF Runs
<1>6. e \notin connected[NameNode]
  <2>1. ASSUME e \in Bgs, e \in connected[NameNode] PROVE FALSE
    <3>1. ToNameNode(e)
      BY <1>3, <2>1 DEF WorkerOK, NameNodeOK
    <3> QED  BY <1>1, <1>5, <2>1, <3>1 DEF ToNameNode
  <2>2. ASSUME e \in Servers, e \in connected[NameNode] PROVE FALSE
    <3>1. Requests(q, "CreateTableReply")
      BY <1>3, <2>2 DEF ServerTables
    <3>2. \E tb \in Tables : Head(q) = TableMsg("CreateTableReply", tb)
      <4> HIDE DEF q
      <4> QED  BY <1>1, <1>3, <3>1, RequestsTaken
    <3>3. Head(q).type = "CreateTableReply"
      BY <3>2, Messages
    <3> QED  BY <1>1, <3>3
  <2> QED  BY <2>1, <2>2
<1>7. q = << Msg(type) >> /\ Tail(q) = << >>
  <2>1. q = << Msg(type) >>
    BY <1>6 DEF IInv, NameNodeInv
  <2> QED  BY <2>1, OneMessage
<1>8. /\ IsNet(net') /\ net'[e][NameNode] = << >>
      /\ \A x \in Entities : \A y \in Receivers(x) : x # NameNode /\ ~(x = e /\ y = NameNode) => net'[x][y] = net[x][y]
      /\ \A s \in Servers : net'[NameNode][s] = net[NameNode][s]
      /\ \A d \in Bgs : net'[NameNode][d] = IF all = A THEN << m1, m2 >> ELSE << >>
  <2> DEFINE n == Received(e, NameNode)
             R == all \cap Bgs
  <2>1. /\ IsNet(n)
        /\ \A x \in Entities : \A y \in Receivers(x) : n[x][y] = IF x = e /\ y = NameNode THEN << >> ELSE net[x][y]
    <3>1. IsNet(net) /\ net[e][NameNode] # << >> /\ Tail(net[e][NameNode]) = << >>
      BY <1>1, <1>7 DEF IInv, ShapeInv
    <3> HIDE DEF q, type
    <3>2. /\ IsNet(n)
          /\ \A x \in Entities : \A y \in Receivers(x) :
               n[x][y] = IF x = e /\ y = NameNode THEN Tail(net[e][NameNode]) ELSE net[x][y]
      BY <1>3, <3>1, ReceivedNet
    <3> HIDE DEF n
    <3> QED  BY <3>1, <3>2
  <2>2. CASE all = A
    <3> DEFINE k == Sent(n, NameNode, R, m1)
    <3>1. net' = Sent(k, NameNode, R, m2) /\ R = Bgs
      BY <1>2, <1>4, <2>2
    <3> HIDE DEF n, m1, m2, all, q
    <3>2. /\ IsNet(k)
          /\ \A x \in Entities : \A y \in Receivers(x) :
               k[x][y] = IF x = NameNode /\ y \in R THEN Append(n[x][y], m1) ELSE n[x][y]
      <4> HIDE DEF R
      <4> QED  BY <1>3, <2>1, SentNet
    <3> HIDE DEF k, R
    <3>3. /\ IsNet(net')
          /\ \A x \in Entities : \A y \in Receivers(x) :
               net'[x][y] = IF x = NameNode /\ y \in R THEN Append(k[x][y], m2) ELSE k[x][y]
      BY <1>3, <3>1, <3>2, SentNet
    <3>4. \A d \in Bgs : net'[NameNode][d] = << m1, m2 >>
      <4> SUFFICES ASSUME NEW d \in Bgs PROVE net'[NameNode][d] = << m1, m2 >>
        OBVIOUS
      <4>1. n[NameNode][d] = << >>
        BY <1>3, <1>5, <2>1
      <4>2. k[NameNode][d] = Append(<< >>, m1)
        BY <1>3, <3>1, <3>2, <4>1
      <4>3. k[NameNode][d] = << m1 >>
        BY <4>2, OneMessage
      <4>4. net'[NameNode][d] = Append(<< m1 >>, m2)
        BY <1>3, <3>1, <3>3, <4>3
      <4> QED  BY <4>4, TwoMessages
    <3>5. \A s \in Servers : net'[NameNode][s] = net[NameNode][s]
      BY <1>3, <2>1, <3>1, <3>2, <3>3
    <3>6. net'[e][NameNode] = << >>
      BY <1>3, <2>1, <3>2, <3>3
    <3>7. \A x \in Entities : \A y \in Receivers(x) : x # NameNode /\ ~(x = e /\ y = NameNode) => net'[x][y] = net[x][y]
      BY <2>1, <3>2, <3>3
    <3> QED  BY <2>2, <3>3, <3>4, <3>5, <3>6, <3>7
  <2>3. CASE all # A
    <3>1. net' = n
      BY <1>2, <1>4, <2>3
    <3> HIDE DEF n, all, A
    <3>2. \A d \in Bgs : net'[NameNode][d] = << >>
      BY <1>3, <1>5, <2>1, <3>1
    <3>3. net'[e][NameNode] = << >> /\ \A s \in Servers : net'[NameNode][s] = net[NameNode][s]
      BY <1>3, <2>1, <3>1
    <3> QED  BY <2>1, <2>3, <3>1, <3>2, <3>3
  <2> QED  BY <2>2, <2>3
<1>9. /\ nameNode' \in [stage : {"init", "run", "exited"}, down : Nat]
      /\ nameNode'.stage = (IF all = A THEN "run" ELSE "init") /\ nameNode'.down = nameNode.down
  <2>1. nameNode \in [stage : {"init", "run", "exited"}, down : Nat]
    BY DEF IInv, ShapeInv
  <2>2. CASE all = A
    <3>1. nameNode' = [nameNode EXCEPT !.stage = "run"]
      BY <1>2, <1>4, <2>2
    <3> HIDE DEF all, A
    <3> QED  BY <2>1, <2>2, <3>1
  <2>3. CASE all # A
    BY <1>1, <1>2, <1>4, <2>1, <2>3
  <2> QED  BY <2>2, <2>3
<1>10. /\ connected' \in [Servers \cup {NameNode} -> SUBSET A] /\ connected'[NameNode] = all
       /\ \A s \in Servers : connected'[s] = connected[s]
  <2>1. connected \in [Servers \cup {NameNode} -> SUBSET A]
    BY DEF IInv, ShapeInv
  <2> HIDE DEF all, A
  <2> QED  BY <1>1, <1>3, <1>4, <2>1
<1>11. UNCHANGED <<creating, server, bg, tables, thread, clocks>> /\ nameNode.stage = "init"
  BY <1>1
<1>12. \A tb \in Tables : ~Holds(<< >>, TableMsg("CreateTableReply", tb)) /\ ~Holds(<< m1, m2 >>, TableMsg("CreateTableReply", tb))
                          /\ ~Holds(<< Msg(type) >>, TableMsg("CreateTableReply", tb))
  <2> SUFFICES ASSUME NEW tb \in Tables
               PROVE  ~Holds(<< >>, TableMsg("CreateTableReply", tb)) /\ ~Holds(<< m1, m2 >>, TableMsg("CreateTableReply", tb))
                      /\ ~Holds(<< Msg(type) >>, TableMsg("CreateTableReply", tb))
    OBVIOUS
  <2> DEFINE k == TableMsg("CreateTableReply", tb)
             m == Msg(type)
  <2>1. m1 # k /\ m2 # k /\ m # k
    BY DEF Msg, TableMsg
  <2>2. ~Holds(<< >>, k)
    BY DEF Holds
  <2> HIDE DEF m1, m2, k, m
  <2>3. ~Holds(<< m1, m2 >>, k)
    BY <2>1, TwoMessages DEF Holds
  <2>4. ~Holds(<< m >>, k)
    BY <2>1, OneMessage DEF Holds
  <2> QED  BY <2>2, <2>3, <2>4 DEF m, k
<1> HIDE DEF m1, m2
<1>13. NameNodeStep
  <2>1. \A x \in Entities : \A y \in Receivers(x) : x # NameNode /\ y # NameNode => net'[x][y] = net[x][y]
    BY <1>8
  <2>2. creating \in [Tables -> CreatingTypes]
    BY DEF IInv, ShapeInv
  <2> QED  BY <1>8, <1>9, <1>10, <1>11, <2>1, <2>2 DEF NameNodeStep
<1>14. \A d \in A \ {e} : net'[d][NameNode] = net[d][NameNode]
  BY <1>3, <1>8
<1> HIDE DEF all
<1>15. /\ \A d \in A : d \in all <=> d = e \/ d \in connected[NameNode]
       /\ all \subseteq A
  BY <1>4 DEF all
<1>16. NameNodeInv'
  <2>1. ShutDownsAt(NameNode, Bgs)' = ShutDownsAt(NameNode, Bgs)
    BY <1>5, <1>11 DEF ShutDownsAt, Down
  <2>2. nameNode.down # Cardinality(Bgs) /\ nameNode.down = Cardinality(ShutDownsAt(NameNode, Bgs))
    BY <1>11 DEF IInv, NameNodeInv
  <2>3. /\ \A b \in Bgs \ all : net'[b][NameNode] = << Msg("ClientConnect") >>
        /\ \A s \in Servers \ all : net'[s][NameNode] = << Msg("ServerConnect") >>
    BY <1>14, <1>15 DEF IInv, NameNodeInv
  <2> QED  BY <1>9, <1>10, <2>1, <2>2, <2>3 DEF NameNodeInv
<1>17. ASSUME NEW d \in Bgs PROVE NameNodeOK(d)' /\ SameToCount(d)
  <2>1. SameToCount(d)
    BY <1>5, <1>9, <1>11 DEF SameToCount, Exited
  <2>2. FromNameNode(d)'
    BY <1>5, <1>8, <1>9, <1>11 DEF FromNameNode, Runs, m1, m2
  <2>3. ASSUME d \in connected'[NameNode] PROVE ToNameNode(d)'
    <3>1. CASE d = e
      BY <1>8, <3>1 DEF ToNameNode
    <3>2. CASE d # e
      <4>1. ToNameNode(d)
        BY <1>3, <1>10, <1>15, <2>3, <3>2 DEF WorkerOK, NameNodeOK
      <4> QED  BY <1>11, <1>14, <3>2, <4>1, ToNameNodeStays
    <3> QED  BY <3>1, <3>2
  <2> QED  BY <2>1, <2>2, <2>3 DEF NameNodeOK
<1>18. TablesInv'
  <2>1. ASSUME NEW s \in Servers
        PROVE  ServerTables(s)' /\ \A tb \in Tables : Replied(s, tb)' <=> Replied(s, tb)
    <3>1. /\ \A tb \in Tables : Told(s, tb)' <=> Told(s, tb)
          /\ net'[NameNode][s] = net[NameNode][s] /\ ServerTables(s)
      BY <1>3, <1>8 DEF Told
    <3>2. CASE s = e
      <4>1. \A tb \in Tables : ~Replied(s, tb) /\ ~Replied(s, tb)'
        <5>1. \A tb \in Tables : ~Replied(s, tb)
          BY <1>7, <1>12, <3>2 DEF Replied
        <5>2. \A tb \in Tables : ~Replied(s, tb)'
          BY <1>8, <1>12, <3>2 DEF Replied
        <5> QED  BY <5>1, <5>2
      <4>2. Requests(net'[s][NameNode], "CreateTableReply")
        BY <1>8, <3>2 DEF Requests
      <4>3. s \in connected'[NameNode]
        BY <1>10, <1>15, <3>2
      <4>4. ASSUME NEW tb \in Tables
            PROVE  (/\ creating[tb].known <=> Told(s, tb) \/ tb \in server[s].tables
                    /\ ~(Told(s, tb) /\ tb \in server[s].tables)
                    /\ Replied(s, tb) => tb \in server[s].tables
                    /\ creating[tb].known => server[s].stage # "init" /\ nameNode.stage # "init")'
        BY <1>11, <3>1, <4>1 DEF ServerTables
      <4>5. Requests(net'[NameNode][s], "CreateTable")
        BY <3>1 DEF ServerTables
      <4> QED  BY <4>1, <4>2, <4>3, <4>4, <4>5 DEF ServerTables
    <3>3. CASE s # e
      <4>1. net'[s][NameNode] = net[s][NameNode] /\ (s \in connected'[NameNode] <=> s \in connected[NameNode])
        BY <1>10, <1>14, <1>15, <3>3
      <4>2. \A tb \in Tables : Replied(s, tb)' <=> Replied(s, tb)
        BY <4>1 DEF Replied
      <4> QED  BY <1>11, <3>1, <4>1, <4>2 DEF ServerTables
    <3> QED  BY <3>2, <3>3
  <2>2. ASSUME NEW tb \in Tables PROVE CreatedOn(tb)' = CreatedOn(tb)
    BY <1>11, <2>1 DEF CreatedOn
  <2>3. \A tb \in Tables : creating'[tb].servers = Cardinality(CreatedOn(tb)')
    BY <1>11, <2>2 DEF IInv, TablesInv
  <2> QED  BY <2>1, <2>3 DEF TablesInv
<1>19. CreatingInv'
  <2>1. ASSUME NEW d \in Bgs, NEW tb \in Tables PROVE ~QueuedFor(d, tb)
    BY <1>5 DEF QueuedFor
  <2>2. ASSUME NEW c \in Clients, NEW tb \in Tables PROVE Answered(c, tb)' <=> Answered(c, tb)
    <3>1. HeadBg(c) \in Bgs
      BY Workers
    <3>2. ~Holds(net[NameNode][HeadBg(c)], TableMsg("CreateTableReply", tb))
      BY <1>5, <1>12, <3>1
    <3>3. ~Holds(net'[NameNode][HeadBg(c)], TableMsg("CreateTableReply", tb))
      BY <1>8, <1>12, <3>1
    <3> QED  BY <1>11, <3>2, <3>3 DEF Answered
  <2> QED  BY <1>11, <2>1, <2>2, CreatingStays DEF IInv
<1> QED  BY <1>13, <1>16, <1>17, <1>18, <1>19, NameNodeStepKeeps

-----------------------------------------------------------------------------
(* The name node answers.                                                  *)

\* When as many processes are answered as there are, all are.
LEMMA EverybodyAnswered ==
  \A tb : Cardinality({c \in Clients : Answered(c, tb)}) = Cardinality(Clients) =>
            \A c \in Clients : Answered(c, tb)
<1> SUFFICES ASSUME NEW tb, Cardinality({c \in Clients : Answered(c, tb)}) = Cardinality(Clients)
             PROVE  \A c \in Clients : Answered(c, tb)
  OBVIOUS
<1> DEFINE S == {c \in Clients : Answered(c, tb)}
<1>1. S \in SUBSET Clients /\ IsFiniteSet(Clients) /\ Cardinality(S) = Cardinality(Clients)
  BY LifecycleAssumption
<1>2. S = Clients
  <2> HIDE DEF S
  <2> QED  BY <1>1, CountsAll
<1> QED  BY <1>2

\* So after a step.
LEMMA EverybodyAnsweredNext ==
  (\A tb : Cardinality({c \in Clients : Answered(c, tb)}) = Cardinality(Clients) =>
             \A c \in Clients : Answered(c, tb))'
BY EverybodyAnswered, PTL

\* These wait for the answer that table tb is there.
MayAnswer(R, tb) ==
  \A d \in R : /\ d \in Bgs /\ IsHead(d) /\ bg[d].stage = "asked"
               /\ tb \notin tables[ProcessOf(d)] /\ net[NameNode][d] = << >>

\* They are answered, and all head workers are told when all tables are created.
Answers(R, tb) ==
  \A d \in Bgs :
    LET q == IF d \in R THEN << TableMsg("CreateTableReply", tb) >> ELSE net[NameNode][d]
    IN  net'[NameNode][d] = IF AllCreated' /\ IsHead(d) THEN Append(q, Msg("CreatedAllTables")) ELSE q

\* The network after the name node has answered R, and all, if that was the last table.
LEMMA AnswersNet ==
  ASSUME NEW n, IsNet(n), NEW tb \in Tables, NEW R, MayAnswer(R, tb),
         \A d \in Bgs : n[NameNode][d] = net[NameNode][d],
         net' = CreatedAllTables(Sent(n, NameNode, R, TableMsg("CreateTableReply", tb)), creating')
  PROVE  /\ IsNet(net') /\ Answers(R, tb)
         /\ \A x \in Entities : \A y \in Receivers(x) : x # NameNode => net'[x][y] = n[x][y]
         /\ \A s \in Servers : net'[NameNode][s] = n[NameNode][s]
<1> DEFINE m == TableMsg("CreateTableReply", tb)
           m2 == Msg("CreatedAllTables")
           H == {HeadBg(c) : c \in Clients}
           k == Sent(n, NameNode, R, m)
           all == AllCreated'
<1>1. /\ m \in Message /\ m2 \in Message /\ NameNode \in Entities
      /\ \A d \in Bgs : d \in Receivers(NameNode)
      /\ \A s \in Servers : s \in Receivers(NameNode) /\ s \notin Bgs
      /\ \A d \in H : d \in Bgs
      /\ \A d \in Bgs : d \in H <=> IsHead(d)
      /\ \A d \in R : d \in Bgs
  <2>1. \A d \in Bgs : d \in H <=> IsHead(d)
    BY Workers DEF IsHead
  <2> QED  BY <2>1, Messages, Channels1, Kinds, Workers DEF MayAnswer
<1>2. net' = IF all THEN Sent(k, NameNode, H, m2) ELSE k
  BY DEF CreatedAllTables, AllCreated
<1> HIDE DEF H, m, m2
<1>3. /\ IsNet(k)
      /\ \A x \in Entities : \A y \in Receivers(x) :
           k[x][y] = IF x = NameNode /\ y \in R THEN Append(n[x][y], m) ELSE n[x][y]
  BY <1>1, SentNet
<1> HIDE DEF k
<1>4. \A d \in Bgs : k[NameNode][d] = IF d \in R THEN << m >> ELSE net[NameNode][d]
  <2> SUFFICES ASSUME NEW d \in Bgs PROVE k[NameNode][d] = IF d \in R THEN << m >> ELSE net[NameNode][d]
    OBVIOUS
  <2>1. CASE d \in R
    <3>1. n[NameNode][d] = << >>
      BY <2>1 DEF MayAnswer
    <3>2. k[NameNode][d] = Append(<< >>, m)
      BY <1>1, <1>3, <2>1, <3>1
    <3> QED  BY <2>1, <3>2, OneMessage
  <2>2. CASE d \notin R
    BY <1>1, <1>3, <2>2
  <2> QED  BY <2>1, <2>2
<1>5. CASE all
  <2>1. net' = Sent(k, NameNode, H, m2)
    BY <1>2, <1>5
  <2> HIDE DEF all
  <2>2. /\ IsNet(net')
        /\ \A x \in Entities : \A y \in Receivers(x) :
             net'[x][y] = IF x = NameNode /\ y \in H THEN Append(k[x][y], m2) ELSE k[x][y]
    BY <1>1, <1>3, <2>1, SentNet
  <2>3. \A d \in Bgs : net'[NameNode][d] = IF IsHead(d) THEN Append(k[NameNode][d], m2) ELSE k[NameNode][d]
    BY <1>1, <2>2
  <2>4. Answers(R, tb)
    BY <1>4, <1>5, <2>3 DEF Answers, m, m2, all
  <2>5. /\ \A x \in Entities : \A y \in Receivers(x) : x # NameNode => net'[x][y] = n[x][y]
        /\ \A s \in Servers : net'[NameNode][s] = n[NameNode][s]
    BY <1>1, <1>3, <2>2
  <2> QED  BY <2>2, <2>4, <2>5
<1>6. CASE ~all
  <2>1. net' = k
    BY <1>2, <1>6
  <2>2. Answers(R, tb)
    BY <1>4, <1>6, <2>1 DEF Answers, m
  <2>3. /\ \A x \in Entities : \A y \in Receivers(x) : x # NameNode => net'[x][y] = n[x][y]
        /\ \A s \in Servers : net'[NameNode][s] = n[NameNode][s]
    BY <1>1, <1>3, <2>1
  <2> QED  BY <1>3, <2>1, <2>2, <2>3
<1> QED  BY <1>5, <1>6

\* Who is answered then.
LEMMA AnsweredNext ==
  ASSUME ShapeInv, tables' = tables, NEW tb \in Tables, NEW R, MayAnswer(R, tb), Answers(R, tb),
         NEW c \in Clients, NEW u \in Tables
  PROVE  Answered(c, u)' <=> Answered(c, u) \/ (u = tb /\ HeadBg(c) \in R)
<1> DEFINE h == HeadBg(c)
           m == TableMsg("CreateTableReply", u)
           m2 == Msg("CreatedAllTables")
           q == IF h \in R THEN << TableMsg("CreateTableReply", tb) >> ELSE net[NameNode][h]
<1>1. h \in Bgs /\ net[NameNode][h] \in Seq(Message) /\ m2 \in Message /\ m2 # m
      /\ TableMsg("CreateTableReply", tb) \in Message /\ (TableMsg("CreateTableReply", tb) = m <=> u = tb)
  <2>1. m2 # m /\ (TableMsg("CreateTableReply", tb) = m <=> u = tb)
    BY DEF Msg, TableMsg
  <2> QED  BY <2>1, Workers, WorkerTypes, Channels1, Messages
<1>2. net'[NameNode][h] = IF AllCreated' /\ IsHead(h) THEN Append(q, m2) ELSE q
  BY <1>1 DEF Answers
<1>3. Holds(q, m) <=> Holds(net[NameNode][h], m) \/ (u = tb /\ h \in R)
  <2>1. CASE h \in R
    <3> DEFINE k == TableMsg("CreateTableReply", tb)
    <3>1. net[NameNode][h] = << >> /\ q = << k >>
      BY <2>1 DEF MayAnswer
    <3>2. ~Holds(net[NameNode][h], m)
      BY <3>1 DEF Holds
    <3> HIDE DEF k, q, m
    <3>3. Holds(q, m) <=> k = m
      BY <3>1, OneMessage DEF Holds
    <3> QED  BY <1>1, <2>1, <3>2, <3>3 DEF k
  <2>2. CASE h \notin R
    BY <2>2
  <2> QED  BY <2>1, <2>2
<1>4. q \in Seq(Message)
  <2> DEFINE k == TableMsg("CreateTableReply", tb)
  <2>1. k \in Message
    BY <1>1
  <2> HIDE DEF k
  <2>2. << k >> \in Seq(Message)
    BY <2>1
  <2> QED  BY <1>1, <2>2 DEF k
<1> HIDE DEF q, m, m2
<1>5. Holds(Append(q, m2), m) <=> Holds(q, m)
  BY <1>1, <1>4, HoldsAppended
<1>6. Holds(net'[NameNode][h], m) <=> Holds(q, m)
  BY <1>2, <1>5
<1>7. (Answered(c, u)' <=> u \in tables[c] \/ Holds(net'[NameNode][h], m))
      /\ (Answered(c, u) <=> u \in tables[c] \/ Holds(net[NameNode][h], m))
  BY DEF Answered, m
<1> QED  BY <1>3, <1>6, <1>7

\* A head worker that has been answered for all tables waits for the others.
LEMMA WaitsForAll ==
  ASSUME IInv, nameNode.stage = "run", ~AllCreated, NEW d \in Bgs, IsHead(d),
         \A u \in Tables : Answered(ProcessOf(d), u)
  PROVE  \/ bg[d].stage = "all tables" /\ net[NameNode][d] = << >>
         \/ /\ bg[d].stage = "asked" /\ net[d][NameNode] = << >>
            /\ \E u \in Tables \ tables[ProcessOf(d)] : net[NameNode][d] = << TableMsg("CreateTableReply", u) >>
<1>1. /\ d = HeadBg(ProcessOf(d)) /\ ProcessOf(d) \in Clients /\ FromNameNode(d) /\ bg[d].stage \in BgStages
      /\ KnowsTables(ProcessOf(d)) /\ tables[ProcessOf(d)] \subseteq Tables
  BY Workers, WorkerTypes DEF IsHead, IInv, FromNameNodeInv, StagesInv, ShapeInv
<1>2. \A u \in Tables : ~Holds(<< >>, TableMsg("CreateTableReply", u))
  BY DEF Holds
<1>3. \A u \in Tables : ~Holds(<< Msg("ConnectServer"), Msg("ClientStart") >>, TableMsg("CreateTableReply", u))
  <2> SUFFICES ASSUME NEW u \in Tables
               PROVE  ~Holds(<< Msg("ConnectServer"), Msg("ClientStart") >>, TableMsg("CreateTableReply", u))
    OBVIOUS
  <2> DEFINE m1 == Msg("ConnectServer")
             m2 == Msg("ClientStart")
             k == TableMsg("CreateTableReply", u)
  <2>1. m1 # k /\ m2 # k
    BY DEF Msg, TableMsg
  <2> HIDE DEF m1, m2, k
  <2>2. ~Holds(<< m1, m2 >>, k)
    BY <2>1, TwoMessages DEF Holds
  <2> QED  BY <2>2 DEF m1, m2, k
<1>4. \A u \in Tables : ~Holds(<< Msg("ClientStart") >>, TableMsg("CreateTableReply", u))
  <2> SUFFICES ASSUME NEW u \in Tables PROVE ~Holds(<< Msg("ClientStart") >>, TableMsg("CreateTableReply", u))
    OBVIOUS
  <2> DEFINE m2 == Msg("ClientStart")
             k == TableMsg("CreateTableReply", u)
  <2>1. m2 # k
    BY DEF Msg, TableMsg
  <2> HIDE DEF m2, k
  <2>2. ~Holds(<< m2 >>, k)
    BY <2>1, OneMessage DEF Holds
  <2> QED  BY <2>2 DEF m2, k
<1>5. CASE tables[ProcessOf(d)] = Tables
  <2>1. bg[d].stage \in {"all tables", "table barrier"} \cup Runs
    BY <1>1, <1>5 DEF KnowsTables
  <2> QED  BY <1>1, <2>1 DEF FromNameNode
<1>6. CASE tables[ProcessOf(d)] # Tables
  <2>1. bg[d].stage \notin {"all tables", "table barrier"} \cup Runs
    BY <1>1, <1>6 DEF KnowsTables
  <2>2. PICK u \in Tables : u \notin tables[ProcessOf(d)]
    BY <1>1, <1>6
  <2>3. Holds(net[NameNode][d], TableMsg("CreateTableReply", u))
    BY <1>1, <2>2 DEF Answered
  <2>4. bg[d].stage # "connect" /\ bg[d].stage # "handshake" /\ bg[d].stage \notin {"init barrier", "app", "tables"}
    BY <1>1, <1>2, <1>3, <1>4, <2>3 DEF FromNameNode
  <2>5. bg[d].stage = "asked"
    BY <1>1, <2>1, <2>4 DEF BgStages, Runs
  <2>6. PICK v \in Tables \ tables[ProcessOf(d)] : AskedFor(d, v)
    BY <1>1, <2>5 DEF FromNameNode
  <2>7. net[NameNode][d] # << >>
    BY <1>2, <2>3
  <2> QED  BY <2>5, <2>6, <2>7 DEF AskedFor
<1> QED  BY <1>5, <1>6

\* The second message of a channel.
LEMMA SecondMessage == \A a, b : Append(<< a >>, b) = << a, b >>
BY TwoMessages

\* What the workers and the name node know of each other, when it answers some of them.
LEMMA AnswersKeep ==
  ASSUME IInv, nameNode.stage = "run", ~AllCreated,
         UNCHANGED <<nameNode, connected, server, bg, tables, thread, clocks>>,
         NEW tb \in Tables, NEW R, MayAnswer(R, tb), Answers(R, tb),
         AllCreated' => \A c \in Clients, u \in Tables : Answered(c, u)',
         \A d \in R : net'[d][NameNode] = << >>,
         \A d \in Bgs \ R :
           \/ /\ net'[d][NameNode] = net[d][NameNode]
              /\ \A u \in Tables : Holds(creating[u].toReply, d) => Holds(creating'[u].toReply, d)
           \/ /\ ~AllCreated' /\ bg[d].stage = "asked" /\ tb \notin tables[ProcessOf(d)]
              /\ net'[d][NameNode] = << >> /\ net[NameNode][d] = << >> /\ Holds(creating'[tb].toReply, d)
  PROVE  \A d \in Bgs : NameNodeOK(d)' /\ SameToCount(d)
<1> SUFFICES ASSUME NEW d \in Bgs PROVE NameNodeOK(d)' /\ SameToCount(d)
  OBVIOUS
<1> DEFINE m == TableMsg("CreateTableReply", tb)
           m2 == Msg("CreatedAllTables")
           x == IF d \in R THEN << m >> ELSE net[NameNode][d]
<1>1. /\ FromNameNode(d) /\ ToNameNode(d) /\ bg'[d].stage = bg[d].stage /\ bg'[d].gone = bg[d].gone
      /\ WithInit(d) /\ nameNode'.stage = "run" /\ tables'[ProcessOf(d)] = tables[ProcessOf(d)]
      /\ ProcessOf(d) \in Clients /\ (IsHead(d) => HeadBg(ProcessOf(d)) = d)
  <2>1. d \in connected[NameNode]
    BY AllConnected
  <2> QED  BY <2>1, Workers DEF IsHead, IInv, FromNameNodeInv, ToNameNodeInv, StagesInv
<1>2. net'[NameNode][d] = IF AllCreated' /\ IsHead(d) THEN Append(x, m2) ELSE x
  BY DEF Answers
<1>3. ~Exited(NameNode) /\ ~Exited(NameNode)'
  BY <1>1 DEF Exited
<1>4. ToNameNode(d)'
  <2>1. net'[d][NameNode] = net[d][NameNode] \/ net'[d][NameNode] = << >>
    BY <1>1 DEF MayAnswer
  <2> QED  BY <1>1, <2>1 DEF ToNameNode, Down
<1>5. CASE d \in R
  <2>1. /\ bg[d].stage = "asked" /\ tb \notin tables[ProcessOf(d)] /\ net'[d][NameNode] = << >>
        /\ net[NameNode][d] = << >> /\ IsHead(d)
    BY <1>5 DEF MayAnswer
  <2>2. net'[NameNode][d] = IF AllCreated' THEN << m, m2 >> ELSE << m >>
    <3> HIDE DEF m, m2
    <3>1. x = << m >>
      BY <1>5
    <3>2. net'[NameNode][d] = IF AllCreated' THEN Append(<< m >>, m2) ELSE << m >>
      BY <1>2, <2>1, <3>1
    <3>3. Append(<< m >>, m2) = << m, m2 >>
      BY SecondMessage
    <3> QED  BY <3>2, <3>3
  <2>3. AskedFor(d, tb)'
    BY <2>1, <2>2 DEF AskedFor
  <2>4. FromNameNode(d)'
    BY <1>1, <2>1, <2>3 DEF FromNameNode, Runs
  <2>5. net'[NameNode][d] # << Msg("ClientStart") >> /\ net[NameNode][d] # << Msg("ClientStart") >>
    <3> DEFINE m1 == Msg("ClientStart")
    <3>1. m1 # m /\ m1 # m2
      BY DEF Msg, TableMsg
    <3> HIDE DEF m1, m, m2
    <3>2. << m >> # << m1 >> /\ << m, m2 >> # << m1 >> /\ << m1 >> # << >>
      BY <3>1, OneMessage, TwoMessages
    <3> QED  BY <2>1, <2>2, <3>2 DEF m1
  <2> QED  BY <1>3, <1>4, <2>4, <2>5 DEF NameNodeOK, SameToCount
<1>6. CASE d \notin R /\ AllCreated' /\ IsHead(d)
  <2>1. /\ x = net[NameNode][d] /\ net'[NameNode][d] = Append(net[NameNode][d], m2)
        /\ net'[d][NameNode] = net[d][NameNode]
    BY <1>2, <1>6
  <2>2. \A u \in Tables : Answered(ProcessOf(d), u)
    <3>1. ASSUME NEW u \in Tables PROVE Answered(ProcessOf(d), u)
      <4>1. Answered(ProcessOf(d), u)'
        BY <1>1, <1>6
      <4>2. ShapeInv /\ tables' = tables
        BY DEF IInv
      <4> QED  BY <1>1, <1>6, <4>1, <4>2, AnsweredNext
    <3> QED  BY <3>1
  <2>3. CASE bg[d].stage = "all tables" /\ net[NameNode][d] = << >>
    <3>1. net'[NameNode][d] = << m2 >>
      <4> HIDE DEF m2
      <4>1. net'[NameNode][d] = Append(<< >>, m2)
        BY <2>1, <2>3
      <4> QED  BY <4>1, OneMessage
    <3>2. FromNameNode(d)'
      BY <1>1, <1>6, <2>3, <3>1 DEF FromNameNode, Runs
    <3>3. net'[NameNode][d] # << Msg("ClientStart") >> /\ net[NameNode][d] # << Msg("ClientStart") >>
      <4>1. << m2 >> # << Msg("ClientStart") >> /\ << Msg("ClientStart") >> # << >>
        BY OneMessage, Messages
      <4> QED  BY <2>3, <3>1, <4>1
    <3> QED  BY <1>3, <1>4, <3>2, <3>3 DEF NameNodeOK, SameToCount
  <2>4. ASSUME bg[d].stage = "asked", net[d][NameNode] = << >>,
               NEW u \in Tables \ tables[ProcessOf(d)], net[NameNode][d] = << TableMsg("CreateTableReply", u) >>
        PROVE  NameNodeOK(d)' /\ SameToCount(d)
    <3> DEFINE k == TableMsg("CreateTableReply", u)
    <3>1. net'[NameNode][d] = << k, m2 >>
      <4>1. net[NameNode][d] = << k >>
        BY <2>4
      <4> HIDE DEF k, m2
      <4>2. net'[NameNode][d] = Append(<< k >>, m2)
        BY <2>1, <4>1
      <4>3. Append(<< k >>, m2) = << k, m2 >>
        BY SecondMessage
      <4> QED  BY <4>2, <4>3
    <3>2. AskedFor(d, u)'
      BY <1>6, <2>1, <2>4, <3>1 DEF AskedFor
    <3>3. FromNameNode(d)'
      <4> HIDE DEF k
      <4> QED  BY <1>1, <2>4, <3>2 DEF FromNameNode, Runs
    <3>4. net'[NameNode][d] # << Msg("ClientStart") >> /\ net[NameNode][d] # << Msg("ClientStart") >>
      <4> DEFINE m1 == Msg("ClientStart")
      <4>1. m1 # k /\ m1 # m2 /\ net[NameNode][d] = << k >>
        BY <2>4 DEF Msg, TableMsg
      <4> HIDE DEF m1, k, m2
      <4>2. << k >> # << m1 >> /\ << k, m2 >> # << m1 >>
        BY <4>1, OneMessage, TwoMessages
      <4> QED  BY <3>1, <4>1, <4>2 DEF m1
    <3> QED  BY <1>3, <1>4, <3>3, <3>4 DEF NameNodeOK, SameToCount
  <2> QED  BY <1>6, <2>2, <2>3, <2>4, WaitsForAll
<1>7. CASE d \notin R /\ ~(AllCreated' /\ IsHead(d))
  <2>1. net'[NameNode][d] = net[NameNode][d]
    BY <1>2, <1>7
  <2>2. SameToCount(d)
    BY <1>3, <2>1 DEF SameToCount
  <2>3. bg[d].stage \notin Runs /\ ~(bg[d].stage = "table barrier" /\ IsHead(d))
    BY <1>1 DEF FromNameNode
  <2>4. bg[d].stage = "asked" => \E u \in Tables \ tables[ProcessOf(d)] : AskedFor(d, u)'
    <3> SUFFICES ASSUME bg[d].stage = "asked" PROVE \E u \in Tables \ tables[ProcessOf(d)] : AskedFor(d, u)'
      OBVIOUS
    <3>1. IsHead(d) /\ ~AllCreated'
      BY <1>1, <1>7 DEF WithInit
    <3>2. CASE net'[d][NameNode] = << >> /\ net[NameNode][d] = << >> /\ Holds(creating'[tb].toReply, d) /\ tb \notin tables[ProcessOf(d)]
      BY <2>1, <3>2 DEF AskedFor
    <3>3. CASE /\ net'[d][NameNode] = net[d][NameNode]
               /\ \A u \in Tables : Holds(creating[u].toReply, d) => Holds(creating'[u].toReply, d)
      <4>1. PICK u \in Tables \ tables[ProcessOf(d)] : AskedFor(d, u)
        BY <1>1 DEF FromNameNode
      <4>2. AskedFor(d, u)'
        BY <2>1, <3>1, <3>3, <4>1 DEF AskedFor
      <4> QED  BY <4>2
    <3> QED  BY <1>7, <3>2, <3>3
  <2>5. bg[d].stage = "all tables" => ~AllCreated'
    BY <1>1, <1>7 DEF WithInit
  <2>6. FromNameNode(d)'
    <3> HIDE DEF m, m2, x
    <3>1. /\ bg[d].stage = "connect" => net[NameNode][d] = << Msg("ConnectServer"), Msg("ClientStart") >>
          /\ bg[d].stage = "handshake" => net[NameNode][d] \in {<< >>, << Msg("ClientStart") >>}
          /\ bg[d].stage \in {"init barrier", "app", "tables", "table barrier", "all tables"} => net[NameNode][d] = << >>
      BY <1>1 DEF FromNameNode
    <3>2. bg[d].stage # "run" /\ bg[d].stage # "exited"
      BY <2>3 DEF Runs
    <3> QED  BY <1>1, <2>1, <2>3, <2>4, <2>5, <3>1, <3>2 DEF FromNameNode
  <2> QED  BY <1>4, <2>2, <2>6 DEF NameNodeOK
<1> QED  BY <1>5, <1>6, <1>7

\* All tables are created when all processes have been told so, and then nobody is queued.
LEMMA CreatedWhenAnswered ==
  ASSUME AllCreated', \A u \in Tables : creating'[u].clients = Cardinality({c \in Clients : Answered(c, u)'})
  PROVE  \A c \in Clients, u \in Tables : Answered(c, u)'
<1> SUFFICES ASSUME NEW u \in Tables PROVE \A c \in Clients : Answered(c, u)'
  OBVIOUS
<1>1. Cardinality({c \in Clients : Answered(c, u)'}) = Cardinality(Clients)
  BY DEF AllCreated, HaveCreatedAllTables
<1> QED  BY <1>1, EverybodyAnsweredNext

\* What is known of the creation of tables when the name node has answered all who waited for table tb.
LEMMA CreatingAnswered ==
  ASSUME IInv, UNCHANGED <<nameNode, connected, bg, tables>>, NEW tb \in Tables, NEW R,
         MayAnswer(R, tb), Answers(R, tb),
         \A u \in Tables \ {tb} : creating'[u] = creating[u],
         ReceivedFromAllServers(creating'[tb]), creating'[tb].known,
         \A d : ~Holds(creating'[tb].toReply, d), creating'[tb].toReply = << >>,
         creating'[tb].clients = Cardinality({c \in Clients : Answered(c, tb)'}),
         \A d \in Bgs : \A u \in Tables \ {tb} : Holds(creating[u].toReply, d) => d \notin R /\ net'[d][NameNode] = << >>
  PROVE  CreatingInv' /\ (AllCreated' => \A c \in Clients, u \in Tables : Answered(c, u)')
<1>0. ShapeInv /\ tables' = tables
  BY DEF IInv
<1>1. ASSUME NEW u \in Tables \ {tb}
      PROVE  /\ \A c \in Clients : Answered(c, u)' <=> Answered(c, u)
             /\ creating'[u].clients = Cardinality({c \in Clients : Answered(c, u)'})
  <2>1. \A c \in Clients : Answered(c, u)' <=> Answered(c, u)
    BY <1>0, AnsweredNext
  <2>2. {c \in Clients : Answered(c, u)'} = {c \in Clients : Answered(c, u)}
    BY <2>1
  <2>3. creating[u].clients = Cardinality({c \in Clients : Answered(c, u)})
    BY DEF IInv, CreatingInv, CreatingOK
  <2> QED  BY <2>1, <2>2, <2>3
<1>2. \A u \in Tables : creating'[u].clients = Cardinality({c \in Clients : Answered(c, u)'})
  BY <1>1
<1>3. AllCreated' => \A c \in Clients, u \in Tables : Answered(c, u)'
  BY <1>2, CreatedWhenAnswered
<1>4. ASSUME NEW u \in Tables \ {tb} PROVE CreatingOK(u)'
  <2>1. CreatingOK(u) /\ creating'[u] = creating[u]
    BY DEF IInv, CreatingInv
  <2>2. ASSUME NEW d \in Bgs, Holds(creating'[u].toReply, d) PROVE QueuedFor(d, u)'
    <3>1. QueuedFor(d, u) /\ d \notin R /\ net'[d][NameNode] = << >> /\ Holds(creating[u].toReply, d)
      BY <2>1, <2>2 DEF CreatingOK
    <3>2. ~AllCreated' \/ ~IsHead(d)
      <4> SUFFICES ASSUME AllCreated', IsHead(d) PROVE FALSE
        OBVIOUS
      <4>1. ProcessOf(d) \in Clients /\ HeadBg(ProcessOf(d)) = d
        BY Workers DEF IsHead
      <4>2. Answered(ProcessOf(d), u)
        BY <1>1, <1>3, <4>1
      <4> QED  BY <3>1, <4>1, <4>2 DEF Answered, QueuedFor, Holds
    <3>3. net'[NameNode][d] = << >>
      BY <3>1, <3>2 DEF Answers, QueuedFor
    <3>4. \A v \in Tables : Holds(creating'[v].toReply, d) => v = u
      BY <3>1 DEF QueuedFor
    <3> QED  BY <3>1, <3>3, <3>4 DEF QueuedFor
  <2>3. \A c \in Clients : Answered(c, u)' => ReceivedFromAllServers(creating'[u])
    BY <1>1, <2>1 DEF CreatingOK
  <2>4. /\ \A i, j \in DOMAIN creating'[u].toReply : creating'[u].toReply[i] = creating'[u].toReply[j] => i = j
        /\ \A d \in Bgs : Holds(creating'[u].toReply, d) => ~ReceivedFromAllServers(creating'[u])
        /\ ReceivedFromAllServers(creating'[u]) => creating'[u].known
    BY <2>1 DEF CreatingOK
  <2> QED  BY <1>1, <2>2, <2>3, <2>4 DEF CreatingOK
<1>5. CreatingOK(tb)'
  <2>1. \A i, j \in DOMAIN creating'[tb].toReply : creating'[tb].toReply[i] = creating'[tb].toReply[j] => i = j
    <3>1. \A i \in DOMAIN creating'[tb].toReply : FALSE
      OBVIOUS
    <3> QED  BY <3>1
  <2> QED  BY <2>1 DEF CreatingOK
<1> QED  BY <1>3, <1>4, <1>5 DEF CreatingInv

-----------------------------------------------------------------------------
(* Requests for tables.                                                    *)

\* One more in a queue.
LEMMA QueueAppended ==
  ASSUME NEW S, NEW q \in Seq(S), NEW x \in S
  PROVE  /\ Append(q, x) \in Seq(S)
         /\ \A k : Holds(Append(q, x), k) <=> Holds(q, k) \/ x = k
         /\ (\A i, j \in DOMAIN q : q[i] = q[j] => i = j) /\ ~Holds(q, x) =>
              \A i, j \in DOMAIN Append(q, x) : Append(q, x)[i] = Append(q, x)[j] => i = j
<1> DEFINE a == Append(q, x)
<1>1. /\ a \in Seq(S) /\ Len(a) = Len(q) + 1 /\ (\A i \in 1 .. Len(q) : a[i] = q[i]) /\ a[Len(q) + 1] = x
  BY AppendProperties
<1> HIDE DEF a
<1>2. Len(q) \in Nat /\ DOMAIN q = 1 .. Len(q) /\ DOMAIN a = 1 .. Len(a)
  BY <1>1, LenProperties
<1>3. /\ \A i \in DOMAIN a : i \in DOMAIN q \/ i = Len(q) + 1
      /\ \A i \in DOMAIN q : i \in DOMAIN a /\ i # Len(q) + 1 /\ a[i] = q[i]
      /\ Len(q) + 1 \in DOMAIN a
  BY <1>1, <1>2
<1>4. \A k : Holds(a, k) <=> Holds(q, k) \/ x = k
  BY <1>1, <1>3 DEF Holds
<1>5. ASSUME \A i, j \in DOMAIN q : q[i] = q[j] => i = j, ~Holds(q, x)
      PROVE  \A i, j \in DOMAIN a : a[i] = a[j] => i = j
  BY <1>1, <1>3, <1>5 DEF Holds
<1> QED  BY <1>1, <1>4, <1>5 DEF a

\* A worker has asked for table tb, and the name node comes to its request.
Requested(b, tb) ==
  /\ nameNode.stage = "run" /\ bg[b].stage = "asked" /\ IsHead(b) /\ tb \in Tables \ tables[ProcessOf(b)]
  /\ net[b][NameNode] = << TableMsg("CreateTable", tb) >> /\ net[NameNode][b] = << >>
  /\ UNCHANGED <<nameNode, connected, server, bg, tables, thread, clocks>>

\* It is answered at once
AnswerNow(b, tb) ==
  /\ ReceivedFromAllServers(creating[tb]) /\ creating[tb].known
  /\ creating' = [creating EXCEPT ![tb] = [creating[tb] EXCEPT !.known = TRUE, !.clients = @ + 1]]
  /\ net' = CreatedAllTables(Sent(Received(b, NameNode), NameNode, {b}, TableMsg("CreateTableReply", tb)), creating')

\* or later.
AnswerLater(b, tb) ==
  /\ ~ReceivedFromAllServers(creating[tb])
  /\ creating' = [creating EXCEPT ![tb] = [creating[tb] EXCEPT !.known = TRUE, !.toReply = Append(@, b)]]
  /\ net' = IF creating[tb].known THEN Received(b, NameNode)
            ELSE Sent(Received(b, NameNode), NameNode, Servers, TableMsg("CreateTable", tb))

\* HandleCreateTable asks the servers, or answers if they all have the table, or queues the worker.
LEMMA RequestComes ==
  ASSUME IInv, NEW b \in Bgs, HandleCreateTable(b)
  PROVE  \E tb \in Tables : Requested(b, tb) /\ (AnswerNow(b, tb) \/ AnswerLater(b, tb))
<1> DEFINE q == net[b][NameNode]
           tb == Head(q).table
           ready == ReceivedFromAllServers(creating[tb])
<1>1. /\ nameNode.stage = "run" /\ q # << >> /\ Head(q).type = "CreateTable"
      /\ UNCHANGED <<nameNode, connected, server, bg, tables, thread, clocks>>
  BY DEF HandleCreateTable, Incoming
<1>2. bg[b].stage = "asked" /\ net[NameNode][b] = << >> /\ tb \in Tables \ tables[ProcessOf(b)] /\ q = << TableMsg("CreateTable", tb) >>
  <2>1. q # << Msg("ClientShutDown") >>
    <3> DEFINE m == Msg("ClientShutDown")
    <3>1. m.type # "CreateTable"
      BY DEF Msg
    <3> HIDE DEF m
    <3>2. Head(<< m >>) = m
      BY OneMessage
    <3>3. q # << m >>
      BY <1>1, <3>1, <3>2
    <3> QED  BY <3>3 DEF m
  <2>2. bg[b].stage = "asked" /\ net[NameNode][b] = << >>
    BY <1>1, <2>1, NameNodeHears
  <2>3. PICK u \in Tables \ tables[ProcessOf(b)] : q = << TableMsg("CreateTable", u) >>
    BY <1>1, <2>1, NameNodeHears
  <2>4. Head(q).table = u
    <3> DEFINE m == TableMsg("CreateTable", u)
    <3>1. m.table = u
      BY DEF TableMsg
    <3> HIDE DEF m
    <3>2. Head(<< m >>) = m
      BY OneMessage
    <3>3. q = << m >>
      BY <2>3 DEF m
    <3> QED  BY <3>1, <3>2, <3>3
  <2> QED  BY <2>2, <2>3, <2>4
<1>3. IsHead(b)
  BY <1>2, WhileCreating DEF Creates
<1>4. Requested(b, tb)
  BY <1>1, <1>2, <1>3 DEF Requested
<1>5. ready => creating[tb].known
  BY <1>2 DEF IInv, CreatingInv, CreatingOK
<1>6. creating' = [creating EXCEPT ![tb] =
                     IF ready THEN [creating[tb] EXCEPT !.known = TRUE, !.clients = @ + 1]
                     ELSE [creating[tb] EXCEPT !.known = TRUE, !.toReply = Append(@, b)]]
  BY DEF HandleCreateTable, Content
<1>7. net' = IF ready
             THEN CreatedAllTables(
                    Sent(IF creating[tb].known THEN Received(b, NameNode)
                         ELSE Sent(Received(b, NameNode), NameNode, Servers, TableMsg("CreateTable", tb)),
                         NameNode, {b}, TableMsg("CreateTableReply", tb)), creating')
             ELSE IF creating[tb].known THEN Received(b, NameNode)
                  ELSE Sent(Received(b, NameNode), NameNode, Servers, TableMsg("CreateTable", tb))
  BY DEF HandleCreateTable, Content
<1> HIDE DEF tb, q
<1>8. CASE ready
  <2>1. creating' = [creating EXCEPT ![tb] = [creating[tb] EXCEPT !.known = TRUE, !.clients = @ + 1]]
    BY <1>6, <1>8
  <2>2. net' = CreatedAllTables(Sent(Received(b, NameNode), NameNode, {b}, TableMsg("CreateTableReply", tb)), creating')
    BY <1>5, <1>7, <1>8
  <2>3. AnswerNow(b, tb)
    BY <1>5, <1>8, <2>1, <2>2 DEF AnswerNow
  <2> QED  BY <1>2, <1>4, <2>3
<1>9. CASE ~ready
  <2>1. creating' = [creating EXCEPT ![tb] = [creating[tb] EXCEPT !.known = TRUE, !.toReply = Append(@, b)]]
    BY <1>6, <1>9
  <2>2. net' = IF creating[tb].known THEN Received(b, NameNode)
               ELSE Sent(Received(b, NameNode), NameNode, Servers, TableMsg("CreateTable", tb))
    BY <1>7, <1>9
  <2>3. AnswerLater(b, tb)
    BY <1>9, <2>1, <2>2 DEF AnswerLater
  <2> QED  BY <1>2, <1>4, <2>3
<1> QED  BY <1>8, <1>9

\* What a request for a table tells.
LEMMA RequestMeans ==
  ASSUME IInv, NEW b \in Bgs, NEW tb \in Tables, Requested(b, tb)
  PROVE  /\ \A d \in Bgs : d \in Entities /\ d \in Receivers(NameNode) /\ NameNode \in Receivers(d) /\ d # NameNode
         /\ \A s \in Servers : /\ s \in Entities /\ s \in Receivers(NameNode) /\ NameNode \in Receivers(s)
                               /\ s # NameNode /\ s # b /\ server[s].stage # "init" /\ ServerTables(s)
         /\ NameNode \in Entities /\ NameNode \notin Receivers(NameNode)
         /\ ProcessOf(b) \in Clients /\ HeadBg(ProcessOf(b)) = b
         /\ connected[NameNode] = Bgs \cup Servers /\ ~Down(b) /\ ~Answered(ProcessOf(b), tb) /\ ~AllCreated
         /\ \A u \in Tables : ~Holds(creating[u].toReply, b)
         /\ IsNet(Received(b, NameNode))
         /\ \A x \in Entities : \A y \in Receivers(x) :
              Received(b, NameNode)[x][y] = IF x = b /\ y = NameNode THEN << >> ELSE net[x][y]
<1>1. /\ \A d \in Bgs : d \in Entities /\ d \in Receivers(NameNode) /\ NameNode \in Receivers(d) /\ d # NameNode
      /\ \A s \in Servers : /\ s \in Entities /\ s \in Receivers(NameNode) /\ NameNode \in Receivers(s) /\ s # NameNode /\ s # b
                            /\ ServerTables(s)
      /\ NameNode \in Entities /\ NameNode \notin Receivers(NameNode)
      /\ ProcessOf(b) \in Clients /\ HeadBg(ProcessOf(b)) = b
  BY Channels1, EntitiesAre, Kinds, ReceiversOf, Workers DEF IInv, TablesInv, Requested, IsHead
<1>2. bg[b].stage \in Creates /\ connected[NameNode] = Bgs \cup Servers /\ ~Down(b)
  BY AllConnected, NotDown DEF Requested, Creates, Runs
<1>3. ~Answered(ProcessOf(b), tb) /\ ~AllCreated
  <2>1. ~Answered(ProcessOf(b), tb)
    BY <1>1 DEF Requested, Answered, Holds
  <2> QED  BY <1>1, <2>1, AllAnswered
<1>4. \A u \in Tables : ~Holds(creating[u].toReply, b)
  <2> SUFFICES ASSUME NEW u \in Tables, QueuedFor(b, u) PROVE FALSE
    BY DEF IInv, CreatingInv, CreatingOK
  <2> QED  BY OneMessage DEF QueuedFor, Requested
<1>5. ASSUME NEW s \in Servers PROVE server[s].stage # "init"
  <2> DEFINE d == Bg(ProcessOf(b), ChannelOf(s))
  <2>1. d \in Bgs /\ ProcessOf(d) = ProcessOf(b) /\ ChannelOf(d) = ChannelOf(s)
    BY <1>1, ServersKnown DEF Bgs, Bg, ProcessOf, ChannelOf
  <2>2. s \in OnChannel(Servers, d)
    BY <2>1, OnChannels
  <2> HIDE DEF d
  <2>3. InitOf(d) = InitOf(b)
    BY <2>1 DEF InitOf
  <2>4. bg[d].stage \in Creates
    BY <1>2, <2>1, <2>3, InStep
  <2>5. bg[d].stage \notin {"connect", "handshake"}
    BY <2>4 DEF Creates
  <2> QED  BY <2>1, <2>2, <2>5, AllStarted
<1>6. /\ IsNet(Received(b, NameNode))
      /\ \A x \in Entities : \A y \in Receivers(x) :
           Received(b, NameNode)[x][y] = IF x = b /\ y = NameNode THEN << >> ELSE net[x][y]
  <2> DEFINE q == net[b][NameNode]
             n == Received(b, NameNode)
             m == TableMsg("CreateTable", tb)
  <2>1. q = << m >>
    BY DEF Requested
  <2>2. IsNet(net)
    BY DEF IInv, ShapeInv
  <2> HIDE DEF m
  <2>3. q # << >> /\ Tail(q) = << >>
    BY <2>1, OneMessage
  <2>4. /\ IsNet(n)
        /\ \A x \in Entities : \A y \in Receivers(x) : n[x][y] = IF x = b /\ y = NameNode THEN Tail(net[b][NameNode]) ELSE net[x][y]
    BY <1>1, <2>2, <2>3, ReceivedNet
  <2> HIDE DEF n
  <2>5. IsNet(n) /\ \A x \in Entities : \A y \in Receivers(x) : n[x][y] = IF x = b /\ y = NameNode THEN << >> ELSE net[x][y]
    BY <2>3, <2>4
  <2> QED  BY <2>5 DEF n
<1> QED  BY <1>1, <1>2, <1>3, <1>4, <1>5, <1>6

\* The name node's own counts, when it takes a request.
LEMMA RequestTaken ==
  ASSUME IInv, NEW b \in Bgs, NEW tb \in Tables, Requested(b, tb), net'[b][NameNode] = << >>,
         \A x \in Entities : \A y \in Receivers(x) : x # NameNode /\ ~(x = b /\ y = NameNode) => net'[x][y] = net[x][y]
  PROVE  NameNodeInv' /\ \A d \in Bgs \ {b} : net'[d][NameNode] = net[d][NameNode]
<1>1. /\ UNCHANGED <<nameNode, connected, bg>>
      /\ \A d \in Bgs \ {b} : net'[d][NameNode] = net[d][NameNode]
      /\ \A s \in Servers : net'[s][NameNode] = net[s][NameNode]
      /\ ~Down(b) /\ connected[NameNode] = Bgs \cup Servers
  BY RequestMeans DEF Requested
<1>2. \A d \in Bgs : (Down(d) /\ net[d][NameNode] = << >>)' <=> Down(d) /\ net[d][NameNode] = << >>
  BY <1>1 DEF Down
<1> QED  BY <1>1, <1>2, NameNodeKnows DEF IInv

\* Nothing happens between the name node and the servers.
LEMMA TablesSame ==
  ASSUME TablesInv, SameToServers, SameFromServers, UNCHANGED <<nameNode, connected, server>>,
         \A u \in Tables : creating'[u].known = creating[u].known /\ creating'[u].servers = creating[u].servers
  PROVE  TablesInv'
<1>1. ASSUME NEW s \in Servers PROVE ServerTables(s)'
  BY <1>1 DEF TablesInv, ServerTables, Told, Replied, Holds, Requests, SameToServers, SameFromServers
<1>2. ASSUME NEW tb \in Tables PROVE CreatedOn(tb)' = CreatedOn(tb)
  BY DEF CreatedOn, Replied, Holds, SameFromServers
<1> QED  BY <1>1, <1>2 DEF TablesInv

\* HandleCreateTable, when all servers have created the table.
LEMMA AnswerNowKeeps ==
  ASSUME IInv, NEW b \in Bgs, NEW tb \in Tables, Requested(b, tb), AnswerNow(b, tb)
  PROVE  IInv'
<1> DEFINE n == Received(b, NameNode)
           R == {b}
           c == ProcessOf(b)
<1>1. /\ \A d \in Bgs : d \in Entities /\ d \in Receivers(NameNode) /\ NameNode \in Receivers(d) /\ d # NameNode
      /\ \A s \in Servers : s \in Entities /\ NameNode \in Receivers(s) /\ s \in Receivers(NameNode) /\ s # NameNode /\ s # b
      /\ NameNode \in Entities /\ NameNode \notin Receivers(NameNode) /\ c \in Clients /\ HeadBg(c) = b
      /\ ~Answered(c, tb) /\ ~AllCreated /\ \A u \in Tables : ~Holds(creating[u].toReply, b)
      /\ IsNet(n)
      /\ \A x \in Entities : \A y \in Receivers(x) : n[x][y] = IF x = b /\ y = NameNode THEN << >> ELSE net[x][y]
  BY RequestMeans
<1> HIDE DEF n
<1>2. /\ nameNode.stage = "run" /\ UNCHANGED <<nameNode, connected, server, bg, tables, thread, clocks>>
      /\ bg[b].stage = "asked" /\ IsHead(b) /\ tb \notin tables[c] /\ net[NameNode][b] = << >>
      /\ ReceivedFromAllServers(creating[tb]) /\ creating[tb].known
  BY DEF Requested, AnswerNow
<1>3. MayAnswer(R, tb) /\ \A d \in Bgs : n[NameNode][d] = net[NameNode][d]
  BY <1>1, <1>2 DEF MayAnswer
<1>4. /\ IsNet(net') /\ Answers(R, tb)
      /\ \A x \in Entities : \A y \in Receivers(x) : x # NameNode => net'[x][y] = n[x][y]
      /\ \A s \in Servers : net'[NameNode][s] = n[NameNode][s]
  <2>1. net' = CreatedAllTables(Sent(n, NameNode, R, TableMsg("CreateTableReply", tb)), creating')
    BY DEF AnswerNow, n
  <2> HIDE DEF R
  <2> QED  BY <1>1, <1>3, <2>1, AnswersNet
<1>5. /\ creating' \in [Tables -> CreatingTypes] /\ \A u \in Tables \ {tb} : creating'[u] = creating[u]
      /\ creating'[tb].known /\ creating'[tb].servers = creating[tb].servers
      /\ creating'[tb].toReply = creating[tb].toReply /\ creating'[tb].clients = creating[tb].clients + 1
  <2> DEFINE r == creating[tb]
             x == [r EXCEPT !.known = TRUE, !.clients = @ + 1]
  <2>1. creating \in [Tables -> CreatingTypes] /\ r \in CreatingTypes /\ creating' = [creating EXCEPT ![tb] = x]
    BY DEF IInv, ShapeInv, AnswerNow
  <2> HIDE DEF r
  <2>2. x \in CreatingTypes /\ x.known /\ x.servers = r.servers /\ x.toReply = r.toReply /\ x.clients = r.clients + 1
    <3> DEFINE Q == Seq({HeadBg(p) : p \in Clients})
    <3>1. r \in [known : BOOLEAN, servers : Nat, toReply : Q, clients : Nat]
      BY <2>1 DEF CreatingTypes
    <3> HIDE DEF Q
    <3>2. /\ r.servers \in Nat /\ r.toReply \in Q /\ r.clients + 1 \in Nat
          /\ x = [r EXCEPT !.known = TRUE, !.clients = r.clients + 1]
      BY <3>1
    <3> HIDE DEF x
    <3>4. x \in [known : BOOLEAN, servers : Nat, toReply : Q, clients : Nat]
      BY <3>1, <3>2
    <3>5. x.known = TRUE /\ x.servers = r.servers /\ x.toReply = r.toReply /\ x.clients = r.clients + 1
      BY <3>1, <3>2
    <3> QED  BY <3>4, <3>5 DEF CreatingTypes, Q
  <2> HIDE DEF x
  <2> QED  BY <2>1, <2>2 DEF r
<1>6. (\A d : ~Holds(creating'[tb].toReply, d)) /\ creating'[tb].toReply = << >>
  <2> DEFINE H == {HeadBg(p) : p \in Clients}
             q == creating[tb].toReply
  <2>1. q \in Seq(H) /\ H \subseteq Bgs
    BY Workers DEF IInv, ShapeInv, CreatingTypes
  <2>2. \A d \in Bgs : ~Holds(q, d)
    BY <1>2 DEF IInv, CreatingInv, CreatingOK
  <2> HIDE DEF H, q
  <2>3. DOMAIN q = 1 .. Len(q) /\ Len(q) \in Nat /\ \A i \in DOMAIN q : q[i] \in Bgs
    <3>1. DOMAIN q = 1 .. Len(q) /\ Len(q) \in Nat /\ \A i \in 1 .. Len(q) : q[i] \in H
      BY <2>1, LenProperties, ElementOfSeq
    <3> QED  BY <2>1, <3>1
  <2>4. \A i \in DOMAIN q : FALSE
    BY <2>2, <2>3 DEF Holds
  <2>5. Len(q) = 0
    BY <2>3, <2>4
  <2>6. q = << >>
    BY <2>1, <2>5, EmptySeq
  <2> QED  BY <1>5, <2>4, <2>6 DEF q, Holds
<1>7. creating'[tb].clients = Cardinality({p \in Clients : Answered(p, tb)'})
  <2> DEFINE S == {p \in Clients : Answered(p, tb)}
             T == {p \in Clients : Answered(p, tb)'}
  <2>1. \A p \in Clients : Answered(p, tb)' <=> Answered(p, tb) \/ p = c
    <3>1. ShapeInv /\ tables' = tables
      BY <1>2 DEF IInv
    <3>2. \A p \in Clients : Answered(p, tb)' <=> Answered(p, tb) \/ HeadBg(p) \in R
      <4> HIDE DEF R
      <4> QED  BY <1>3, <1>4, <3>1, AnsweredNext
    <3>3. \A p \in Clients : HeadBg(p) = b <=> p = c
      BY <1>1, Workers
    <3> QED  BY <3>2, <3>3
  <2>2. T = S \cup {c} /\ c \notin S
    BY <1>1, <2>1
  <2>3. S \in SUBSET Clients /\ c \in Clients \ S /\ IsFiniteSet(Clients) /\ creating[tb].clients = Cardinality(S)
    BY <1>1, <2>2, LifecycleAssumption DEF IInv, CreatingInv, CreatingOK
  <2> HIDE DEF S, T, c
  <2>4. Cardinality(S \cup {c}) = Cardinality(S) + 1
    BY <2>3, CountsAll
  <2> QED  BY <1>5, <2>2, <2>3, <2>4 DEF T
<1>8. /\ \A x \in Entities : \A y \in Receivers(x) : x # NameNode /\ ~(x = b /\ y = NameNode) => net'[x][y] = net[x][y]
      /\ net'[b][NameNode] = << >> /\ SameToServers /\ SameFromServers
  <2>1. net'[b][NameNode] = << >>
    BY <1>1, <1>4
  <2>2. \A x \in Entities : \A y \in Receivers(x) : x # NameNode /\ ~(x = b /\ y = NameNode) => net'[x][y] = net[x][y]
    BY <1>1, <1>4
  <2>3. SameToServers
    BY <1>1, <1>4 DEF SameToServers
  <2>4. SameFromServers
    BY <1>1, <1>4 DEF SameFromServers
  <2> QED  BY <2>1, <2>2, <2>3, <2>4
<1>9. NameNodeInv' /\ \A d \in Bgs \ {b} : net'[d][NameNode] = net[d][NameNode]
  BY <1>8, RequestTaken
<1>10. CreatingInv' /\ (AllCreated' => \A p \in Clients, u \in Tables : Answered(p, u)')
  <2>1. ASSUME NEW d \in Bgs, NEW u \in Tables \ {tb}, Holds(creating[u].toReply, d)
        PROVE  d \notin R /\ net'[d][NameNode] = << >>
    <3>1. QueuedFor(d, u)
      BY <2>1 DEF IInv, CreatingInv, CreatingOK
    <3> QED  BY <1>1, <1>9, <2>1, <3>1 DEF QueuedFor
  <2>2. ReceivedFromAllServers(creating'[tb])
    BY <1>2, <1>5 DEF ReceivedFromAllServers
  <2> HIDE DEF R
  <2> QED  BY <1>2, <1>3, <1>4, <1>5, <1>6, <1>7, <2>1, <2>2, CreatingAnswered
<1>11. \A d \in Bgs : NameNodeOK(d)' /\ SameToCount(d)
  <2>1. \A d \in R : net'[d][NameNode] = << >>
    BY <1>8
  <2>2. \A d \in Bgs \ R : /\ net'[d][NameNode] = net[d][NameNode]
                           /\ \A u \in Tables : Holds(creating[u].toReply, d) => Holds(creating'[u].toReply, d)
    BY <1>5, <1>9
  <2> HIDE DEF R
  <2> QED  BY <1>1, <1>2, <1>3, <1>4, <1>10, <2>1, <2>2, AnswersKeep
<1>12. TablesInv'
  <2>1. \A u \in Tables : creating'[u].known = creating[u].known /\ creating'[u].servers = creating[u].servers
    <3>1. creating[tb].known \in BOOLEAN /\ creating'[tb].known \in BOOLEAN
      BY <1>5 DEF IInv, ShapeInv, CreatingTypes
    <3> QED  BY <1>2, <1>5, <3>1
  <2> QED  BY <1>2, <1>8, <2>1, TablesSame DEF IInv
<1>13. NameNodeStep
  <2>1. \A x \in Entities : \A y \in Receivers(x) : x # NameNode /\ y # NameNode => net'[x][y] = net[x][y]
    BY <1>8
  <2>2. /\ connected \in [Servers \cup {NameNode} -> SUBSET (Bgs \cup Servers)]
        /\ nameNode \in [stage : {"init", "run", "exited"}, down : Nat]
    BY DEF IInv, ShapeInv
  <2> QED  BY <1>2, <1>4, <1>5, <2>1, <2>2 DEF NameNodeStep
<1> QED  BY <1>9, <1>10, <1>11, <1>12, <1>13, NameNodeStepKeeps

\* HandleCreateTable, when some server has not yet created the table.
LEMMA AnswerLaterKeeps ==
  ASSUME IInv, NEW b \in Bgs, NEW tb \in Tables, Requested(b, tb), AnswerLater(b, tb)
  PROVE  IInv'
<1> DEFINE n == Received(b, NameNode)
           c == ProcessOf(b)
           m == TableMsg("CreateTable", tb)
           new == ~creating[tb].known
<1>1. /\ \A d \in Bgs : d \in Entities /\ d \in Receivers(NameNode) /\ NameNode \in Receivers(d) /\ d # NameNode
      /\ \A s \in Servers : /\ s \in Entities /\ NameNode \in Receivers(s) /\ s \in Receivers(NameNode) /\ s # NameNode /\ s # b
                            /\ server[s].stage # "init" /\ ServerTables(s) /\ s \notin Bgs
      /\ NameNode \in Entities /\ NameNode \notin Receivers(NameNode) /\ c \in Clients /\ HeadBg(c) = b
      /\ ~Answered(c, tb) /\ ~AllCreated /\ \A u \in Tables : ~Holds(creating[u].toReply, b)
      /\ IsNet(n) /\ m \in Message
      /\ \A x \in Entities : \A y \in Receivers(x) : n[x][y] = IF x = b /\ y = NameNode THEN << >> ELSE net[x][y]
  BY RequestMeans, Messages, Kinds
<1> HIDE DEF n
<1>2. /\ nameNode.stage = "run" /\ UNCHANGED <<nameNode, connected, server, bg, tables, thread, clocks>>
      /\ bg[b].stage = "asked" /\ IsHead(b) /\ tb \notin tables[c] /\ net[NameNode][b] = << >>
      /\ ~ReceivedFromAllServers(creating[tb])
  BY DEF Requested, AnswerLater
<1>3. /\ creating' \in [Tables -> CreatingTypes] /\ \A u \in Tables \ {tb} : creating'[u] = creating[u]
      /\ creating'[tb].known /\ creating'[tb].servers = creating[tb].servers
      /\ creating'[tb].toReply = Append(creating[tb].toReply, b) /\ creating'[tb].clients = creating[tb].clients
      /\ \A d : Holds(creating'[tb].toReply, d) <=> Holds(creating[tb].toReply, d) \/ b = d
      /\ \A i, j \in DOMAIN creating'[tb].toReply : creating'[tb].toReply[i] = creating'[tb].toReply[j] => i = j
  <2> DEFINE Q == {HeadBg(p) : p \in Clients}
             r == creating[tb]
             x == [r EXCEPT !.known = TRUE, !.toReply = Append(@, b)]
             z == Append(r.toReply, b)
  <2>1. creating \in [Tables -> CreatingTypes] /\ r \in CreatingTypes /\ creating' = [creating EXCEPT ![tb] = x]
    BY DEF IInv, ShapeInv, AnswerLater
  <2>2. \A i, j \in DOMAIN r.toReply : r.toReply[i] = r.toReply[j] => i = j
    BY DEF IInv, CreatingInv, CreatingOK
  <2>3. ~Holds(r.toReply, b) /\ b \in Q
    BY <1>1
  <2>4. r \in [known : BOOLEAN, servers : Nat, toReply : Seq(Q), clients : Nat]
    BY <2>1 DEF CreatingTypes
  <2> HIDE DEF Q, r
  <2>5. r.toReply \in Seq(Q) /\ r.servers \in Nat /\ r.clients \in Nat
    BY <2>4
  <2>6. /\ z \in Seq(Q) /\ \A d : Holds(z, d) <=> Holds(r.toReply, d) \/ b = d
        /\ \A i, j \in DOMAIN z : z[i] = z[j] => i = j
    <3> DEFINE q == r.toReply
    <3>1. q \in Seq(Q) /\ b \in Q /\ ~Holds(q, b) /\ \A i, j \in DOMAIN q : q[i] = q[j] => i = j
      BY <2>2, <2>3, <2>5
    <3> HIDE DEF q
    <3>2. /\ Append(q, b) \in Seq(Q) /\ \A d : Holds(Append(q, b), d) <=> Holds(q, d) \/ b = d
          /\ \A i, j \in DOMAIN Append(q, b) : Append(q, b)[i] = Append(q, b)[j] => i = j
      BY <3>1, QueueAppended
    <3> QED  BY <3>2 DEF q
  <2>7. x = [r EXCEPT !.known = TRUE, !.toReply = z]
    BY <2>4
  <2> HIDE DEF x, z
  <2>8. x \in [known : BOOLEAN, servers : Nat, toReply : Seq(Q), clients : Nat]
    <3> DEFINE SQ == Seq(Q)
    <3>1. r \in [known : BOOLEAN, servers : Nat, toReply : SQ, clients : Nat] /\ z \in SQ
      BY <2>4, <2>6
    <3> HIDE DEF SQ
    <3>2. x \in [known : BOOLEAN, servers : Nat, toReply : SQ, clients : Nat]
      BY <2>7, <3>1
    <3> QED  BY <3>2 DEF SQ
  <2>9. x.known = TRUE /\ x.servers = r.servers /\ x.toReply = z /\ x.clients = r.clients
    <3> DEFINE SQ == Seq(Q)
    <3>1. r \in [known : BOOLEAN, servers : Nat, toReply : SQ, clients : Nat]
      BY <2>4
    <3> HIDE DEF SQ
    <3> QED  BY <2>7, <3>1
  <2>10. creating' \in [Tables -> CreatingTypes] /\ creating'[tb] = x /\ \A u \in Tables \ {tb} : creating'[u] = creating[u]
    BY <2>1, <2>8 DEF CreatingTypes, Q
  <2> QED  BY <2>6, <2>9, <2>10 DEF r, z
<1>4. /\ IsNet(net') /\ net'[b][NameNode] = << >>
      /\ \A x \in Entities : \A y \in Receivers(x) : x # NameNode /\ ~(x = b /\ y = NameNode) => net'[x][y] = net[x][y]
      /\ \A d \in Bgs : net'[NameNode][d] = net[NameNode][d]
      /\ \A s \in Servers : net'[NameNode][s] = IF new THEN Append(net[NameNode][s], m) ELSE net[NameNode][s]
  <2>1. CASE new
    <3>1. net' = Sent(n, NameNode, Servers, m)
      BY <2>1 DEF AnswerLater, n
    <3> HIDE DEF m, new
    <3>2. /\ IsNet(net')
          /\ \A x \in Entities : \A y \in Receivers(x) :
               net'[x][y] = IF x = NameNode /\ y \in Servers THEN Append(n[x][y], m) ELSE n[x][y]
      BY <1>1, <3>1, SentNet
    <3>3. \A d \in Bgs : net'[NameNode][d] = net[NameNode][d]
      BY <1>1, <3>2
    <3>4. \A s \in Servers : net'[NameNode][s] = Append(net[NameNode][s], m)
      BY <1>1, <3>2
    <3>5. net'[b][NameNode] = << >>
      BY <1>1, <3>2
    <3>6. \A x \in Entities : \A y \in Receivers(x) : x # NameNode /\ ~(x = b /\ y = NameNode) => net'[x][y] = net[x][y]
      BY <1>1, <3>2
    <3> QED  BY <2>1, <3>2, <3>3, <3>4, <3>5, <3>6
  <2>2. CASE ~new
    <3>1. net' = n
      BY <2>2 DEF AnswerLater, n
    <3> HIDE DEF m, new
    <3>2. net'[b][NameNode] = << >> /\ IsNet(net')
      BY <1>1, <3>1
    <3>3. \A x \in Entities : \A y \in Receivers(x) : x # NameNode /\ ~(x = b /\ y = NameNode) => net'[x][y] = net[x][y]
      BY <1>1, <3>1
    <3>4. \A d \in Bgs : net'[NameNode][d] = net[NameNode][d]
      BY <1>1, <3>1
    <3>5. \A s \in Servers : net'[NameNode][s] = net[NameNode][s]
      BY <1>1, <3>1
    <3> QED  BY <2>2, <3>2, <3>3, <3>4, <3>5
  <2> QED  BY <2>1, <2>2
<1>5. NameNodeInv' /\ \A d \in Bgs \ {b} : net'[d][NameNode] = net[d][NameNode]
  BY <1>4, RequestTaken
<1>6. \A p \in Clients, u \in Tables : Answered(p, u)' <=> Answered(p, u)
  BY <1>2, <1>4, Workers DEF Answered
<1>7. /\ \A u \in Tables : creating'[u].clients = Cardinality({p \in Clients : Answered(p, u)'})
      /\ ~AllCreated'
  <2>1. ASSUME NEW u \in Tables PROVE creating'[u].clients = Cardinality({p \in Clients : Answered(p, u)'})
    <3>1. {p \in Clients : Answered(p, u)'} = {p \in Clients : Answered(p, u)}
      BY <1>6
    <3>2. creating[u].clients = Cardinality({p \in Clients : Answered(p, u)})
      BY DEF IInv, CreatingInv, CreatingOK
    <3> QED  BY <1>3, <3>1, <3>2
  <2>2. ~AllCreated'
    <3> SUFFICES ASSUME AllCreated' PROVE FALSE
      OBVIOUS
    <3>1. Answered(c, tb)'
      BY <1>1, <2>1, CreatedWhenAnswered
    <3> QED  BY <1>1, <1>6, <3>1
  <2> QED  BY <2>1, <2>2
<1>8. CreatingInv'
  <2>1. ASSUME NEW u \in Tables, NEW d \in Bgs, Holds(creating'[u].toReply, d) PROVE QueuedFor(d, u)'
    <3>1. CASE d = b
      <4>1. \A v \in Tables : Holds(creating'[v].toReply, b) => v = tb
        BY <1>1, <1>3
      <4>2. QueuedFor(b, tb)'
        BY <1>2, <1>4, <4>1 DEF QueuedFor
      <4> QED  BY <2>1, <3>1, <4>1, <4>2
    <3>2. CASE d # b
      <4>1. \A v \in Tables : Holds(creating'[v].toReply, d) => Holds(creating[v].toReply, d)
        BY <1>3, <3>2
      <4>2. QueuedFor(d, u)
        BY <2>1, <4>1 DEF IInv, CreatingInv, CreatingOK
      <4> QED  BY <1>2, <1>4, <1>5, <3>2, <4>1, <4>2 DEF QueuedFor
    <3> QED  BY <3>1, <3>2
  <2>2. ASSUME NEW u \in Tables PROVE CreatingOK(u)'
    <3>1. CreatingOK(u)
      BY DEF IInv, CreatingInv
    <3>2. \A i, j \in DOMAIN creating'[u].toReply : creating'[u].toReply[i] = creating'[u].toReply[j] => i = j
      BY <1>3, <3>1 DEF CreatingOK
    <3>3. ReceivedFromAllServers(creating'[u]) <=> ReceivedFromAllServers(creating[u])
      BY <1>3 DEF ReceivedFromAllServers
    <3>4. \A d \in Bgs : Holds(creating'[u].toReply, d) => ~ReceivedFromAllServers(creating'[u])
      <4>1. CASE u = tb
        BY <1>2, <3>3, <4>1
      <4>2. CASE u # tb
        BY <1>3, <3>1, <4>2 DEF CreatingOK
      <4> QED  BY <4>1, <4>2
    <3>5. \A p \in Clients : Answered(p, u)' => ReceivedFromAllServers(creating'[u])
      BY <1>6, <3>1, <3>3 DEF CreatingOK
    <3>6. ReceivedFromAllServers(creating'[u]) => creating'[u].known
      BY <1>3, <3>1 DEF CreatingOK
    <3> QED  BY <1>7, <2>1, <3>2, <3>4, <3>5, <3>6 DEF CreatingOK
  <2> QED  BY <2>2 DEF CreatingInv
<1>9. \A d \in Bgs : NameNodeOK(d)' /\ SameToCount(d)
  <2> DEFINE R == {}
  <2>1. MayAnswer(R, tb) /\ \A d \in R : net'[d][NameNode] = << >>
    BY DEF MayAnswer
  <2>2. Answers(R, tb)
    BY <1>4, <1>7 DEF Answers
  <2>3. ASSUME NEW d \in Bgs \ R
        PROVE  \/ /\ net'[d][NameNode] = net[d][NameNode]
                  /\ \A u \in Tables : Holds(creating[u].toReply, d) => Holds(creating'[u].toReply, d)
               \/ /\ ~AllCreated' /\ bg[d].stage = "asked" /\ tb \notin tables[ProcessOf(d)]
                  /\ net'[d][NameNode] = << >> /\ net[NameNode][d] = << >> /\ Holds(creating'[tb].toReply, d)
    <3>1. CASE d = b
      BY <1>2, <1>3, <1>4, <1>7, <3>1
    <3>2. CASE d # b
      BY <1>3, <1>5, <3>2
    <3> QED  BY <3>1, <3>2
  <2>4. AllCreated' => \A p \in Clients, u \in Tables : Answered(p, u)'
    BY <1>7
  <2> HIDE DEF R
  <2> QED  BY <1>1, <1>2, <2>1, <2>2, <2>3, <2>4, AnswersKeep
<1>10. SameFromServers
  BY <1>1, <1>4 DEF SameFromServers
<1>11. TablesInv'
  <2>1. CASE ~new
    <3>1. SameToServers
      BY <1>4, <2>1 DEF SameToServers
    <3>2. \A u \in Tables : creating'[u].known = creating[u].known /\ creating'[u].servers = creating[u].servers
      <4>1. creating[tb].known \in BOOLEAN /\ creating'[tb].known \in BOOLEAN
        BY <1>3 DEF IInv, ShapeInv, CreatingTypes
      <4> QED  BY <1>3, <2>1, <4>1
    <3> QED  BY <1>2, <1>10, <3>1, <3>2, TablesSame DEF IInv
  <2>2. CASE new
    <3>1. ASSUME NEW s \in Servers
          PROVE  ServerTables(s)' /\ \A u \in Tables : Replied(s, u)' <=> Replied(s, u)
      <4> DEFINE q == net[NameNode][s]
      <4>1. /\ ServerTables(s) /\ q \in Seq(Message) /\ server[s].stage # "init"
            /\ net'[NameNode][s] = Append(q, m) /\ net'[s][NameNode] = net[s][NameNode]
        BY <1>1, <1>4, <1>10, <2>2, WorkerTypes DEF IInv, SameFromServers
      <4>2. ~Told(s, tb) /\ tb \notin server[s].tables
        BY <2>2, <4>1 DEF ServerTables
      <4>3. \A u : m = TableMsg("CreateTable", u) <=> u = tb
        BY DEF TableMsg
      <4>4. Requests(net'[NameNode][s], "CreateTable")
        <5>1. Requests(q, "CreateTable") /\ ~Holds(q, TableMsg("CreateTable", tb))
          BY <4>1, <4>2 DEF ServerTables, Told
        <5> HIDE DEF q
        <5>2. Requests(Append(q, TableMsg("CreateTable", tb)), "CreateTable")
          BY <1>1, <4>1, <5>1, RequestsAppended
        <5> QED  BY <4>1, <5>2
      <4>5. \A u \in Tables : Told(s, u)' <=> Told(s, u) \/ u = tb
        <5> HIDE DEF q, m
        <5>1. \A k : Holds(Append(q, m), k) <=> Holds(q, k) \/ m = k
          BY <1>1, <4>1, HoldsAppended
        <5> QED  BY <4>1, <4>3, <5>1 DEF Told, q
      <4>6. \A u \in Tables : Replied(s, u)' <=> Replied(s, u)
        BY <4>1 DEF Replied
      <4>7. IF s \in connected'[NameNode] THEN Requests(net'[s][NameNode], "CreateTableReply") ELSE server'[s].tables = {}
        BY <1>2, <4>1 DEF ServerTables
      <4> HIDE DEF q, m
      <4>8. ASSUME NEW u \in Tables
            PROVE  (/\ creating[u].known <=> Told(s, u) \/ u \in server[s].tables
                    /\ ~(Told(s, u) /\ u \in server[s].tables)
                    /\ Replied(s, u) => u \in server[s].tables
                    /\ creating[u].known => server[s].stage # "init" /\ nameNode.stage # "init")'
        <5>1. CASE u = tb
          BY <1>2, <1>3, <4>1, <4>2, <4>5, <4>6, <5>1 DEF ServerTables
        <5>2. CASE u # tb
          BY <1>2, <1>3, <4>1, <4>5, <4>6, <5>2 DEF ServerTables
        <5> QED  BY <5>1, <5>2
      <4> QED  BY <4>4, <4>6, <4>7, <4>8 DEF ServerTables
    <3>2. ASSUME NEW u \in Tables PROVE CreatedOn(u)' = CreatedOn(u)
      BY <1>2, <3>1 DEF CreatedOn
    <3>3. \A u \in Tables : creating'[u].servers = Cardinality(CreatedOn(u)')
      BY <1>3, <3>2 DEF IInv, TablesInv
    <3> QED  BY <3>1, <3>3 DEF TablesInv
  <2> QED  BY <2>1, <2>2
<1>12. NameNodeStep
  <2>1. \A x \in Entities : \A y \in Receivers(x) : x # NameNode /\ y # NameNode => net'[x][y] = net[x][y]
    BY <1>4
  <2>2. /\ connected \in [Servers \cup {NameNode} -> SUBSET (Bgs \cup Servers)]
        /\ nameNode \in [stage : {"init", "run", "exited"}, down : Nat]
    BY DEF IInv, ShapeInv
  <2> QED  BY <1>2, <1>3, <1>4, <2>1, <2>2 DEF NameNodeStep
<1> QED  BY <1>5, <1>8, <1>9, <1>11, <1>12, NameNodeStepKeeps

\* HandleCreateTable.
LEMMA HandleCreateTableKeeps ==
  ASSUME IInv, NEW b \in Bgs, HandleCreateTable(b)
  PROVE  IInv'
BY RequestComes, AnswerNowKeeps, AnswerLaterKeeps

-----------------------------------------------------------------------------
(* The replies of the servers.                                             *)

\* Server s has replied for table tb, and the name node comes to its reply.
Replying(s, tb) ==
  /\ nameNode.stage = "run" /\ net[s][NameNode] # << >>
  /\ Head(net[s][NameNode]) = TableMsg("CreateTableReply", tb)
  /\ UNCHANGED <<nameNode, connected, server, bg, tables, thread, clocks>>

Queued(tb) == {creating[tb].toReply[i] : i \in DOMAIN creating[tb].toReply}

\* It is the last server's reply
LastReply(s, tb) ==
  /\ creating[tb].servers + 1 = Cardinality(Servers)
  /\ creating' = [creating EXCEPT ![tb] =
                    [known |-> creating[tb].known, servers |-> creating[tb].servers + 1,
                     toReply |-> << >>, clients |-> creating[tb].clients + Len(creating[tb].toReply)]]
  /\ net' = CreatedAllTables(Sent(Received(s, NameNode), NameNode, Queued(tb), TableMsg("CreateTableReply", tb)), creating')

\* or not.
OneMoreReply(s, tb) ==
  /\ creating[tb].servers + 1 # Cardinality(Servers)
  /\ creating' = [creating EXCEPT ![tb] =
                    [known |-> creating[tb].known, servers |-> creating[tb].servers + 1,
                     toReply |-> creating[tb].toReply, clients |-> creating[tb].clients]]
  /\ net' = Received(s, NameNode)

\* HandleCreateTableReply counts a server's reply; after the last one the queue is answered.
LEMMA ReplyComes ==
  ASSUME IInv, NEW s \in Servers, HandleCreateTableReply(s)
  PROVE  \E tb \in Tables : Replying(s, tb) /\ (LastReply(s, tb) \/ OneMoreReply(s, tb))
<1> DEFINE q == net[s][NameNode]
           tb == Head(q).table
           r == creating[tb]
           entry == [r EXCEPT !.servers = @ + 1]
           ready == ReceivedFromAllServers(entry)
<1>1. /\ nameNode.stage = "run" /\ q # << >>
      /\ UNCHANGED <<nameNode, connected, server, bg, tables, thread, clocks>>
  BY DEF HandleCreateTableReply, Incoming
<1>2. tb \in Tables /\ Head(q) = TableMsg("CreateTableReply", tb)
  <2>1. q \in Seq(Message)
    BY Channels1, EntitiesAre, WorkerTypes DEF IInv
  <2>2. Requests(q, "CreateTableReply")
    BY <1>1, AllConnected DEF IInv, TablesInv, ServerTables
  <2>3. PICK u \in Tables : Head(q) = TableMsg("CreateTableReply", u)
    <3> HIDE DEF q
    <3> QED  BY <1>1, <2>1, <2>2, RequestsTaken
  <2>4. tb = u
    BY <2>3 DEF TableMsg
  <2> QED  BY <2>3, <2>4
<1>3. creating' = [creating EXCEPT ![tb] =
                     IF ready
                     THEN [entry EXCEPT !.toReply = << >>, !.clients = @ + Len(entry.toReply)]
                     ELSE entry]
  BY DEF HandleCreateTableReply, Content
<1>4. net' = IF ready
             THEN CreatedAllTables(Sent(Received(s, NameNode), NameNode, {entry.toReply[i] : i \in DOMAIN entry.toReply},
                                        TableMsg("CreateTableReply", tb)), creating')
             ELSE Received(s, NameNode)
  <2> DEFINE cr == [creating EXCEPT ![tb] = IF ready
                      THEN [entry EXCEPT !.toReply = << >>, !.clients = @ + Len(entry.toReply)]
                      ELSE entry]
  <2>1. net' = IF ready
               THEN CreatedAllTables(Sent(Received(s, NameNode), NameNode, {entry.toReply[i] : i \in DOMAIN entry.toReply},
                                          TableMsg("CreateTableReply", tb)), cr)
               ELSE Received(s, NameNode)
    BY Zenon DEF HandleCreateTableReply, Content
  <2>2. creating' = cr
    BY <1>3
  <2> HIDE DEF cr, ready, entry, tb
  <2> QED  BY <2>1, <2>2
<1>5. r \in CreatingTypes
  BY <1>2 DEF IInv, ShapeInv
<1>6. Replying(s, tb)
  BY <1>1, <1>2 DEF Replying
<1>7. /\ entry = [known |-> r.known, servers |-> r.servers + 1, toReply |-> r.toReply, clients |-> r.clients]
      /\ [entry EXCEPT !.toReply = << >>, !.clients = @ + Len(entry.toReply)] =
           [known |-> r.known, servers |-> r.servers + 1, toReply |-> << >>, clients |-> r.clients + Len(r.toReply)]
      /\ (ready <=> r.servers + 1 = Cardinality(Servers))
  <2> DEFINE Q == Seq({HeadBg(p) : p \in Clients})
  <2>1. r \in [known : BOOLEAN, servers : Nat, toReply : Q, clients : Nat]
    BY <1>5 DEF CreatingTypes
  <2> HIDE DEF Q, r
  <2>2. entry = [known |-> r.known, servers |-> r.servers + 1, toReply |-> r.toReply, clients |-> r.clients]
    BY <2>1
  <2> HIDE DEF entry
  <2>3. /\ entry.servers = r.servers + 1 /\ entry.toReply = r.toReply /\ entry.clients = r.clients /\ entry.known = r.known
    BY <2>2
  <2>4. ready <=> r.servers + 1 = Cardinality(Servers)
    BY <2>3 DEF ReceivedFromAllServers
  <2>5. [entry EXCEPT !.toReply = << >>, !.clients = @ + Len(entry.toReply)] =
           [known |-> r.known, servers |-> r.servers + 1, toReply |-> << >>, clients |-> r.clients + Len(r.toReply)]
    <3> DEFINE k == entry.clients + Len(entry.toReply)
               none == << >>
    <3>1. k = r.clients + Len(r.toReply)
      BY <2>3
    <3> HIDE DEF k, none
    <3>2. [entry EXCEPT !.toReply = none, !.clients = k] =
            [known |-> r.known, servers |-> r.servers + 1, toReply |-> none, clients |-> k]
      <4> DEFINE x == [entry EXCEPT !.toReply = none, !.clients = k]
      <4>1. entry \in [known : BOOLEAN, servers : Nat, toReply : Q, clients : Nat]
        BY <2>1, <2>2
      <4>2. none \in Q
        <5> DEFINE H == {HeadBg(p) : p \in Clients}
        <5> HIDE DEF H
        <5>1. << >> \in Seq(H)
          OBVIOUS
        <5> QED  BY <5>1 DEF none, Q, H
      <4>3. k \in Nat
        <5> DEFINE H == {HeadBg(p) : p \in Clients}
        <5>1. r.toReply \in Seq(H) /\ r.clients \in Nat
          BY <2>1 DEF Q
        <5> HIDE DEF H
        <5>2. Len(r.toReply) \in Nat
          BY <5>1, LenProperties
        <5> QED  BY <3>1, <5>1, <5>2
      <4>4. x \in [known : BOOLEAN, servers : Nat, toReply : Q, clients : Nat]
        BY <4>1, <4>2, <4>3
      <4>5. x.known = entry.known /\ x.servers = entry.servers /\ x.toReply = none /\ x.clients = k
        BY <4>1
      <4> HIDE DEF x
      <4>6. x = [known |-> x.known, servers |-> x.servers, toReply |-> x.toReply, clients |-> x.clients]
        BY <4>4
      <4> QED  BY <2>3, <4>5, <4>6 DEF x
    <3>3. [entry EXCEPT !.toReply = none, !.clients = k] = [entry EXCEPT !.toReply = none, !.clients = @ + Len(entry.toReply)]
      BY <2>2 DEF k
    <3> QED  BY <3>1, <3>2, <3>3 DEF none
  <2> QED  BY <2>2, <2>4, <2>5 DEF entry
<1>8. {entry.toReply[i] : i \in DOMAIN entry.toReply} = Queued(tb)
  <2>1. entry.toReply = r.toReply
    BY <1>7
  <2> HIDE DEF entry
  <2> QED  BY <2>1 DEF Queued
<1> DEFINE e1 == [entry EXCEPT !.toReply = << >>, !.clients = @ + Len(entry.toReply)]
<1> HIDE DEF tb, q, entry
<1>9. CASE ready
  <2>1. creating' = [creating EXCEPT ![tb] = e1]
    BY <1>3, <1>9
  <2>2. net' = CreatedAllTables(Sent(Received(s, NameNode), NameNode, Queued(tb), TableMsg("CreateTableReply", tb)), creating')
    BY <1>4, <1>8, <1>9
  <2>3. LastReply(s, tb)
    BY <1>7, <1>9, <2>1, <2>2 DEF LastReply
  <2> QED  BY <1>2, <1>6, <2>3
<1>10. CASE ~ready
  <2>1. creating' = [creating EXCEPT ![tb] = entry]
    BY <1>3, <1>10
  <2>2. net' = Received(s, NameNode)
    BY <1>4, <1>10
  <2>3. OneMoreReply(s, tb)
    BY <1>7, <1>10, <2>1, <2>2 DEF OneMoreReply
  <2> QED  BY <1>2, <1>6, <2>3
<1> QED  BY <1>9, <1>10

\* What a reply tells.
LEMMA ReplyMeans ==
  ASSUME IInv, NEW s \in Servers, NEW tb \in Tables, Replying(s, tb)
  PROVE  /\ \A d \in Bgs : d \in Entities /\ d \in Receivers(NameNode) /\ NameNode \in Receivers(d) /\ d # NameNode /\ d # s
         /\ \A z \in Servers : z \in Entities /\ z \in Receivers(NameNode) /\ NameNode \in Receivers(z) /\ z # NameNode
         /\ NameNode \in Entities /\ connected[NameNode] = Bgs \cup Servers
         /\ creating[tb].known /\ ~ReceivedFromAllServers(creating[tb]) /\ creating[tb].clients = 0 /\ ~AllCreated
         /\ \A c \in Clients : ~Answered(c, tb)
         /\ tb \in server[s].tables /\ s \notin CreatedOn(tb) /\ creating[tb].servers + 1 = Cardinality(CreatedOn(tb) \cup {s})
         /\ Requests(Tail(net[s][NameNode]), "CreateTableReply")
         /\ \A u \in Tables : Holds(Tail(net[s][NameNode]), TableMsg("CreateTableReply", u)) <=> Replied(s, u) /\ u # tb
         /\ IsNet(Received(s, NameNode))
         /\ \A x \in Entities : \A y \in Receivers(x) :
              Received(s, NameNode)[x][y] = IF x = s /\ y = NameNode THEN Tail(net[s][NameNode]) ELSE net[x][y]
<1> DEFINE q == net[s][NameNode]
           m == TableMsg("CreateTableReply", tb)
<1>1. /\ \A d \in Bgs : d \in Entities /\ d \in Receivers(NameNode) /\ NameNode \in Receivers(d) /\ d # NameNode /\ d # s
      /\ \A z \in Servers : z \in Entities /\ z \in Receivers(NameNode) /\ NameNode \in Receivers(z) /\ z # NameNode
      /\ NameNode \in Entities /\ connected[NameNode] = Bgs \cup Servers /\ ServerTables(s)
      /\ q \in Seq(Message) /\ q # << >> /\ Head(q) = m
  BY Channels1, EntitiesAre, Kinds, AllConnected, WorkerTypes DEF IInv, TablesInv, Replying
<1>2. Requests(Tail(q), "CreateTableReply") /\ ~Holds(Tail(q), m)
  <2>1. Requests(q, "CreateTableReply")
    BY <1>1 DEF ServerTables
  <2> HIDE DEF q, m
  <2> QED  BY <1>1, <2>1, RequestsTaken
<1>3. \A u \in Tables : Holds(Tail(q), TableMsg("CreateTableReply", u)) <=> Replied(s, u) /\ u # tb
  <2>1. \A k : Holds(q, k) <=> m = k \/ Holds(Tail(q), k)
    <3> HIDE DEF q, m
    <3> QED  BY <1>1, HoldsTaken
  <2>2. \A u : m = TableMsg("CreateTableReply", u) <=> u = tb
    BY DEF TableMsg
  <2> QED  BY <1>2, <2>1, <2>2 DEF Replied
<1>4. Replied(s, tb) /\ tb \in server[s].tables /\ creating[tb].known /\ s \notin CreatedOn(tb)
  <2>1. Replied(s, tb)
    <3>1. Holds(q, m)
      <4> HIDE DEF q, m
      <4> QED  BY <1>1, HoldsTaken
    <3> QED  BY <3>1 DEF Replied
  <2> QED  BY <1>1, <2>1 DEF ServerTables, CreatedOn
<1>5. creating[tb].servers + 1 = Cardinality(CreatedOn(tb) \cup {s}) /\ ~ReceivedFromAllServers(creating[tb])
  <2> DEFINE C == CreatedOn(tb)
  <2>1. C \in SUBSET Servers /\ IsFiniteSet(Servers) /\ s \in Servers \ C /\ creating[tb].servers = Cardinality(C)
    BY <1>4, NumberOfWorkers DEF CreatedOn, IInv, TablesInv
  <2> HIDE DEF C
  <2>2. Cardinality(C \cup {s}) = Cardinality(C) + 1 /\ Cardinality(C) # Cardinality(Servers)
    BY <2>1, CountsAll
  <2> QED  BY <2>1, <2>2 DEF C, ReceivedFromAllServers
<1>6. (\A c \in Clients : ~Answered(c, tb)) /\ creating[tb].clients = 0
  <2>1. \A c \in Clients : ~Answered(c, tb)
    BY <1>5 DEF IInv, CreatingInv, CreatingOK
  <2>2. {c \in Clients : Answered(c, tb)} = {}
    BY <2>1
  <2> QED  BY <2>1, <2>2, FS_EmptySet DEF IInv, CreatingInv, CreatingOK
<1>7. ~AllCreated
  <2>1. PICK c \in Clients : TRUE
    BY LifecycleAssumption
  <2> QED  BY <1>6, <2>1, AllAnswered
<1>8. /\ IsNet(Received(s, NameNode))
      /\ \A x \in Entities : \A y \in Receivers(x) :
           Received(s, NameNode)[x][y] = IF x = s /\ y = NameNode THEN Tail(net[s][NameNode]) ELSE net[x][y]
  <2>1. IsNet(net) /\ s \in Entities
    BY <1>1 DEF IInv, ShapeInv
  <2> QED  BY <1>1, <2>1, ReceivedNet
<1> QED  BY <1>1, <1>2, <1>3, <1>4, <1>5, <1>6, <1>7, <1>8

\* What the name node has counted, when it takes a reply.
LEMMA ReplyTaken ==
  ASSUME IInv, NEW s \in Servers, NEW tb \in Tables, Replying(s, tb),
         net'[s][NameNode] = Tail(net[s][NameNode]), SameToServers, SameFromBgs,
         \A z \in Servers \ {s} : net'[z][NameNode] = net[z][NameNode],
         \A u \in Tables : creating'[u].known = creating[u].known,
         \A u \in Tables \ {tb} : creating'[u].servers = creating[u].servers,
         creating'[tb].servers = creating[tb].servers + 1
  PROVE  NameNodeInv' /\ TablesInv'
<1>1. /\ UNCHANGED <<nameNode, connected, server, bg>> /\ connected[NameNode] = Bgs \cup Servers
      /\ tb \in server[s].tables /\ s \notin CreatedOn(tb) /\ creating[tb].servers + 1 = Cardinality(CreatedOn(tb) \cup {s})
      /\ Requests(net'[s][NameNode], "CreateTableReply")
      /\ \A u \in Tables : Replied(s, u)' <=> Replied(s, u) /\ u # tb
  BY ReplyMeans DEF Replying, Replied
<1>2. NameNodeInv'
  <2>1. \A d \in Bgs : (Down(d) /\ net[d][NameNode] = << >>)' <=> Down(d) /\ net[d][NameNode] = << >>
    BY <1>1 DEF Down, SameFromBgs
  <2> QED  BY <1>1, <2>1, NameNodeKnows DEF IInv
<1>3. ASSUME NEW z \in Servers
      PROVE  ServerTables(z)' /\ \A u \in Tables : Replied(z, u)' <=> Replied(z, u) /\ ~(z = s /\ u = tb)
  <2>1. /\ ServerTables(z) /\ net'[NameNode][z] = net[NameNode][z] /\ z \in connected'[NameNode] /\ z \in connected[NameNode]
        /\ \A u \in Tables : Told(z, u)' <=> Told(z, u)
    BY <1>1 DEF IInv, TablesInv, SameToServers, Told
  <2>2. \A u \in Tables : Replied(z, u)' <=> Replied(z, u) /\ ~(z = s /\ u = tb)
    <3>1. CASE z = s
      BY <1>1, <3>1
    <3>2. CASE z # s
      BY <3>2 DEF Replied
    <3> QED  BY <3>1, <3>2
  <2>3. Requests(net'[z][NameNode], "CreateTableReply")
    <3>1. CASE z = s
      BY <1>1, <3>1
    <3>2. CASE z # s
      BY <2>1, <3>2 DEF ServerTables
    <3> QED  BY <3>1, <3>2
  <2>4. Requests(net'[NameNode][z], "CreateTable")
    BY <2>1 DEF ServerTables
  <2>5. ASSUME NEW u \in Tables
        PROVE  (/\ creating[u].known <=> Told(z, u) \/ u \in server[z].tables
                /\ ~(Told(z, u) /\ u \in server[z].tables)
                /\ Replied(z, u) => u \in server[z].tables
                /\ creating[u].known => server[z].stage # "init" /\ nameNode.stage # "init")'
    BY <1>1, <2>1, <2>2 DEF ServerTables
  <2> QED  BY <2>1, <2>2, <2>3, <2>4, <2>5 DEF ServerTables
<1>4. ASSUME NEW u \in Tables PROVE creating'[u].servers = Cardinality(CreatedOn(u)')
  <2>1. CASE u = tb
    <3>1. CreatedOn(tb)' = CreatedOn(tb) \cup {s}
      BY <1>1, <1>3 DEF CreatedOn
    <3> QED  BY <1>1, <2>1, <3>1
  <2>2. CASE u # tb
    <3>1. CreatedOn(u)' = CreatedOn(u)
      BY <1>1, <1>3, <2>2 DEF CreatedOn
    <3> QED  BY <2>2, <3>1 DEF IInv, TablesInv
  <2> QED  BY <2>1, <2>2
<1> QED  BY <1>2, <1>3, <1>4 DEF TablesInv

\* HandleCreateTableReply, when some server has not yet replied.
LEMMA OneMoreReplyKeeps ==
  ASSUME IInv, NEW s \in Servers, NEW tb \in Tables, Replying(s, tb), OneMoreReply(s, tb)
  PROVE  IInv'
<1> DEFINE n == Received(s, NameNode)
           q == net[s][NameNode]
<1>1. /\ \A d \in Bgs : d \in Entities /\ d \in Receivers(NameNode) /\ NameNode \in Receivers(d) /\ d # NameNode /\ d # s
      /\ \A z \in Servers : z \in Entities /\ z \in Receivers(NameNode) /\ NameNode \in Receivers(z) /\ z # NameNode
      /\ NameNode \in Entities
      /\ ~AllCreated /\ (\A c \in Clients : ~Answered(c, tb)) /\ creating[tb].clients = 0
      /\ IsNet(n)
      /\ \A x \in Entities : \A y \in Receivers(x) : n[x][y] = IF x = s /\ y = NameNode THEN Tail(q) ELSE net[x][y]
  BY ReplyMeans
<1> HIDE DEF n, q
<1>2. nameNode.stage = "run" /\ UNCHANGED <<nameNode, connected, server, bg, tables, thread, clocks>>
  BY DEF Replying
<1>3. /\ creating' \in [Tables -> CreatingTypes] /\ \A u \in Tables \ {tb} : creating'[u] = creating[u]
      /\ creating'[tb].known = creating[tb].known /\ creating'[tb].servers = creating[tb].servers + 1
      /\ creating'[tb].toReply = creating[tb].toReply /\ creating'[tb].clients = creating[tb].clients
      /\ ~ReceivedFromAllServers(creating'[tb])
  <2> DEFINE r == creating[tb]
             Q == Seq({HeadBg(p) : p \in Clients})
             x == [known |-> r.known, servers |-> r.servers + 1, toReply |-> r.toReply, clients |-> r.clients]
  <2>1. creating \in [Tables -> CreatingTypes] /\ r \in CreatingTypes /\ creating' = [creating EXCEPT ![tb] = x]
        /\ r.servers + 1 # Cardinality(Servers)
    BY DEF IInv, ShapeInv, OneMoreReply
  <2>2. r \in [known : BOOLEAN, servers : Nat, toReply : Q, clients : Nat]
    BY <2>1 DEF CreatingTypes
  <2> HIDE DEF Q, r
  <2>3. x \in [known : BOOLEAN, servers : Nat, toReply : Q, clients : Nat]
    BY <2>2
  <2>4. x.known = r.known /\ x.servers = r.servers + 1 /\ x.toReply = r.toReply /\ x.clients = r.clients
    OBVIOUS
  <2> HIDE DEF x
  <2>5. creating' \in [Tables -> CreatingTypes] /\ creating'[tb] = x /\ \A u \in Tables \ {tb} : creating'[u] = creating[u]
    BY <2>1, <2>3 DEF CreatingTypes, Q
  <2> QED  BY <2>1, <2>4, <2>5 DEF r, ReceivedFromAllServers
<1>4. /\ IsNet(net') /\ net'[s][NameNode] = Tail(q)
      /\ \A x \in Entities : \A y \in Receivers(x) : ~(x = s /\ y = NameNode) => net'[x][y] = net[x][y]
  <2>1. net' = n
    BY DEF OneMoreReply, n
  <2> QED  BY <1>1, <2>1
<1>5. /\ SameToServers /\ SameFromBgs
      /\ \A z \in Servers \ {s} : net'[z][NameNode] = net[z][NameNode]
      /\ \A d \in Bgs : net'[NameNode][d] = net[NameNode][d] /\ net'[d][NameNode] = net[d][NameNode]
  <2>1. s # NameNode
    BY <1>1
  <2>2. SameToServers
    BY <1>1, <1>4, <2>1 DEF SameToServers
  <2>3. SameFromBgs
    BY <1>1, <1>4, <2>1 DEF SameFromBgs
  <2> QED  BY <1>1, <1>4, <2>1, <2>2, <2>3
<1>6. \A p \in Clients, u \in Tables : Answered(p, u)' <=> Answered(p, u)
  BY <1>2, <1>5, Workers DEF Answered
<1>7. /\ \A u \in Tables : creating'[u].clients = Cardinality({p \in Clients : Answered(p, u)'})
      /\ ~AllCreated'
  <2>1. ASSUME NEW u \in Tables PROVE creating'[u].clients = Cardinality({p \in Clients : Answered(p, u)'})
    <3>1. {p \in Clients : Answered(p, u)'} = {p \in Clients : Answered(p, u)}
      BY <1>6
    <3>2. creating[u].clients = Cardinality({p \in Clients : Answered(p, u)})
      BY DEF IInv, CreatingInv, CreatingOK
    <3> QED  BY <1>3, <3>1, <3>2
  <2>2. ~AllCreated'
    <3> SUFFICES ASSUME AllCreated' PROVE FALSE
      OBVIOUS
    <3>1. PICK c \in Clients : TRUE
      BY LifecycleAssumption
    <3>2. Answered(c, tb)'
      BY <2>1, CreatedWhenAnswered
    <3> QED  BY <1>1, <1>6, <3>2
  <2> QED  BY <2>1, <2>2
<1>8. CreatingInv'
  <2>1. \A u \in Tables : creating'[u].toReply = creating[u].toReply /\ creating'[u].known = creating[u].known
    BY <1>3
  <2>2. ASSUME NEW u \in Tables PROVE CreatingOK(u)'
    <3>1. CreatingOK(u)
      BY DEF IInv, CreatingInv
    <3>2. \A d \in Bgs : QueuedFor(d, u) => QueuedFor(d, u)'
      BY <1>2, <1>5, <2>1 DEF QueuedFor
    <3>3. CASE u = tb
      BY <1>1, <1>3, <1>6, <1>7, <2>1, <3>1, <3>2, <3>3 DEF CreatingOK
    <3>4. CASE u # tb
      <4>1. creating'[u] = creating[u]
        BY <1>3, <3>4
      <4> QED  BY <1>6, <1>7, <3>1, <3>2, <4>1 DEF CreatingOK
    <3> QED  BY <3>3, <3>4
  <2> QED  BY <2>2 DEF CreatingInv
<1>9. \A d \in Bgs : NameNodeOK(d)' /\ SameToCount(d)
  <2> DEFINE R == {}
  <2>1. MayAnswer(R, tb) /\ \A d \in R : net'[d][NameNode] = << >>
    BY DEF MayAnswer
  <2>2. Answers(R, tb)
    BY <1>5, <1>7 DEF Answers
  <2>3. \A d \in Bgs \ R : /\ net'[d][NameNode] = net[d][NameNode]
                           /\ \A u \in Tables : Holds(creating[u].toReply, d) => Holds(creating'[u].toReply, d)
    <3>1. \A u \in Tables : creating'[u].toReply = creating[u].toReply
      BY <1>3
    <3> QED  BY <1>5, <3>1
  <2>4. AllCreated' => \A p \in Clients, u \in Tables : Answered(p, u)'
    BY <1>7
  <2> HIDE DEF R
  <2> QED  BY <1>1, <1>2, <2>1, <2>2, <2>3, <2>4, AnswersKeep
<1>10. NameNodeInv' /\ TablesInv'
  <2>1. \A u \in Tables : creating'[u].known = creating[u].known
    BY <1>3
  <2>2. \A u \in Tables \ {tb} : creating'[u].servers = creating[u].servers
    BY <1>3
  <2>3. net'[s][NameNode] = Tail(net[s][NameNode])
    BY <1>4 DEF q
  <2> QED  BY <1>3, <1>5, <2>1, <2>2, <2>3, ReplyTaken
<1>11. NameNodeStep
  <2>1. \A x \in Entities : \A y \in Receivers(x) : x # NameNode /\ y # NameNode => net'[x][y] = net[x][y]
    BY <1>4
  <2>2. /\ connected \in [Servers \cup {NameNode} -> SUBSET (Bgs \cup Servers)]
        /\ nameNode \in [stage : {"init", "run", "exited"}, down : Nat]
    BY DEF IInv, ShapeInv
  <2> QED  BY <1>2, <1>3, <1>4, <2>1, <2>2 DEF NameNodeStep
<1> QED  BY <1>8, <1>9, <1>10, <1>11, NameNodeStepKeeps

\* Those who are queued for a table, one for each place in the queue.
LEMMA QueuedWorkers ==
  ASSUME IInv, NEW tb \in Tables
  PROVE  /\ MayAnswer(Queued(tb), tb)
         /\ \A d \in Queued(tb) : QueuedFor(d, tb) /\ Holds(creating[tb].toReply, d)
         /\ Cardinality({c \in Clients : HeadBg(c) \in Queued(tb)}) = Len(creating[tb].toReply)
<1> DEFINE q == creating[tb].toReply
           H == {HeadBg(c) : c \in Clients}
           T == {c \in Clients : HeadBg(c) \in Queued(tb)}
<1>1. q \in Seq(H) /\ H \subseteq Bgs /\ \A i, j \in DOMAIN q : q[i] = q[j] => i = j
  <2>1. creating[tb] \in CreatingTypes /\ CreatingOK(tb)
    BY DEF IInv, ShapeInv, CreatingInv
  <2>2. \A i, j \in DOMAIN q : q[i] = q[j] => i = j
    BY <2>1 DEF CreatingOK
  <2>3. q \in Seq(H)
    BY <2>1 DEF CreatingTypes
  <2> QED  BY <2>2, <2>3, Workers
<1>2. \A d \in Bgs : Holds(q, d) => QueuedFor(d, tb)
  BY DEF IInv, CreatingInv, CreatingOK
<1>3. \A d : d \in Queued(tb) <=> Holds(q, d)
  BY DEF Queued, Holds
<1> HIDE DEF q, H
<1>4. DOMAIN q = 1 .. Len(q) /\ Len(q) \in Nat /\ \A i \in DOMAIN q : q[i] \in H
  BY <1>1, LenProperties, ElementOfSeq
<1>5. ASSUME NEW d \in Queued(tb)
      PROVE  d \in Bgs /\ IsHead(d) /\ QueuedFor(d, tb) /\ ProcessOf(d) \in Clients /\ HeadBg(ProcessOf(d)) = d
  <2>1. PICK i \in DOMAIN q : q[i] = d
    BY <1>3 DEF Holds
  <2>2. d \in H /\ d \in Bgs
    BY <1>1, <1>4, <2>1
  <2>3. PICK c \in Clients : d = HeadBg(c)
    BY <2>2 DEF H
  <2>4. IsHead(d)
    BY <2>3, Workers DEF IsHead
  <2> QED  BY <1>2, <1>3, <2>2, <2>4, Workers DEF IsHead
<1>6. MayAnswer(Queued(tb), tb)
  BY <1>5 DEF MayAnswer, QueuedFor
<1>7. Cardinality(T) = Len(q)
  <2> DEFINE f == [i \in 1 .. Len(q) |-> ProcessOf(q[i])]
  <2>1. ASSUME NEW i \in 1 .. Len(q)
        PROVE  q[i] \in Queued(tb) /\ ProcessOf(q[i]) \in Clients /\ HeadBg(ProcessOf(q[i])) = q[i]
    <3>1. q[i] \in Queued(tb)
      BY <1>3, <1>4 DEF Holds
    <3> QED  BY <1>5, <3>1
  <2>2. f \in [1 .. Len(q) -> T]
    BY <2>1
  <2>3. \A i, j \in 1 .. Len(q) : f[i] = f[j] => i = j
    <3> SUFFICES ASSUME NEW i \in 1 .. Len(q), NEW j \in 1 .. Len(q), ProcessOf(q[i]) = ProcessOf(q[j]) PROVE i = j
      OBVIOUS
    <3>1. q[i] = q[j]
      BY <2>1
    <3> QED  BY <1>1, <1>4, <3>1
  <2>4. \A c \in T : \E i \in 1 .. Len(q) : f[i] = c
    <3> SUFFICES ASSUME NEW c \in T PROVE \E i \in 1 .. Len(q) : ProcessOf(q[i]) = c
      OBVIOUS
    <3>1. PICK i \in DOMAIN q : q[i] = HeadBg(c)
      BY <1>3 DEF Holds
    <3>2. ProcessOf(HeadBg(c)) = c
      BY Workers
    <3> QED  BY <1>4, <3>1, <3>2
  <2>5. IsFiniteSet(1 .. Len(q)) /\ Cardinality(1 .. Len(q)) = Len(q)
    <3> DEFINE k == Len(q)
               n == Cardinality(1 .. k)
    <3>1. 1 \in Int /\ k \in Int /\ k >= 0
      BY <1>4
    <3>2. IsFiniteSet(1 .. k) /\ n = IF 1 > k THEN 0 ELSE k - 1 + 1
      <4> HIDE DEF k
      <4> QED  BY <3>1, FS_Interval, Zenon
    <3> HIDE DEF n
    <3>3. n = k
      BY <3>1, <3>2
    <3> QED  BY <3>2, <3>3 DEF n
  <2> HIDE DEF f, T
  <2>6. Cardinality(T) = Cardinality(1 .. Len(q))
    BY <2>2, <2>3, <2>4, <2>5, SameNumber
  <2> QED  BY <2>5, <2>6
<1> QED  BY <1>3, <1>5, <1>6, <1>7 DEF q

\* HandleCreateTableReply, when it is the last one.
LEMMA LastReplyKeeps ==
  ASSUME IInv, NEW s \in Servers, NEW tb \in Tables, Replying(s, tb), LastReply(s, tb)
  PROVE  IInv'
<1> DEFINE n == Received(s, NameNode)
           q == net[s][NameNode]
           R == Queued(tb)
<1>1. /\ \A d \in Bgs : d \in Entities /\ d \in Receivers(NameNode) /\ NameNode \in Receivers(d) /\ d # NameNode /\ d # s
      /\ \A z \in Servers : z \in Entities /\ z \in Receivers(NameNode) /\ NameNode \in Receivers(z) /\ z # NameNode
      /\ NameNode \in Entities
      /\ ~AllCreated /\ (\A c \in Clients : ~Answered(c, tb)) /\ creating[tb].clients = 0 /\ creating[tb].known
      /\ IsNet(n)
      /\ \A x \in Entities : \A y \in Receivers(x) : n[x][y] = IF x = s /\ y = NameNode THEN Tail(q) ELSE net[x][y]
  BY ReplyMeans
<1> HIDE DEF n, q
<1>2. nameNode.stage = "run" /\ UNCHANGED <<nameNode, connected, server, bg, tables, thread, clocks>>
  BY DEF Replying
<1>3. /\ creating' \in [Tables -> CreatingTypes] /\ \A u \in Tables \ {tb} : creating'[u] = creating[u]
      /\ creating'[tb].known = creating[tb].known /\ creating'[tb].servers = creating[tb].servers + 1
      /\ creating'[tb].toReply = << >> /\ creating'[tb].clients = Len(creating[tb].toReply)
      /\ ReceivedFromAllServers(creating'[tb])
  <2> DEFINE r == creating[tb]
             H == {HeadBg(p) : p \in Clients}
             Q == Seq(H)
             k == r.clients + Len(r.toReply)
             none == << >>
             x == [known |-> r.known, servers |-> r.servers + 1, toReply |-> none, clients |-> k]
  <2>1. creating \in [Tables -> CreatingTypes] /\ r \in CreatingTypes /\ creating' = [creating EXCEPT ![tb] = x]
        /\ r.servers + 1 = Cardinality(Servers)
    BY DEF IInv, ShapeInv, LastReply
  <2>2. r \in [known : BOOLEAN, servers : Nat, toReply : Q, clients : Nat]
    BY <2>1 DEF CreatingTypes
  <2>3. none \in Q
    <3> HIDE DEF H
    <3> QED  OBVIOUS
  <2>4. r.clients = 0
    BY <1>1
  <2>5. k \in Nat /\ k = Len(r.toReply)
    <3> HIDE DEF H, r
    <3>1. Len(r.toReply) \in Nat
      BY <2>2, LenProperties
    <3> QED  BY <2>4, <3>1
  <2> HIDE DEF Q, r, k, none
  <2>6. x \in [known : BOOLEAN, servers : Nat, toReply : Q, clients : Nat]
    BY <2>2, <2>3, <2>5
  <2>7. x.known = r.known /\ x.servers = r.servers + 1 /\ x.toReply = none /\ x.clients = k
    OBVIOUS
  <2> HIDE DEF x
  <2>8. creating' \in [Tables -> CreatingTypes] /\ creating'[tb] = x /\ \A u \in Tables \ {tb} : creating'[u] = creating[u]
    BY <2>1, <2>6 DEF CreatingTypes, Q, H
  <2> QED  BY <2>1, <2>5, <2>7, <2>8 DEF r, none, ReceivedFromAllServers
<1>4. /\ MayAnswer(R, tb) /\ Cardinality({c \in Clients : HeadBg(c) \in R}) = Len(creating[tb].toReply)
      /\ \A d \in R : QueuedFor(d, tb) /\ Holds(creating[tb].toReply, d)
  BY QueuedWorkers
<1>5. \A d : Holds(creating[tb].toReply, d) => d \in R
  BY DEF Queued, Holds
<1> HIDE DEF R
<1>6. /\ IsNet(net') /\ Answers(R, tb)
      /\ \A x \in Entities : \A y \in Receivers(x) : x # NameNode => net'[x][y] = n[x][y]
      /\ \A z \in Servers : net'[NameNode][z] = n[NameNode][z]
  <2>1. \A d \in Bgs : n[NameNode][d] = net[NameNode][d]
    BY <1>1
  <2>2. net' = CreatedAllTables(Sent(n, NameNode, R, TableMsg("CreateTableReply", tb)), creating')
    BY DEF LastReply, n, R
  <2> QED  BY <1>1, <1>4, <2>1, <2>2, AnswersNet
<1>7. /\ net'[s][NameNode] = Tail(q)
      /\ \A x \in Entities : \A y \in Receivers(x) : x # NameNode /\ ~(x = s /\ y = NameNode) => net'[x][y] = net[x][y]
      /\ \A z \in Servers : net'[NameNode][z] = net[NameNode][z]
  <2>1. s # NameNode /\ net'[s][NameNode] = Tail(q)
    BY <1>1, <1>6
  <2> QED  BY <1>1, <1>6, <2>1
<1>8. /\ SameToServers /\ SameFromBgs
      /\ \A z \in Servers \ {s} : net'[z][NameNode] = net[z][NameNode]
      /\ \A d \in Bgs : net'[d][NameNode] = net[d][NameNode]
  <2>1. SameToServers
    BY <1>7 DEF SameToServers
  <2>2. SameFromBgs
    BY <1>1, <1>7 DEF SameFromBgs
  <2> QED  BY <1>1, <1>7, <2>1, <2>2
<1>9. creating'[tb].clients = Cardinality({c \in Clients : Answered(c, tb)'})
  <2>1. \A c \in Clients : Answered(c, tb)' <=> HeadBg(c) \in R
    <3>1. ShapeInv /\ tables' = tables
      BY <1>2 DEF IInv
    <3> QED  BY <1>1, <1>4, <1>6, <3>1, AnsweredNext
  <2>2. {c \in Clients : Answered(c, tb)'} = {c \in Clients : HeadBg(c) \in R}
    BY <2>1
  <2> QED  BY <1>3, <1>4, <2>2
<1>10. CreatingInv' /\ (AllCreated' => \A p \in Clients, u \in Tables : Answered(p, u)')
  <2>1. ASSUME NEW d \in Bgs, NEW u \in Tables \ {tb}, Holds(creating[u].toReply, d)
        PROVE  d \notin R /\ net'[d][NameNode] = << >>
    <3>1. QueuedFor(d, u)
      BY <2>1 DEF IInv, CreatingInv, CreatingOK
    <3>2. ~Holds(creating[tb].toReply, d)
      BY <3>1 DEF QueuedFor
    <3> QED  BY <1>4, <1>8, <3>1, <3>2 DEF QueuedFor
  <2>2. \A d : ~Holds(creating'[tb].toReply, d)
    <3>1. \A i \in DOMAIN << >> : FALSE
      OBVIOUS
    <3> QED  BY <1>3, <3>1 DEF Holds
  <2> QED  BY <1>1, <1>2, <1>3, <1>4, <1>6, <1>9, <2>1, <2>2, CreatingAnswered
<1>11. \A d \in Bgs : NameNodeOK(d)' /\ SameToCount(d)
  <2>1. \A d \in R : net'[d][NameNode] = << >>
    BY <1>4, <1>8 DEF MayAnswer, QueuedFor
  <2>2. ASSUME NEW d \in Bgs \ R
        PROVE  /\ net'[d][NameNode] = net[d][NameNode]
               /\ \A u \in Tables : Holds(creating[u].toReply, d) => Holds(creating'[u].toReply, d)
    <3>1. ~Holds(creating[tb].toReply, d)
      BY <1>5
    <3> QED  BY <1>3, <1>8, <3>1
  <2> QED  BY <1>1, <1>2, <1>4, <1>6, <1>10, <2>1, <2>2, AnswersKeep
<1>12. NameNodeInv' /\ TablesInv'
  <2>1. \A u \in Tables : creating'[u].known = creating[u].known
    BY <1>3
  <2>2. \A u \in Tables \ {tb} : creating'[u].servers = creating[u].servers
    BY <1>3
  <2>3. net'[s][NameNode] = Tail(net[s][NameNode])
    BY <1>7 DEF q
  <2> QED  BY <1>3, <1>8, <2>1, <2>2, <2>3, ReplyTaken
<1>13. NameNodeStep
  <2>1. \A x \in Entities : \A y \in Receivers(x) : x # NameNode /\ y # NameNode => net'[x][y] = net[x][y]
    BY <1>7
  <2>2. /\ connected \in [Servers \cup {NameNode} -> SUBSET (Bgs \cup Servers)]
        /\ nameNode \in [stage : {"init", "run", "exited"}, down : Nat]
    BY DEF IInv, ShapeInv
  <2> QED  BY <1>2, <1>3, <1>6, <2>1, <2>2 DEF NameNodeStep
<1> QED  BY <1>10, <1>11, <1>12, <1>13, NameNodeStepKeeps

\* HandleCreateTableReply.
LEMMA HandleCreateTableReplyKeeps ==
  ASSUME IInv, NEW s \in Servers, HandleCreateTableReply(s)
  PROVE  IInv'
BY ReplyComes, LastReplyKeeps, OneMoreReplyKeeps

-----------------------------------------------------------------------------
(* The invariant holds.                                                    *)

\* There are workers, servers and threads.
LEMMA NobodyMissing ==
  /\ Bgs # {} /\ Servers # {} /\ Clients # {}
  /\ \A s \in Servers : OnChannel(Bgs, s) # {}
  /\ Cardinality(Bgs) \in Nat \ {0} /\ Cardinality(Servers) \in Nat \ {0} /\ Cardinality(Clients) \in Nat \ {0}
  /\ \A b \in Bgs : Cardinality(ThreadsOf(ProcessOf(b))) \in Nat \ {0}
<1>1. PICK c \in Clients : TRUE
  BY LifecycleAssumption
<1>2. Bg(c, HeadChannel) \in Bgs /\ Server(c, HeadChannel) \in Servers
  BY LifecycleAssumption DEF Bgs, Servers
<1>3. ASSUME NEW s \in Servers PROVE OnChannel(Bgs, s) # {}
  <2>1. Bg(c, ChannelOf(s)) \in Bgs /\ ChannelOf(Bg(c, ChannelOf(s))) = ChannelOf(s)
    BY ServersKnown DEF Bgs, Bg, ChannelOf
  <2> QED  BY <2>1 DEF OnChannel
<1>4. \A S : IsFiniteSet(S) /\ S # {} => Cardinality(S) \in Nat \ {0}
  BY FS_CardinalityType, FS_EmptySet
<1>5. Cardinality(Bgs) \in Nat \ {0} /\ Cardinality(Servers) \in Nat \ {0} /\ Cardinality(Clients) \in Nat \ {0}
  BY <1>1, <1>2, <1>4, NumberOfWorkers, LifecycleAssumption
<1>6. ASSUME NEW b \in Bgs PROVE Cardinality(ThreadsOf(ProcessOf(b))) \in Nat \ {0}
  BY <1>4, NumberOfThreads, ThreadsKnown, Workers
<1> QED  BY <1>1, <1>2, <1>3, <1>5, <1>6

\* What is in the channels at the start.
LEMMA FirstMessages ==
  ASSUME Init
  PROVE  /\ IsNet(net)
         /\ \A b \in Bgs : net[b][NameNode] = << Msg("ClientConnect") >> /\ net[NameNode][b] = << >>
         /\ \A s \in Servers : net[s][NameNode] = << Msg("ServerConnect") >> /\ net[NameNode][s] = << >>
         /\ \A s \in Servers : \A b \in OnChannel(Bgs, s) : net[b][s] = << >> /\ net[s][b] = << >>
         /\ \A b \in Bgs : \A t \in ThreadsOf(ProcessOf(b)) : net[App(t)][b] = << >>
         /\ \A c \in Clients : net[HeadBg(c)][App(InitThread[c])] = << >>
<1> DEFINE m1 == Msg("ClientConnect")
           m2 == Msg("ServerConnect")
<1>1. net = [e \in Entities |-> [f \in Receivers(e) |->
               IF f # NameNode THEN << >> ELSE IF e \in Bgs THEN << m1 >> ELSE << m2 >>]]
  BY DEF Init
<1>2. m1 \in Message /\ m2 \in Message
  BY Messages
<1> HIDE DEF m1, m2
<1>3. << m1 >> \in Seq(Message) /\ << m2 >> \in Seq(Message) /\ << >> \in Seq(Message)
  BY <1>2
<1>4. \A e \in Entities : \A f \in Receivers(e) :
        net[e][f] = IF f # NameNode THEN << >> ELSE IF e \in Bgs THEN << m1 >> ELSE << m2 >>
  BY <1>1
<1>5. net = [e \in Entities |-> [f \in Receivers(e) |-> net[e][f]]]
  BY <1>1
<1>6. IsNet(net)
  BY <1>3, <1>4, <1>5 DEF IsNet
<1>7. /\ \A b \in Bgs : net[b][NameNode] = << m1 >> /\ net[NameNode][b] = << >>
      /\ \A s \in Servers : net[s][NameNode] = << m2 >> /\ net[NameNode][s] = << >>
      /\ \A s \in Servers : \A b \in OnChannel(Bgs, s) : net[b][s] = << >> /\ net[s][b] = << >>
  BY <1>4, Channels1, Kinds
<1>8. /\ \A b \in Bgs : \A t \in ThreadsOf(ProcessOf(b)) : net[App(t)][b] = << >>
      /\ \A c \in Clients : net[HeadBg(c)][App(InitThread[c])] = << >>
  BY <1>4, Channels2, Kinds
<1> QED  BY <1>6, <1>7, <1>8 DEF m1, m2

\* The initial states satisfy the invariant.
LEMMA InitKeeps == Init => IInv
<1> SUFFICES ASSUME Init PROVE IInv
  OBVIOUS
<1>1. /\ IsNet(net)
      /\ \A b \in Bgs : net[b][NameNode] = << Msg("ClientConnect") >> /\ net[NameNode][b] = << >>
      /\ \A s \in Servers : net[s][NameNode] = << Msg("ServerConnect") >> /\ net[NameNode][s] = << >>
      /\ \A s \in Servers : \A b \in OnChannel(Bgs, s) : net[b][s] = << >> /\ net[s][b] = << >>
      /\ \A b \in Bgs : \A t \in ThreadsOf(ProcessOf(b)) : net[App(t)][b] = << >>
      /\ \A c \in Clients : net[HeadBg(c)][App(InitThread[c])] = << >>
  BY FirstMessages
<1>2. /\ nameNode = [stage |-> "init", down |-> 0]
      /\ connected = [e \in Servers \cup {NameNode} |-> {}]
      /\ creating = [tb \in Tables |-> NotCreating]
      /\ server = [s \in Servers |-> [stage |-> "init", tables |-> {}, down |-> 0]]
      /\ bg = [b \in Bgs |-> [stage |-> "connect", started |-> 0, apps |-> 0, gone |-> 0, acks |-> 0]]
      /\ tables = [c \in Clients |-> {}]
      /\ thread = [t \in Threads |-> IF t = InitThread[ClientOf[t]] THEN "start" ELSE "new"]
      /\ clocks = [t \in Threads |-> 0]
  BY DEF Init
<1>3. /\ nameNode.stage = "init" /\ nameNode.down = 0 /\ connected[NameNode] = {}
      /\ \A s \in Servers : connected[s] = {} /\ server[s].stage = "init" /\ server[s].tables = {} /\ server[s].down = 0
      /\ \A b \in Bgs : /\ bg[b].stage = "connect" /\ bg[b].started = 0 /\ bg[b].apps = 0
                        /\ bg[b].gone = 0 /\ bg[b].acks = 0
      /\ \A c \in Clients : tables[c] = {}
      /\ \A t \in Threads : thread[t] = IF t = InitThread[ClientOf[t]] THEN "start" ELSE "new"
  BY <1>2
<1>4. \A tb \in Tables : /\ creating[tb] = NotCreating /\ creating[tb].known = FALSE /\ creating[tb].servers = 0
                         /\ creating[tb].toReply = << >> /\ creating[tb].clients = 0
  BY <1>2 DEF NotCreating
<1>5. (\A m : ~Holds(<< >>, m)) /\ \A type : Requests(<< >>, type)
  <2>1. \A i \in DOMAIN << >> : FALSE
    OBVIOUS
  <2> QED  BY <2>1 DEF Holds, Requests
<1>6. \A b \in Bgs : ~Down(b)
  BY <1>3, NobodyMissing DEF Down
<1>7. Cardinality({}) = 0
  BY FS_EmptySet
<1>8. ShapeInv
  <2>1. NotCreating \in CreatingTypes
    <3> DEFINE H == {HeadBg(p) : p \in Clients}
               none == << >>
               Q == Seq(H)
    <3>1. none \in Q
      <4> HIDE DEF H
      <4> QED  OBVIOUS
    <3> HIDE DEF none, Q
    <3>2. [known |-> FALSE, servers |-> 0, toReply |-> none, clients |-> 0]
            \in [known : BOOLEAN, servers : Nat, toReply : Q, clients : Nat]
      BY <3>1
    <3> QED  BY <3>2 DEF none, Q, H, NotCreating, CreatingTypes
  <2>2. creating \in [Tables -> CreatingTypes]
    <3> HIDE DEF NotCreating, CreatingTypes
    <3> QED  BY <1>2, <2>1
  <2>3. /\ nameNode \in [stage : {"init", "run", "exited"}, down : Nat]
        /\ connected \in [Servers \cup {NameNode} -> SUBSET (Bgs \cup Servers)]
        /\ \A s \in Servers : connected[s] \subseteq OnChannel(Bgs, s)
    BY <1>2
  <2>4. server \in [Servers -> [stage : {"init", "run", "exited"}, tables : SUBSET Tables, down : Nat]]
    BY <1>2
  <2>5. bg \in [Bgs -> [stage : BgStages, started : Nat, apps : Nat, gone : Nat, acks : Nat]]
    BY <1>2 DEF BgStages
  <2>6. tables \in [Clients -> SUBSET Tables] /\ thread \in [Threads -> ThreadStages] /\ clocks \in [Threads -> Nat]
    BY <1>2 DEF ThreadStages
  <2> QED  BY <1>1, <2>2, <2>3, <2>4, <2>5, <2>6 DEF ShapeInv
<1>9. StagesInv
  <2>1. \A b \in Bgs : WithInit(b)
    BY <1>3, Channels2 DEF WithInit, InitOf, Starts
  <2>2. \A t \in Threads : AfterInit(t)
    BY <1>3 DEF AfterInit
  <2>3. \A c \in Clients : KnowsTables(c)
    BY <1>3, Workers, LifecycleAssumption DEF KnowsTables, Runs
  <2> QED  BY <2>1, <2>2, <2>3 DEF StagesInv
<1>10. NameNodeInv /\ ServerInv
  <2>1. \A e, W : W \subseteq Bgs => ShutDownsAt(e, W) = {}
    BY <1>6 DEF ShutDownsAt
  <2>2. \A s \in Servers : OnChannel(Bgs, s) \subseteq Bgs /\ OnChannel(Bgs, s) # {}
    BY NobodyMissing, OnChannels
  <2>3. NameNodeInv
    BY <1>1, <1>3, <1>7, <2>1, NobodyMissing DEF NameNodeInv
  <2>4. ServerInv
    BY <1>3, <1>7, <2>1, <2>2, NobodyMissing DEF ServerInv
  <2> QED  BY <2>3, <2>4
<1>11. FromNameNodeInv /\ ToNameNodeInv
  <2>1. \A b \in Bgs : FromNameNode(b)
    BY <1>1, <1>3 DEF FromNameNode, Runs
  <2> QED  BY <1>3, <2>1 DEF FromNameNodeInv, ToNameNodeInv
<1>12. ToServerInv /\ FromServerInv
  <2>1. \A s \in Servers : \A b \in OnChannel(Bgs, s) : b \in Bgs
    BY OnChannels
  <2>2. \A s \in Servers : \A b \in OnChannel(Bgs, s) : ToServer(b, s) /\ FromServer(s, b)
    BY <1>1, <1>3, <2>1 DEF ToServer, FromServer
  <2> QED  BY <2>2 DEF ToServerInv, FromServerInv
<1>13. StartedInv /\ AcksInv
  <2>1. \A b \in Bgs : OnChannel(Servers, b) \subseteq Servers
    BY OnChannels
  <2>2. \A b \in Bgs : StartsAt(b) = {}
    BY <1>3, <2>1 DEF StartsAt, Peers
  <2>3. \A b \in Bgs : AcksAt(b) = {}
    BY <1>3, <2>1, Kinds DEF AcksAt, Peers, Exited
  <2>4. 0 # Cardinality(Clients) + 1
    BY NobodyMissing
  <2>5. \A b \in Bgs : Cardinality(StartsAt(b)) = 0 /\ Cardinality(AcksAt(b)) = 0
    BY <1>7, <2>2, <2>3
  <2>6. StartedInv
    BY <1>3, <2>4, <2>5 DEF StartedInv
  <2>7. AcksInv
    BY <1>3, <2>4, <2>5 DEF AcksInv
  <2> QED  BY <2>6, <2>7
<1>14. AppsInv
  <2>1. \A b \in Bgs : AppsAt(b) = {} /\ GoneAt(b) = {}
    BY <1>3, Channels2 DEF AppsAt, GoneAt, Unregistered
  <2> QED  BY <1>3, <1>7, <2>1 DEF AppsInv
<1>15. FromInitInv /\ FromThreadInv /\ ToInitInv
  <2>1. \A b \in Bgs : FromInit(b)
    BY <1>1, <1>3, Channels2 DEF FromInit, Starts
  <2>2. \A b \in Bgs : \A t \in ThreadsOf(ProcessOf(b)) : FromThread(t, b)
    BY <1>1, <1>3, Channels2 DEF FromThread
  <2>3. \A c \in Clients : ToInit(c)
    BY <1>1, <1>3, Workers DEF ToInit
  <2> QED  BY <2>1, <2>2, <2>3 DEF FromInitInv, FromThreadInv, ToInitInv
<1>16. TablesInv
  <2>1. \A s \in Servers : \A tb \in Tables : ~Told(s, tb)
    BY <1>1, <1>5 DEF Told
  <2>2. \A s \in Servers : \A tb \in Tables : ~Replied(s, tb)
    <3> SUFFICES ASSUME NEW s \in Servers, NEW tb \in Tables PROVE ~Replied(s, tb)
      OBVIOUS
    <3> DEFINE m == Msg("ServerConnect")
               k == TableMsg("CreateTableReply", tb)
    <3>1. m # k /\ net[s][NameNode] = << m >>
      BY <1>1 DEF Msg, TableMsg
    <3> HIDE DEF m, k
    <3>2. ~Holds(net[s][NameNode], k)
      BY <3>1, OneMessage DEF Holds
    <3> QED  BY <3>2 DEF Replied, k
  <2>3. \A s \in Servers : Requests(net[NameNode][s], "CreateTable")
    BY <1>1, <1>5
  <2>4. \A s \in Servers : ServerTables(s)
    BY <1>3, <1>4, <2>1, <2>2, <2>3 DEF ServerTables
  <2>5. \A tb \in Tables : CreatedOn(tb) = {}
    BY <1>3 DEF CreatedOn
  <2> QED  BY <1>4, <1>7, <2>4, <2>5 DEF TablesInv
<1>17. CreatingInv
  <2>1. \A c \in Clients, tb \in Tables : ~Answered(c, tb)
    BY <1>1, <1>3, <1>5, Workers DEF Answered
  <2>2. \A tb \in Tables : {c \in Clients : Answered(c, tb)} = {}
    BY <2>1
  <2>3. \A tb \in Tables : ~ReceivedFromAllServers(creating[tb])
    BY <1>4, NobodyMissing DEF ReceivedFromAllServers
  <2>4. \A i \in DOMAIN << >> : FALSE
    OBVIOUS
  <2>5. ASSUME NEW tb \in Tables PROVE CreatingOK(tb)
    BY <1>4, <1>5, <1>7, <2>1, <2>2, <2>3, <2>4 DEF CreatingOK
  <2> QED  BY <2>5 DEF CreatingInv
<1> QED  BY <1>8, <1>9, <1>10, <1>11, <1>12, <1>13, <1>14, <1>15, <1>16, <1>17 DEF IInv

\* Nothing happens at all.
LEMMA UnchangedKeeps ==
  ASSUME IInv, UNCHANGED vars
  PROVE  IInv'
<1>1. UNCHANGED <<net, nameNode, connected, creating, server, bg, tables, thread, clocks>>
  BY DEF vars
<1>2. /\ SameToBgs /\ SameFromBgs /\ SameToServers /\ SameFromServers /\ SameOpLogs /\ SameAnswers /\ SameCalls /\ SameReturns
      /\ SameStages /\ SameGone
  BY <1>1 DEF SameToBgs, SameFromBgs, SameToServers, SameFromServers, SameOpLogs, SameAnswers, SameCalls, SameReturns,
              SameStages, SameGone
<1>3. ShapeInv'
  <2>1. ShapeInv
    BY DEF IInv
  <2> QED  BY <1>1, <2>1 DEF ShapeInv, IsNet
<1>4. StagesInv' /\ NameNodeInv' /\ TablesInv'
  BY <1>1, <1>2, StagesStay, NameNodeStays, TablesStay DEF IInv, SameFromServers
<1>5. FromNameNodeInv' /\ ToNameNodeInv' /\ CreatingInv'
  BY <1>1, <1>2, NameNodeSideStays
<1>6. AppsInv' /\ FromInitInv' /\ FromThreadInv' /\ ToInitInv'
  BY <1>1, <1>2, ThreadSideStays
<1>7. ServerInv' /\ ToServerInv' /\ FromServerInv'
  BY <1>1, <1>2, ServerSideStays
<1>8. StartedInv' /\ AcksInv'
  BY <1>1, <1>2, WorkerCountsStay
<1> QED  BY <1>3, <1>4, <1>5, <1>6, <1>7, <1>8 DEF IInv

\* Every step keeps the invariant.
LEMMA StepKeeps == IInv /\ [Next]_vars => IInv'
<1> SUFFICES ASSUME IInv, [Next]_vars PROVE IInv'
  OBVIOUS
<1>1. ASSUME NameNodeNext PROVE IInv'
  BY <1>1, NameNodeConnectionKeeps, HandleCreateTableKeeps, NameNodeShutDownKeeps, HandleCreateTableReplyKeeps
     DEF NameNodeNext
<1>2. ASSUME NEW s \in Servers, ServerNext(s) PROVE IInv'
  BY <1>2, ServerCreateTableKeeps, ServerConnectionKeeps, ServerOpLogKeeps, ServerShutDownKeeps DEF ServerNext
<1>3. ASSUME NEW b \in Bgs, BgNext(b) PROVE IInv'
  <2>1. CASE BgConnectServers(b) \/ BgInitThreadConnection(b) \/ BgCreateTable(b) \/ BgTableCreated(b) \/ BgCreatedAllTables(b)
    BY <2>1, BgConnectServersKeeps, BgInitThreadConnectionKeeps, BgCreateTableKeeps, BgTableCreatedKeeps, BgCreatedAllTablesKeeps
  <2>2. ASSUME NEW e \in {NameNode} \cup OnChannel(Servers, b), BgClientStart(b, e) \/ BgShutDownAck(b, e) PROVE IInv'
    BY <2>2, BgClientStartKeeps, BgShutDownAckKeeps
  <2>3. ASSUME NEW t \in ThreadsOf(ProcessOf(b)), BgAppConnect(b, t) \/ BgClock(b, t) \/ BgAppThreadDereg(b, t) PROVE IInv'
    BY <2>3, BgAppConnectKeeps, BgClockKeeps, BgAppThreadDeregKeeps
  <2> QED  BY <1>3, <2>1, <2>2, <2>3 DEF BgNext
<1>4. ASSUME NEW c \in Clients, PassInitBarrier(c) \/ PassCreateTableBarrier(c) PROVE IInv'
  BY <1>4, PassInitBarrierKeeps, PassCreateTableBarrierKeeps
<1>5. ASSUME NEW t \in Threads, ThreadNext(t) PROVE IInv'
  <2>1. CASE AppThreadRegister(t) \/ TableCreated(t) \/ RegisterThread(t) \/ ClockAllTables(t) \/ AppThreadDeregister(t)
    BY <2>1, AppThreadRegisterKeeps, TableCreatedKeeps, RegisterThreadKeeps, ClockAllTablesKeeps, AppThreadDeregisterKeeps
  <2>2. ASSUME NEW tb \in Tables, CreateTable(t, tb) PROVE IInv'
    BY <2>2, CreateTableKeeps
  <2> QED  BY <1>5, <2>1, <2>2 DEF ThreadNext
<1>6. CASE UNCHANGED vars
  BY <1>6, UnchangedKeeps
<1> QED  BY <1>1, <1>2, <1>3, <1>4, <1>5, <1>6 DEF Next

\* The invariant.
THEOREM IInvHolds == Spec => []IInv
<1>1. Init => IInv
  BY InitKeeps
<1>2. IInv /\ [Next]_vars => IInv'
  BY StepKeeps
<1> QED  BY <1>1, <1>2, PTL DEF Spec

-----------------------------------------------------------------------------
(* What follows from it.                                                   *)

\* Types, and no counter passes its bound.
LEMMA TypesHold == IInv => TypeOK
<1> SUFFICES ASSUME IInv PROVE TypeOK
  OBVIOUS
<1>1. /\ \A e \in Entities : net[e] \in [Receivers(e) -> Seq(Message)]
      /\ nameNode \in [stage : {"init", "run", "exited"}, down : Nat] /\ connected[NameNode] \subseteq Bgs \cup Servers
      /\ creating \in [Tables -> CreatingTypes]
      /\ \A s \in Servers : connected[s] \subseteq OnChannel(Bgs, s)
      /\ server \in [Servers -> [stage : {"init", "run", "exited"}, tables : SUBSET Tables, down : Nat]]
      /\ bg \in [Bgs -> [stage : BgStages, started : Nat, apps : Nat, gone : Nat, acks : Nat]]
      /\ tables \in [Clients -> SUBSET Tables] /\ thread \in [Threads -> ThreadStages] /\ clocks \in [Threads -> Nat]
  <2>1. ShapeInv
    BY DEF IInv
  <2>2. ASSUME NEW e \in Entities PROVE net[e] \in [Receivers(e) -> Seq(Message)]
    <3> DEFINE R == Receivers(e)
               Q == Seq(Message)
    <3>1. net[e] = [f \in R |-> net[e][f]] /\ \A f \in R : net[e][f] \in Q
      BY <2>1 DEF ShapeInv, IsNet
    <3> HIDE DEF R, Q
    <3>2. net[e] \in [R -> Q]
      BY <3>1
    <3> QED  BY <3>2 DEF R, Q
  <2> QED  BY <2>1, <2>2 DEF ShapeInv
<1>2. \A S, T, n : IsFiniteSet(S) /\ T \subseteq S /\ n = Cardinality(T) => n \in 0 .. Cardinality(S)
  BY CountsAll
<1>3. nameNode \in [stage : {"init", "run", "exited"}, down : 0 .. Cardinality(Bgs)]
  <2>1. ShutDownsAt(NameNode, Bgs) \subseteq Bgs
    BY DEF ShutDownsAt
  <2>2. nameNode.down = Cardinality(ShutDownsAt(NameNode, Bgs))
    BY DEF IInv, NameNodeInv
  <2>3. nameNode.down \in 0 .. Cardinality(Bgs)
    BY <1>2, <2>1, <2>2, NumberOfWorkers
  <2> DEFINE D == 0 .. Cardinality(Bgs)
  <2> HIDE DEF D
  <2>4. nameNode \in [stage : {"init", "run", "exited"}, down : D]
    BY <1>1, <2>3 DEF D
  <2> QED  BY <2>4 DEF D
<1>4. ASSUME NEW tb \in Tables
      PROVE  /\ creating[tb].known \in BOOLEAN
             /\ creating[tb].servers \in 0 .. Cardinality(Servers)
             /\ creating[tb].toReply \in Seq({HeadBg(c) : c \in Clients})
             /\ creating[tb].clients \in 0 .. Cardinality(Clients)
  <2> DEFINE S == {c \in Clients : Answered(c, tb)}
  <2>1. creating[tb] \in CreatingTypes
    BY <1>1
  <2>2. creating[tb].servers = Cardinality(CreatedOn(tb)) /\ CreatedOn(tb) \subseteq Servers
    BY DEF IInv, TablesInv, CreatedOn
  <2>3. creating[tb].clients = Cardinality(S) /\ S \subseteq Clients
    BY DEF IInv, CreatingInv, CreatingOK
  <2> HIDE DEF S
  <2>4. creating[tb].servers \in 0 .. Cardinality(Servers) /\ creating[tb].clients \in 0 .. Cardinality(Clients)
    BY <1>2, <2>2, <2>3, NumberOfWorkers, LifecycleAssumption
  <2> QED  BY <2>1, <2>4 DEF CreatingTypes
<1>5. ASSUME NEW s \in Servers
      PROVE  /\ server[s].stage \in {"init", "run", "exited"} /\ server[s].tables \subseteq Tables
             /\ server[s].down \in 0 .. Cardinality(Clients)
  <2> DEFINE W == OnChannel(Bgs, s)
  <2>1. server[s].down = Cardinality(ShutDownsAt(s, W)) /\ ShutDownsAt(s, W) \subseteq W
    BY DEF IInv, ServerInv, ShutDownsAt
  <2>2. IsFiniteSet(W) /\ Cardinality(W) = Cardinality(Clients)
    BY NumberOnChannel, ServersKnown
  <2> HIDE DEF W
  <2>3. server[s].down \in 0 .. Cardinality(Clients)
    BY <1>2, <2>1, <2>2
  <2> QED  BY <1>1, <2>3
<1>6. ASSUME NEW b \in Bgs
      PROVE  /\ bg[b].stage \in BgStages
             /\ bg[b].started \in 0 .. Cardinality(Clients) + 1 /\ bg[b].acks \in 0 .. Cardinality(Clients) + 1
             /\ bg[b].apps \in 0 .. Cardinality(ThreadsOf(ProcessOf(b))) /\ bg[b].gone \in 0 .. bg[b].apps
  <2>1. /\ bg[b].started = Cardinality(StartsAt(b)) /\ StartsAt(b) \subseteq Peers(b)
        /\ bg[b].acks = Cardinality(AcksAt(b)) /\ AcksAt(b) \subseteq Peers(b)
    BY DEF IInv, StartedInv, AcksInv, StartsAt, AcksAt
  <2>2. bg[b].started \in 0 .. Cardinality(Clients) + 1 /\ bg[b].acks \in 0 .. Cardinality(Clients) + 1
    <3>1. IsFiniteSet(Peers(b)) /\ Cardinality(Peers(b)) = Cardinality(Clients) + 1
      BY NumberOfPeers
    <3> QED  BY <1>2, <2>1, <3>1
  <2>3. /\ bg[b].apps = Cardinality(AppsAt(b)) /\ bg[b].gone = Cardinality(GoneAt(b))
        /\ AppsAt(b) \subseteq ThreadsOf(ProcessOf(b)) /\ GoneAt(b) \subseteq AppsAt(b)
    <3>1. \A m : ~Holds(<< >>, m)
      BY DEF Holds
    <3>2. GoneAt(b) \subseteq AppsAt(b)
      BY <3>1 DEF GoneAt, AppsAt, Unregistered
    <3> QED  BY <3>2 DEF IInv, AppsInv, AppsAt
  <2>4. IsFiniteSet(ThreadsOf(ProcessOf(b)))
    BY NumberOfThreads
  <2>5. IsFiniteSet(AppsAt(b))
    BY <2>3, <2>4, FS_Subset
  <2>6. bg[b].apps \in 0 .. Cardinality(ThreadsOf(ProcessOf(b)))
    BY <1>2, <2>3, <2>4
  <2>7. bg[b].gone \in 0 .. bg[b].apps
    BY <1>2, <2>3, <2>5
  <2> QED  BY <1>1, <2>2, <2>6, <2>7
<1> QED  BY <1>1, <1>3, <1>4, <1>5, <1>6 DEF TypeOK

\* When all tables are created, every server has them all, and nothing more
\* about tables is on its way between the name node and the servers.
LEMMA ServersHaveAll ==
  ASSUME IInv, AllCreated, NEW s \in Servers
  PROVE  server[s].tables = Tables /\ net[NameNode][s] = << >> /\ net[s][NameNode] = << >>
<1>1. PICK c \in Clients : TRUE
  BY LifecycleAssumption
<1>2. /\ ServerTables(s) /\ server[s].tables \subseteq Tables
      /\ net[NameNode][s] \in Seq(Message) /\ net[s][NameNode] \in Seq(Message)
  BY WorkerTypes, Channels1 DEF IInv, ShapeInv, TablesInv
<1>3. ASSUME NEW tb \in Tables PROVE tb \in server[s].tables /\ ~Told(s, tb) /\ ~Replied(s, tb) /\ creating[tb].known
  <2> DEFINE C == CreatedOn(tb)
  <2>1. ReceivedFromAllServers(creating[tb]) /\ creating[tb].known
    BY <1>1, AllAnswered
  <2>2. C \in SUBSET Servers /\ IsFiniteSet(Servers) /\ Cardinality(C) = Cardinality(Servers)
    BY <2>1, NumberOfWorkers DEF CreatedOn, IInv, TablesInv, ReceivedFromAllServers
  <2> HIDE DEF C
  <2>3. C = Servers
    BY <2>2, CountsAll
  <2>4. tb \in server[s].tables /\ ~Replied(s, tb)
    BY <2>3 DEF C, CreatedOn
  <2> QED  BY <1>2, <2>1, <2>4 DEF ServerTables
<1>4. s \in connected[NameNode]
  <2>1. PICK tb \in Tables : TRUE
    BY LifecycleAssumption
  <2> QED  BY <1>2, <1>3, <2>1 DEF ServerTables
<1>5. \A q \in Seq(Message) : \A type : Requests(q, type) /\ (\A tb \in Tables : ~Holds(q, TableMsg(type, tb))) => q = << >>
  <2> SUFFICES ASSUME NEW q \in Seq(Message), NEW type, Requests(q, type), q # << >>
               PROVE  \E tb \in Tables : Holds(q, TableMsg(type, tb))
    OBVIOUS
  <2>1. 1 \in DOMAIN q
    BY Taken
  <2> QED  BY <2>1 DEF Requests, Holds
<1>6. net[NameNode][s] = << >>
  BY <1>2, <1>3, <1>5 DEF ServerTables, Told
<1>7. net[s][NameNode] = << >>
  BY <1>2, <1>3, <1>4, <1>5 DEF ServerTables, Replied
<1> QED  BY <1>2, <1>3, <1>6, <1>7

\* Who may send to whom.
LEMMA Senders ==
  ASSUME IInv, NEW e \in Entities, NEW f \in DOMAIN net[e] \cap Daemons
  PROVE  /\ f \in Receivers(e) /\ net[e][f] \in Seq(Message)
         /\ f = NameNode => e \in Bgs \/ e \in Servers
         /\ f \in Servers => e = NameNode \/ e \in OnChannel(Bgs, f)
         /\ f \in Bgs => e \in Peers(f) \/ \E t \in ThreadsOf(ProcessOf(f)) : e = App(t)
         /\ f = NameNode \/ f \in Servers \/ f \in Bgs
<1>1. f \in Receivers(e) /\ net[e][f] \in Seq(Message)
  BY DEF IInv, ShapeInv, IsNet
<1>2. f = NameNode \/ f \in Servers \/ f \in Bgs
  BY DEF Daemons
<1>3. CASE e = NameNode
  BY <1>1, <1>2, <1>3, ReceiversOf, Kinds DEF Peers
<1>4. CASE e \in Bgs
  <2>1. f \notin Bgs
    BY <1>1, <1>4, ReceiversOf, Kinds, OnChannels, ThreadsKnown, Workers
  <2>2. f \in Servers => e \in OnChannel(Bgs, f)
    BY <1>1, <1>4, ReceiversOf, Kinds, OnChannels, ThreadsKnown, Workers
  <2> QED  BY <1>1, <1>2, <1>4, <2>1, <2>2
<1>5. CASE e \in Servers
  <2>1. f \notin Servers
    BY <1>1, <1>5, ReceiversOf, Kinds, OnChannels
  <2>2. f \in Bgs => e \in Peers(f)
    BY <1>1, <1>5, ReceiversOf, Kinds, OnChannels DEF Peers
  <2> QED  BY <1>1, <1>2, <1>5, <2>1, <2>2
<1>6. ASSUME NEW t \in Threads, e = App(t)
      PROVE  f \in Bgs /\ t \in ThreadsOf(ProcessOf(f))
  BY <1>1, <1>6, ReceiversOf, ThreadsKnown
<1> QED  BY <1>1, <1>2, <1>3, <1>4, <1>5, <1>6, EntitiesAre, Kinds

\* The type of the first message.
LEMMA FirstType ==
  ASSUME NEW q
  PROVE  /\ \A type : q = << Msg(type) >> => Head(q).type = type
         /\ \A type, tb : q = << TableMsg(type, tb) >> => Head(q).type = type
         /\ \A type, m : q = << Msg(type), m >> => Head(q).type = type
         /\ \A type, tb, m : q = << TableMsg(type, tb), m >> => Head(q).type = type
<1>1. \A a : q = << a >> => Head(q) = a
  BY OneMessage
<1>2. \A a, m : q = << a, m >> => Head(q) = a
  <2> SUFFICES ASSUME NEW a, NEW m, q = << a, m >> PROVE Head(q) = a
    OBVIOUS
  <2>1. Head(<< a, m >>) = a
    BY TwoMessages
  <2> QED  BY <2>1
<1>3. \A type, tb : Msg(type).type = type /\ TableMsg(type, tb).type = type
  BY Messages
<1>4. ASSUME NEW type, NEW m, q = << Msg(type) >> \/ q = << Msg(type), m >> PROVE Head(q).type = type
  <2>1. Head(q) = Msg(type)
    BY <1>1, <1>2, <1>4, Zenon
  <2> QED  BY <1>3, <2>1
<1>5. ASSUME NEW type, NEW tb, NEW m, q = << TableMsg(type, tb) >> \/ q = << TableMsg(type, tb), m >> PROVE Head(q).type = type
  <2>1. Head(q) = TableMsg(type, tb)
    BY <1>1, <1>2, <1>5, Zenon
  <2> QED  BY <1>3, <2>1
<1> QED  BY <1>4, <1>5, Zenon

\* What the name node receives is what it expects,
LEMMA NameNodeExpects ==
  ASSUME IInv, NEW e \in Bgs \cup Servers, net[e][NameNode] # << >>, Expected(NameNode) # {}
  PROVE  Head(net[e][NameNode]).type \in Expected(NameNode)
<1> DEFINE q == net[e][NameNode]
           type == Head(q).type
<1>1. q \in Seq(Message) /\ nameNode.stage \in {"init", "run", "exited"}
  BY WorkerTypes, Channels1 DEF IInv
<1>2. /\ nameNode.stage = "init" => Expected(NameNode) = {"ClientConnect", "ServerConnect"}
      /\ nameNode.stage = "run" => Expected(NameNode) = {"ClientShutDown", "CreateTable", "CreateTableReply"}
      /\ nameNode.stage = "exited" => Expected(NameNode) = {}
  BY DEF Expected
<1>3. CASE nameNode.stage = "init" /\ e \in Bgs
  <2>1. q = << Msg("ClientConnect") >>
    <3>1. bg[e].stage = "connect"
      BY <1>3, AllConnected
    <3>2. e \notin connected[NameNode]
      BY <1>3, <3>1 DEF IInv, ToNameNodeInv, ToNameNode
    <3> QED  BY <1>3, <3>2 DEF IInv, NameNodeInv
  <2>2. type = "ClientConnect"
    BY <2>1, FirstType, Zenon
  <2> QED  BY <1>2, <1>3, <2>2
<1>4. CASE nameNode.stage = "init" /\ e \in Servers
  <2>1. e \notin connected[NameNode]
    <3> SUFFICES ASSUME e \in connected[NameNode] PROVE FALSE
      OBVIOUS
    <3>1. ServerTables(e)
      BY <1>4 DEF IInv, TablesInv
    <3>2. Requests(q, "CreateTableReply")
      BY <3>1 DEF ServerTables
    <3>3. 1 \in DOMAIN q
      <4> HIDE DEF q
      <4> QED  BY <1>1, Taken DEF q
    <3>4. PICK tb \in Tables : q[1] = TableMsg("CreateTableReply", tb)
      BY <3>2, <3>3 DEF Requests
    <3>5. Replied(e, tb)
      BY <3>3, <3>4 DEF Replied, Holds
    <3> QED  BY <1>4, <3>1, <3>5 DEF ServerTables
  <2>2. q = << Msg("ServerConnect") >>
    BY <1>4, <2>1 DEF IInv, NameNodeInv
  <2>3. type = "ServerConnect"
    BY <2>2, FirstType, Zenon
  <2> QED  BY <1>2, <1>4, <2>3
<1>5. CASE nameNode.stage = "run" /\ e \in Bgs
  <2>1. q = << Msg("ClientShutDown") >> \/ \E tb \in Tables : q = << TableMsg("CreateTable", tb) >>
    BY <1>5, NameNodeHears
  <2>2. type = "ClientShutDown" \/ type = "CreateTable"
    <3>1. q = << Msg("ClientShutDown") >> => type = "ClientShutDown"
      BY FirstType, Zenon
    <3>2. ASSUME NEW tb, q = << TableMsg("CreateTable", tb) >> PROVE type = "CreateTable"
      <4> HIDE DEF q
      <4>1. Head(q).type = "CreateTable"
        BY <3>2, FirstType
      <4> QED  BY <4>1 DEF type
    <3> HIDE DEF q, type
    <3> QED  BY <2>1, <3>1, <3>2, Zenon
  <2> QED  BY <1>2, <1>5, <2>2
<1>6. CASE nameNode.stage = "run" /\ e \in Servers
  <2>1. Requests(q, "CreateTableReply")
    BY <1>6, AllConnected DEF IInv, TablesInv, ServerTables
  <2>2. PICK tb \in Tables : Head(q) = TableMsg("CreateTableReply", tb)
    <3> HIDE DEF q
    <3> QED  BY <1>1, <2>1, RequestsTaken DEF q
  <2>3. type = "CreateTableReply"
    BY <2>2 DEF TableMsg
  <2> QED  BY <1>2, <1>6, <2>3
<1> QED  BY <1>1, <1>2, <1>3, <1>4, <1>5, <1>6

\* so is what a server receives,
LEMMA ServerExpects ==
  ASSUME IInv, NEW s \in Servers, NEW e \in {NameNode} \cup OnChannel(Bgs, s),
         net[e][s] # << >>, Expected(s) # {}
  PROVE  Head(net[e][s]).type \in Expected(s)
<1> DEFINE q == net[e][s]
           type == Head(q).type
<1>1. q \in Seq(Message) /\ server[s].stage \in {"init", "run", "exited"} /\ s # NameNode
  BY WorkerTypes, Channels1, Kinds DEF IInv
<1>2. /\ server[s].stage = "init" => Expected(s) = {"ClientConnect"}
      /\ server[s].stage = "run" => Expected(s) = {"ClientShutDown", "CreateTable", "ClientSendOpLog"}
      /\ server[s].stage = "exited" => Expected(s) = {}
  BY <1>1 DEF Expected
<1>3. q[1] = Head(q) /\ 1 \in DOMAIN q
  <2>1. q # << >>
    OBVIOUS
  <2> HIDE DEF q
  <2> QED  BY <1>1, <2>1, Taken
<1>4. CASE e = NameNode
  <2>1. ServerTables(s) /\ Requests(q, "CreateTable")
    BY <1>4 DEF IInv, TablesInv, ServerTables
  <2>2. PICK tb \in Tables : q[1] = TableMsg("CreateTable", tb)
    BY <1>3, <2>1 DEF Requests
  <2>3. type = "CreateTable"
    BY <1>3, <2>2 DEF TableMsg
  <2>4. server[s].stage # "init"
    <3>1. Told(s, tb)
      BY <1>3, <1>4, <2>2 DEF Told, Holds
    <3> QED  BY <2>1, <3>1 DEF ServerTables
  <2> QED  BY <1>1, <1>2, <2>3, <2>4
<1>5. CASE e \in OnChannel(Bgs, s)
  <2>1. ToServer(e, s) /\ e \in Bgs /\ s \in OnChannel(Servers, e)
    BY <1>5, Channels1 DEF IInv, ToServerInv
  <2>2. CASE e \notin connected[s]
    <3>1. q = << Msg("ClientConnect") >>
      BY <2>1, <2>2 DEF ToServer
    <3>2. type = "ClientConnect"
      BY <3>1, FirstType, Zenon
    <3>3. server[s].stage = "init"
      BY <1>5, <2>2, AllConnected
    <3> QED  BY <1>2, <3>2, <3>3
  <2>3. CASE e \in connected[s]
    <3>1. bg[e].stage \in Runs /\ (q[1] = Msg("ClientSendOpLog") \/ q[1] = Msg("ClientShutDown"))
      BY <1>3, <2>1, <2>3 DEF ToServer
    <3>2. type = "ClientSendOpLog" \/ type = "ClientShutDown"
      BY <1>3, <3>1, Messages
    <3>3. bg[e].stage \notin {"connect", "handshake"}
      BY <3>1 DEF Runs
    <3>4. server[s].stage # "init"
      BY <2>1, <3>3, AllStarted
    <3> QED  BY <1>1, <1>2, <3>2, <3>4
  <2> QED  BY <2>2, <2>3
<1> QED  BY <1>4, <1>5

\* so is what a worker receives from the name node or a server,
LEMMA WorkerExpects ==
  ASSUME IInv, NEW b \in Bgs, NEW e \in Peers(b), net[e][b] # << >>, Expected(b) # {}
  PROVE  Head(net[e][b]).type \in Expected(b)
<1> DEFINE q == net[e][b]
           type == Head(q).type
           stage == bg[b].stage
<1>1. b # NameNode /\ b \notin Servers /\ stage \in BgStages
  BY Kinds, WorkerTypes DEF IInv
<1>2. /\ stage = "connect" => Expected(b) = {"ConnectServer"}
      /\ stage = "handshake" => Expected(b) = {"ClientStart"}
      /\ stage = "asked" => Expected(b) = {"CreateTableReply"}
      /\ stage = "all tables" => Expected(b) = {"CreatedAllTables"}
      /\ stage = "run" => Expected(b) = {"AppConnect", "AppThreadDereg", "ServerShutDownAck", "BgClock"}
      /\ stage \in {"init barrier", "table barrier", "exited"} => Expected(b) = {}
  BY <1>1 DEF Expected
<1>3. CASE e = NameNode
  <2>1. FromNameNode(b)
    BY DEF IInv, FromNameNodeInv
  <2>2. stage = "connect" => type = "ConnectServer"
    <3>1. stage = "connect" => q = << Msg("ConnectServer"), Msg("ClientStart") >>
      BY <1>3, <2>1 DEF FromNameNode
    <3>2. ASSUME NEW m, q = << Msg("ConnectServer"), m >> PROVE type = "ConnectServer"
      <4> HIDE DEF q
      <4>1. Head(q).type = "ConnectServer"
        BY <3>2, FirstType
      <4> QED  BY <4>1 DEF type
    <3> HIDE DEF q, type, stage
    <3> QED  BY <3>1, <3>2, Zenon
  <2>3. stage = "handshake" => type = "ClientStart"
    <3>1. stage = "handshake" => q = << Msg("ClientStart") >>
      BY <1>3, <2>1 DEF FromNameNode
    <3> QED  BY <3>1, FirstType, Zenon
  <2>4. stage = "asked" => type = "CreateTableReply"
    <3> SUFFICES ASSUME stage = "asked" PROVE type = "CreateTableReply"
      OBVIOUS
    <3>1. PICK tb \in Tables : AskedFor(b, tb)
      BY <2>1 DEF FromNameNode
    <3>2. q = << TableMsg("CreateTableReply", tb) >> \/ q = << TableMsg("CreateTableReply", tb), Msg("CreatedAllTables") >>
      BY <1>3, <3>1 DEF AskedFor
    <3>3. q = << TableMsg("CreateTableReply", tb) >> => type = "CreateTableReply"
      BY FirstType, Zenon
    <3>4. ASSUME NEW m, q = << TableMsg("CreateTableReply", tb), m >> PROVE type = "CreateTableReply"
      <4> HIDE DEF q
      <4>1. Head(q).type = "CreateTableReply"
        BY <3>4, FirstType
      <4> QED  BY <4>1 DEF type
    <3> HIDE DEF q, type
    <3> QED  BY <3>2, <3>3, <3>4, Zenon
  <2>5. stage = "all tables" => type = "CreatedAllTables"
    <3>1. stage = "all tables" => q = << Msg("CreatedAllTables") >>
      BY <1>3, <2>1 DEF FromNameNode
    <3> QED  BY <3>1, FirstType, Zenon
  <2>6. stage = "run" => type = "ServerShutDownAck"
    <3>1. stage = "run" => q = << Msg("ServerShutDownAck") >>
      BY <1>3, <2>1 DEF FromNameNode
    <3> QED  BY <3>1, FirstType, Zenon
  <2>7. stage # "app" /\ stage # "tables"
    BY <1>3, <2>1 DEF FromNameNode
  <2> HIDE DEF type, stage
  <2>8. type \in Expected(b)
    BY <1>1, <1>2, <2>2, <2>3, <2>4, <2>5, <2>6, <2>7 DEF BgStages
  <2> QED  BY <2>8 DEF type
<1>4. CASE e \in OnChannel(Servers, b)
  <2>1. FromServer(e, b) /\ server[e].stage \in {"init", "run", "exited"}
    BY <1>4, Channels1, WorkerTypes DEF IInv, FromServerInv
  <2>2. \/ q = << Msg("ClientStart") >> /\ stage = "handshake"
        \/ q = << Msg("ServerShutDownAck") >> /\ stage = "run"
    BY <2>1 DEF FromServer
  <2>3. \/ type = "ClientStart" /\ stage = "handshake"
        \/ type = "ServerShutDownAck" /\ stage = "run"
    BY <2>2, FirstType, Zenon
  <2> HIDE DEF type, stage
  <2>4. type \in Expected(b)
    BY <1>2, <2>3
  <2> QED  BY <2>4 DEF type
<1> QED  BY <1>3, <1>4 DEF Peers

\* and from a thread.
LEMMA WorkerExpectsThread ==
  ASSUME IInv, NEW b \in Bgs, NEW t \in ThreadsOf(ProcessOf(b)), net[App(t)][b] # << >>, Expected(b) # {}
  PROVE  Head(net[App(t)][b]).type \in Expected(b)
<1> DEFINE q == net[App(t)][b]
           type == Head(q).type
           stage == bg[b].stage
<1>1. b # NameNode /\ b \notin Servers /\ stage \in BgStages /\ t \in Threads /\ q \in Seq(Message)
  BY Kinds, WorkerTypes, Channels2 DEF IInv
<1>2. /\ stage = "app" => Expected(b) = {"AppConnect"}
      /\ stage = "tables" => Expected(b) = {"BgCreateTable"}
      /\ stage = "run" => Expected(b) = {"AppConnect", "AppThreadDereg", "ServerShutDownAck", "BgClock"}
      /\ stage \in {"init barrier", "table barrier", "exited"} => Expected(b) = {}
  BY <1>1 DEF Expected
<1>3. CASE stage = "run"
  <2>1. FromThread(t, b) /\ thread[t] \in {"run", "done"}
    BY <1>3, Hears DEF IInv, FromThreadInv
  <2>2. q[1] = Head(q) /\ 1 \in DOMAIN q
    <3>1. q # << >>
      OBVIOUS
    <3> HIDE DEF q
    <3> QED  BY <1>1, <3>1, Taken
  <2>3. q[1] = Msg("AppConnect") \/ q[1] = Msg("BgClock") \/ q[1] = Msg("AppThreadDereg")
    BY <2>1, <2>2 DEF FromThread
  <2>4. type = "AppConnect" \/ type = "BgClock" \/ type = "AppThreadDereg"
    BY <2>2, <2>3, Messages
  <2> QED  BY <1>2, <1>3, <2>4
<1>4. CASE stage # "run"
  <2>1. stage \notin Runs
    BY <1>2, <1>4 DEF Runs
  <2>2. t = InitOf(b)
    BY <2>1, InStep DEF IInv, FromThreadInv, FromThread
  <2>3. FromInit(b)
    BY DEF IInv, FromInitInv
  <2>4. stage = "app" => type = "AppConnect"
    <3>1. stage = "app" => \/ q = << Msg("AppConnect") >>
                           \/ \E tb \in Tables : q = << Msg("AppConnect"), TableMsg("BgCreateTable", tb) >>
      BY <2>2, <2>3 DEF FromInit
    <3>2. q = << Msg("AppConnect") >> => type = "AppConnect"
      BY FirstType, Zenon
    <3>3. ASSUME NEW m, q = << Msg("AppConnect"), m >> PROVE type = "AppConnect"
      <4> HIDE DEF q
      <4>1. Head(q).type = "AppConnect"
        BY <3>3, FirstType
      <4> QED  BY <4>1 DEF type
    <3> HIDE DEF q, type, stage
    <3> QED  BY <3>1, <3>2, <3>3, Zenon
  <2>5. stage = "tables" => type = "BgCreateTable"
    <3>1. stage = "tables" => \E tb \in Tables : q = << TableMsg("BgCreateTable", tb) >>
      BY <2>2, <2>3 DEF FromInit
    <3> QED  BY <3>1, FirstType, Zenon
  <2>6. stage \notin Starts \cup {"asked", "all tables", "table barrier"}
    BY <2>2, <2>3 DEF FromInit
  <2> HIDE DEF type, stage
  <2>7. type \in Expected(b)
    BY <1>1, <1>2, <1>4, <2>1, <2>4, <2>5, <2>6 DEF BgStages, Starts, Runs
  <2> QED  BY <2>7 DEF type
<1> QED  BY <1>3, <1>4

\* No receive finds a message that it does not expect.
LEMMA ExpectedHolds == IInv => MessagesAreExpected
<1> SUFFICES ASSUME IInv, NEW e \in Entities, NEW f \in DOMAIN net[e] \cap Daemons, net[e][f] # << >>, Expected(f) # {}
             PROVE  Head(net[e][f]).type \in Expected(f)
  BY DEF MessagesAreExpected
<1>1. /\ f = NameNode => e \in Bgs \/ e \in Servers
      /\ f \in Servers => e = NameNode \/ e \in OnChannel(Bgs, f)
      /\ f \in Bgs => e \in Peers(f) \/ \E t \in ThreadsOf(ProcessOf(f)) : e = App(t)
      /\ f = NameNode \/ f \in Servers \/ f \in Bgs
  BY Senders
<1>2. CASE f = NameNode
  BY <1>1, <1>2, NameNodeExpects
<1>3. CASE f \in Servers
  BY <1>1, <1>3, ServerExpects
<1>4. CASE f \in Bgs
  BY <1>1, <1>4, WorkerExpects, WorkerExpectsThread
<1> QED  BY <1>1, <1>2, <1>3, <1>4

\* Nobody works on a table that is not there.
LEMMA TablesAreThere == IInv => TablesExistBeforeUse
<1> SUFFICES ASSUME IInv PROVE TablesExistBeforeUse
  OBVIOUS
<1>1. ASSUME NEW s \in Servers, NEW b \in OnChannel(Bgs, s), Incoming(b, s, "ClientSendOpLog")
      PROVE  server[s].tables = Tables
  <2>1. b \in Bgs /\ ToServer(b, s) /\ net[b][s] # << >> /\ Head(net[b][s]).type = "ClientSendOpLog"
    BY <1>1, Channels1 DEF IInv, ToServerInv, Incoming
  <2>2. net[b][s] # << Msg("ClientConnect") >>
    <3>1. \A q : q = << Msg("ClientConnect") >> => Head(q).type = "ClientConnect"
      BY FirstType
    <3> QED  BY <2>1, <3>1
  <2>3. bg[b].stage \in Runs
    BY <2>1, <2>2 DEF ToServer
  <2>4. AllCreated
    BY <2>1, <2>3 DEF IInv, FromNameNodeInv, FromNameNode
  <2> QED  BY <2>4, ServersHaveAll
<1>2. ASSUME NEW t \in Threads, thread[t] = "run" PROVE tables[ClientOf[t]] = Tables
  <2> DEFINE c == ClientOf[t]
  <2>1. c \in Clients /\ HeadBg(c) \in Bgs /\ InitOf(HeadBg(c)) = InitThread[c]
    BY ThreadsKnown, Workers DEF InitOf
  <2>2. thread[InitThread[c]] \in {"run", "done"}
    BY <1>2 DEF IInv, StagesInv, AfterInit
  <2>3. bg[HeadBg(c)].stage \in Runs
    BY <2>1, <2>2, InStep
  <2> QED  BY <2>1, <2>3 DEF IInv, StagesInv, KnowsTables
<1> QED  BY <1>1, <1>2 DEF TablesExistBeforeUse

\* Nothing is left for who has gone, and nothing comes any more.
LEMMA NothingForTheGone == IInv => NoMessageForTheGone
<1> SUFFICES ASSUME IInv, NEW e \in Entities, NEW f \in DOMAIN net[e] \cap Daemons, Exited(f)
             PROVE  net[e][f] = << >>
  BY DEF NoMessageForTheGone
<1>1. /\ f = NameNode => e \in Bgs \/ e \in Servers
      /\ f \in Servers => e = NameNode \/ e \in OnChannel(Bgs, f)
      /\ f \in Bgs => e \in Peers(f) \/ \E t \in ThreadsOf(ProcessOf(f)) : e = App(t)
      /\ f = NameNode \/ f \in Servers \/ f \in Bgs
  BY Senders
<1>2. CASE f = NameNode
  <2>1. nameNode.stage = "exited"
    BY <1>2 DEF Exited
  <2>2. AllCreated /\ \A b \in Bgs : net[b][NameNode] = << >>
    BY <2>1, NameNodeGone, NobodyMissing
  <2> QED  BY <1>1, <1>2, <2>2, ServersHaveAll
<1>3. CASE f \in Servers
  <2>1. server[f].stage = "exited"
    BY <1>3, Kinds DEF Exited
  <2>2. AllCreated /\ \A b \in OnChannel(Bgs, f) : net[b][f] = << >>
    BY <1>3, <2>1, ServerGone, NobodyMissing
  <2> QED  BY <1>1, <1>3, <2>2, ServersHaveAll
<1>4. CASE f \in Bgs
  <2>1. bg[f].stage = "exited"
    BY <1>4, Kinds DEF Exited
  <2>2. \A d \in Peers(f) : Exited(d) /\ net[d][f] = << >>
    BY <1>4, <2>1, WorkerGone
  <2>3. nameNode.stage = "exited"
    BY <2>2 DEF Peers, Exited
  <2>4. \A t \in ThreadsOf(ProcessOf(f)) : net[App(t)][f] = << >>
    BY <1>4, <2>3, NameNodeGone, DownMeans
  <2> QED  BY <1>1, <1>4, <2>2, <2>4
<1> QED  BY <1>1, <1>2, <1>3, <1>4

\* Types; no counter passes what its CHECK or the end of its loop allows.
THEOREM TypeCorrectness == Spec => []TypeOK
BY IInvHolds, TypesHold, PTL

\* No CHECK_EQ on a message's type and no LOG(FATAL) for an unknown one fires.
THEOREM EveryMessageIsExpected == Spec => []MessagesAreExpected
BY IInvHolds, ExpectedHolds, PTL

\* A server that is sent an oplog, and the workers and threads that run, have every table.
THEOREM EveryTableExists == Spec => []TablesExistBeforeUse
BY IInvHolds, TablesAreThere, PTL

\* Whoever has deregistered from the bus has left nothing unread and is sent nothing any more.
THEOREM NothingIsLeft == Spec => []NoMessageForTheGone
BY IInvHolds, NothingForTheGone, PTL
=============================================================================
