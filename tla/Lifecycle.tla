------------------------------- MODULE Lifecycle -------------------------------
(***************************************************************************)
(* Start-up, table creation and shut-down of the parameter server: the     *)
(* name node, and in every process the init thread with other application  *)
(* threads, a background worker and a server per communication channel.    *)
(*                                                                         *)
(*   NameNodeThread         init, tables created, shut-down                *)
(*   ServerThread           InitServer, HandleCreateTable, HandleShutDown  *)
(*   AbstractBgWorker       BgServerHandshake, HandleCreateTables, the     *)
(*                          connections and the end of operator()          *)
(*   TableGroup             constructor, CreateTable, CreateTableDone,     *)
(*                          DeregisterThread and destructor                *)
(*                                                                         *)
(* Every receive in this code knows what must come next and stops the      *)
(* process if something else does: the counts and the two barriers of each *)
(* process have to keep the messages of one stage out of the stage before. *)
(* What the workers do while they run is in module SSP; here a clock is    *)
(* one message to every worker and from there to every server.             *)
(*                                                                         *)
(* Operators commented "Mutant of X: ..." are what a slip in X would make  *)
(* of it.  The specification does not use them; substituted for X, each    *)
(* must break a property.                                                  *)
(***************************************************************************)
EXTENDS Integers, FiniteSets, Sequences

CONSTANTS
  Clients,     \* client processes
  Channels,    \* communication channels
  HeadChannel, \* channel 0, whose workers create the tables
  Threads,     \* application threads
  ClientOf,    \* the process of each thread
  InitThread,  \* per process, the thread that builds the table group
  Tables,      \* num_tables tables
  MaxClocks    \* bound: clocks of each thread

ASSUME LifecycleAssumption ==
  /\ IsFiniteSet(Clients) /\ Clients # {} /\ IsFiniteSet(Channels) /\ HeadChannel \in Channels
  /\ ClientOf \in [Threads -> Clients] /\ IsFiniteSet(Threads)
  /\ InitThread \in [Clients -> Threads] /\ \A c \in Clients : ClientOf[InitThread[c]] = c
  /\ IsFiniteSet(Tables) /\ Tables # {} /\ MaxClocks \in [Threads -> Nat]

NameNode == <<"name node">>
App(t) == <<"app", t>>
Bg(c, k) == <<"bg", c, k>>
Server(c, k) == <<"server", c, k>>

Bgs == {Bg(c, k) : c \in Clients, k \in Channels}
Servers == {Server(c, k) : c \in Clients, k \in Channels}
HeadBg(c) == Bg(c, HeadChannel)

\* The process and the channel of a worker or a server.
ProcessOf(e) == e[2]
ChannelOf(e) == e[3]

BgsOf(c) == {b \in Bgs : ProcessOf(b) = c}
OnChannel(entities, e) == {f \in entities : ChannelOf(f) = ChannelOf(e)}
ThreadsOf(c) == {t \in Threads : ClientOf[t] = c}

\* The threads that run on the system's behalf.
Daemons == {NameNode} \cup Bgs \cup Servers
Entities == Daemons \cup {App(t) : t \in Threads}

\* Who sends to whom: workers and servers to each other on their channel and
\* to the name node, which answers; threads to the workers of their process,
\* whose head worker answers the init thread.
Receivers(e) ==
  IF e = NameNode THEN Bgs \cup Servers
  ELSE IF e \in Servers THEN {NameNode} \cup OnChannel(Bgs, e)
  ELSE IF e \in Bgs
  THEN {NameNode} \cup OnChannel(Servers, e)
       \cup (IF e = HeadBg(ProcessOf(e)) THEN {App(InitThread[ProcessOf(e)])} ELSE {})
  ELSE BgsOf(ClientOf[e[2]])

VARIABLES
  net,           \* per sender and receiver, the messages, first in first out
  nameNode,      \* the name node's stage, and the workers it has shut down
  connected,     \* per name node and server, who has connected to it
  creating,      \* create_table_map_ of the name node
  server,        \* per server, its stage, tables and workers shut down
  bg,            \* per worker, its stage and its counters
  tables,        \* per process, tables_
  thread,        \* per application thread, its stage
  clocks         \* bound: clocks of each thread

vars == <<net, nameNode, connected, creating, server, bg, tables, thread, clocks>>

Msg(type) == [type |-> type]
TableMsg(type, tb) == [type |-> type, table |-> tb]

NotCreating == [known |-> FALSE, servers |-> 0, toReply |-> << >>, clients |-> 0]

\* The first thing that workers and servers do, whatever the others do, is to
\* connect to the name node (ConnectToNameNodeOrServer, ConnectToNameNode).
Init ==
  /\ net = [e \in Entities |-> [f \in Receivers(e) |->
              IF f # NameNode THEN << >>
              ELSE IF e \in Bgs THEN << Msg("ClientConnect") >> ELSE << Msg("ServerConnect") >>]]
  /\ nameNode = [stage |-> "init", down |-> 0]
  /\ connected = [e \in Servers \cup {NameNode} |-> {}]
  /\ creating = [tb \in Tables |-> NotCreating]
  /\ server = [s \in Servers |-> [stage |-> "init", tables |-> {}, down |-> 0]]
  /\ bg = [b \in Bgs |-> [stage |-> "connect", started |-> 0, apps |-> 0, gone |-> 0, acks |-> 0]]
  /\ tables = [c \in Clients |-> {}]
  /\ thread = [t \in Threads |-> IF t = InitThread[ClientOf[t]] THEN "start" ELSE "new"]
  /\ clocks = [t \in Threads |-> 0]

-----------------------------------------------------------------------------
(* Messages.                                                               *)

Incoming(e, f, type) == net[e][f] # << >> /\ Head(net[e][f]).type = type

Content(e, f) == Head(net[e][f])

\* The network after e sent msg to all of receivers.
Sent(n, e, receivers, msg) ==
  [n EXCEPT ![e] = [f \in DOMAIN @ |-> IF f \in receivers THEN Append(@[f], msg) ELSE @[f]]]

\* The network after f received from e.
Received(e, f) == [net EXCEPT ![e][f] = Tail(@)]

-----------------------------------------------------------------------------
(* The name node.                                                          *)

\* InitNameNode: wait for every worker and every server, then let the workers
\* connect to the servers and tell them that the name node is ready.
NameNodeConnection(e) ==
  LET all == connected[NameNode] \cup {e}
  IN  /\ nameNode.stage = "init"
      /\ Incoming(e, NameNode, IF e \in Bgs THEN "ClientConnect" ELSE "ServerConnect")
      /\ connected' = [connected EXCEPT ![NameNode] = all]
      /\ IF Cardinality(all) = 2 * Cardinality(Bgs)
         THEN /\ nameNode' = [nameNode EXCEPT !.stage = "run"]
              /\ net' = Sent(Sent(Received(e, NameNode),
                               NameNode, all \cap Bgs, Msg("ConnectServer")),
                               NameNode, all \cap Bgs, Msg("ClientStart"))
         ELSE net' = Received(e, NameNode) /\ UNCHANGED nameNode
      /\ UNCHANGED <<creating, server, bg, tables, thread, clocks>>

HaveCreatedAllTables(cr) ==
  \A tb \in Tables : cr[tb].known /\ cr[tb].clients = Cardinality(Clients)

\* What is sent to all head workers once the last of them has its last reply.
CreatedAllTables(n, cr) ==
  IF HaveCreatedAllTables(cr)
  THEN Sent(n, NameNode, {HeadBg(c) : c \in Clients}, Msg("CreatedAllTables")) ELSE n

\* Mutant of ReceivedFromAllServers: does not wait for the servers.
ReceivedFromNoServer(entry) == TRUE

ReceivedFromAllServers(entry) == entry.servers = Cardinality(Servers)

\* HandleCreateTable: the first request for a table goes to all servers; a
\* worker is answered at once if they have all created it, or later.
HandleCreateTable(b) ==
  LET tb    == Content(b, NameNode).table
      entry == creating[tb]
      ready == ReceivedFromAllServers(entry)
      cr    == [creating EXCEPT ![tb] =
                  IF ready THEN [entry EXCEPT !.known = TRUE, !.clients = @ + 1]
                  ELSE [entry EXCEPT !.known = TRUE, !.toReply = Append(@, b)]]
      asked == IF entry.known THEN Received(b, NameNode)
               ELSE Sent(Received(b, NameNode), NameNode, Servers, TableMsg("CreateTable", tb))
  IN  /\ nameNode.stage = "run"
      /\ Incoming(b, NameNode, "CreateTable")
      /\ creating' = cr
      /\ net' = IF ready
                THEN CreatedAllTables(Sent(asked, NameNode, {b}, TableMsg("CreateTableReply", tb)), cr)
                ELSE asked
      /\ UNCHANGED <<nameNode, connected, server, bg, tables, thread, clocks>>

\* Mutant of HandleCreateTableReply: does not count those it answers.
HandleCreateTableReplyUncounted(s) ==
  LET tb     == Content(s, NameNode).table
      entry  == [creating[tb] EXCEPT !.servers = @ + 1]
      ready  == ReceivedFromAllServers(entry)
      queued == {entry.toReply[i] : i \in DOMAIN entry.toReply}
      cr     == [creating EXCEPT ![tb] = IF ready THEN [entry EXCEPT !.toReply = << >>] ELSE entry]
  IN  /\ nameNode.stage = "run"
      /\ Incoming(s, NameNode, "CreateTableReply")
      /\ creating' = cr
      /\ net' = IF ready
                THEN CreatedAllTables(Sent(Received(s, NameNode), NameNode, queued,
                                           TableMsg("CreateTableReply", tb)), cr)
                ELSE Received(s, NameNode)
      /\ UNCHANGED <<nameNode, connected, server, bg, tables, thread, clocks>>

\* HandleCreateTableReply: the last server's reply releases the queued workers.
HandleCreateTableReply(s) ==
  LET tb     == Content(s, NameNode).table
      entry  == [creating[tb] EXCEPT !.servers = @ + 1]
      ready  == ReceivedFromAllServers(entry)
      queued == {entry.toReply[i] : i \in DOMAIN entry.toReply}
      cr     == [creating EXCEPT ![tb] =
                   IF ready
                   THEN [entry EXCEPT !.toReply = << >>, !.clients = @ + Len(entry.toReply)]
                   ELSE entry]
  IN  /\ nameNode.stage = "run"
      /\ Incoming(s, NameNode, "CreateTableReply")
      /\ creating' = cr
      /\ net' = IF ready
                THEN CreatedAllTables(Sent(Received(s, NameNode), NameNode, queued,
                                           TableMsg("CreateTableReply", tb)), cr)
                ELSE Received(s, NameNode)
      /\ UNCHANGED <<nameNode, connected, server, bg, tables, thread, clocks>>

\* HandleShutDownMsg of the name node: acknowledge when all workers are done.
NameNodeShutDown(b) ==
  LET down == nameNode.down + 1
      last == down = Cardinality(Bgs)
  IN  /\ nameNode.stage = "run"
      /\ Incoming(b, NameNode, "ClientShutDown")
      /\ nameNode' = [stage |-> IF last THEN "exited" ELSE "run", down |-> down]
      /\ net' = IF last THEN Sent(Received(b, NameNode), NameNode, Bgs, Msg("ServerShutDownAck"))
                ELSE Received(b, NameNode)
      /\ UNCHANGED <<connected, creating, server, bg, tables, thread, clocks>>

-----------------------------------------------------------------------------
(* Servers.                                                                *)

\* InitServer: wait for the channel's worker of each process, then let them start.
ServerConnection(s, b) ==
  LET all == connected[s] \cup {b}
  IN  /\ server[s].stage = "init"
      /\ Incoming(b, s, "ClientConnect")
      /\ connected' = [connected EXCEPT ![s] = all]
      /\ IF Cardinality(all) = Cardinality(Clients)
         THEN /\ server' = [server EXCEPT ![s].stage = "run"]
              /\ net' = Sent(Received(b, s), s, all, Msg("ClientStart"))
         ELSE net' = Received(b, s) /\ UNCHANGED server
      /\ UNCHANGED <<nameNode, creating, bg, tables, thread, clocks>>

\* HandleCreateTable of a server.
ServerCreateTable(s) ==
  LET tb == Content(NameNode, s).table
  IN  /\ server[s].stage = "run"
      /\ Incoming(NameNode, s, "CreateTable")
      /\ net' = Sent(Received(NameNode, s), s, {NameNode}, TableMsg("CreateTableReply", tb))
      /\ server' = [server EXCEPT ![s].tables = @ \cup {tb}]
      /\ UNCHANGED <<nameNode, connected, creating, bg, tables, thread, clocks>>

\* kClientSendOpLog; what it does to the tables is in module SSP.
ServerOpLog(s, b) ==
  /\ server[s].stage = "run"
  /\ Incoming(b, s, "ClientSendOpLog")
  /\ net' = Received(b, s)
  /\ UNCHANGED <<nameNode, connected, creating, server, bg, tables, thread, clocks>>

\* HandleShutDownMsg of a server.
ServerShutDown(s, b) ==
  LET down == server[s].down + 1
      last == down = Cardinality(Clients)
  IN  /\ server[s].stage = "run"
      /\ Incoming(b, s, "ClientShutDown")
      /\ server' = [server EXCEPT ![s].down = down, ![s].stage = IF last THEN "exited" ELSE "run"]
      /\ net' = IF last THEN Sent(Received(b, s), s, connected[s], Msg("ServerShutDownAck"))
                ELSE Received(b, s)
      /\ UNCHANGED <<nameNode, connected, creating, bg, tables, thread, clocks>>

-----------------------------------------------------------------------------
(* Background workers.                                                     *)

\* BgServerHandshake: when told to, connect to the servers of the channel.
BgConnectServers(b) ==
  /\ bg[b].stage = "connect"
  /\ Incoming(NameNode, b, "ConnectServer")
  /\ bg' = [bg EXCEPT ![b].stage = "handshake"]
  /\ net' = Sent(Received(NameNode, b), b, OnChannel(Servers, b), Msg("ClientConnect"))
  /\ UNCHANGED <<nameNode, connected, creating, server, tables, thread, clocks>>

\* BgServerHandshake: the name node and all servers permit to start.
BgClientStart(b, e) ==
  LET started == bg[b].started + 1
  IN  /\ bg[b].stage = "handshake"
      /\ Incoming(e, b, "ClientStart")
      /\ bg' = [bg EXCEPT ![b].started = started,
                          ![b].stage = IF started = Cardinality(Clients) + 1
                                       THEN "init barrier" ELSE "handshake"]
      /\ net' = Received(e, b)
      /\ UNCHANGED <<nameNode, connected, creating, server, tables, thread, clocks>>

\* Mutant of PassInitBarrier: a barrier of two, the init thread and one worker.
PassInitBarrierOfTwo(c) ==
  \E b \in BgsOf(c) :
    /\ bg[b].stage = "init barrier"
    /\ thread[InitThread[c]] = "start"
    /\ thread' = [thread EXCEPT ![InitThread[c]] = "register"]
    /\ bg' = [bg EXCEPT ![b].stage = "app"]
    /\ UNCHANGED <<net, nameNode, connected, creating, server, tables, clocks>>

\* init_barrier_: the workers of the process and its init thread.
PassInitBarrier(c) ==
  /\ \A b \in BgsOf(c) : bg[b].stage = "init barrier"
  /\ thread[InitThread[c]] = "start"
  /\ thread' = [thread EXCEPT ![InitThread[c]] = "register"]
  /\ bg' = [b \in Bgs |-> IF b \in BgsOf(c) THEN [bg[b] EXCEPT !.stage = "app"] ELSE bg[b]]
  /\ UNCHANGED <<net, nameNode, connected, creating, server, tables, clocks>>

\* Mutant of BgInitThreadConnection: does not count the init thread.
BgInitThreadUncounted(b) ==
  LET t == InitThread[ProcessOf(b)]
  IN  /\ bg[b].stage = "app"
      /\ Incoming(App(t), b, "AppConnect")
      /\ bg' = [bg EXCEPT ![b].stage = IF ChannelOf(b) = HeadChannel THEN "tables" ELSE "table barrier"]
      /\ net' = Received(App(t), b)
      /\ UNCHANGED <<nameNode, connected, creating, server, tables, thread, clocks>>

\* RecvAppInitThreadConnection; then only the head worker creates tables.
BgInitThreadConnection(b) ==
  LET t == InitThread[ProcessOf(b)]
  IN  /\ bg[b].stage = "app"
      /\ Incoming(App(t), b, "AppConnect")
      /\ bg' = [bg EXCEPT ![b].apps = @ + 1,
                          ![b].stage = IF ChannelOf(b) = HeadChannel THEN "tables" ELSE "table barrier"]
      /\ net' = Received(App(t), b)
      /\ UNCHANGED <<nameNode, connected, creating, server, tables, thread, clocks>>

\* HandleCreateTables: ask the name node ...
BgCreateTable(b) ==
  LET t == InitThread[ProcessOf(b)]
  IN  /\ bg[b].stage = "tables"
      /\ Incoming(App(t), b, "BgCreateTable")
      /\ bg' = [bg EXCEPT ![b].stage = "asked"]
      /\ net' = Sent(Received(App(t), b), b, {NameNode},
                     TableMsg("CreateTable", Content(App(t), b).table))
      /\ UNCHANGED <<nameNode, connected, creating, server, tables, thread, clocks>>

\* ... and create the client table when it has replied.
BgTableCreated(b) ==
  LET c   == ProcessOf(b)
      tb  == Content(NameNode, b).table
      all == tables[c] \cup {tb}
  IN  /\ bg[b].stage = "asked"
      /\ Incoming(NameNode, b, "CreateTableReply")
      /\ tables' = [tables EXCEPT ![c] = all]
      /\ bg' = [bg EXCEPT ![b].stage = IF all = Tables THEN "all tables" ELSE "tables"]
      /\ net' = Sent(Received(NameNode, b), b, {App(InitThread[c])}, TableMsg("CreateTableReply", tb))
      /\ UNCHANGED <<nameNode, connected, creating, server, thread, clocks>>

BgCreatedAllTables(b) ==
  /\ bg[b].stage = "all tables"
  /\ Incoming(NameNode, b, "CreatedAllTables")
  /\ bg' = [bg EXCEPT ![b].stage = "table barrier"]
  /\ net' = Received(NameNode, b)
  /\ UNCHANGED <<nameNode, connected, creating, server, tables, thread, clocks>>

\* create_table_barrier_: the workers, and the init thread in CreateTableDone.
PassCreateTableBarrier(c) ==
  /\ \A b \in BgsOf(c) : bg[b].stage = "table barrier"
  /\ thread[InitThread[c]] = "create" /\ tables[c] = Tables
  /\ thread' = [thread EXCEPT ![InitThread[c]] = "run"]
  /\ bg' = [b \in Bgs |-> IF b \in BgsOf(c) THEN [bg[b] EXCEPT !.stage = "run"] ELSE bg[b]]
  /\ UNCHANGED <<net, nameNode, connected, creating, server, tables, clocks>>

\* kAppConnect in the message loop.
BgAppConnect(b, t) ==
  /\ bg[b].stage = "run"
  /\ Incoming(App(t), b, "AppConnect")
  /\ bg' = [bg EXCEPT ![b].apps = @ + 1]
  /\ net' = Received(App(t), b)
  /\ UNCHANGED <<nameNode, connected, creating, server, tables, thread, clocks>>

\* kBgClock: an oplog message to every server of the channel.
BgClock(b, t) ==
  /\ bg[b].stage = "run"
  /\ Incoming(App(t), b, "BgClock")
  /\ net' = Sent(Received(App(t), b), b, OnChannel(Servers, b), Msg("ClientSendOpLog"))
  /\ UNCHANGED <<nameNode, connected, creating, server, bg, tables, thread, clocks>>

\* kAppThreadDereg: after the last thread, shut down.
BgAppThreadDereg(b, t) ==
  LET gone == bg[b].gone + 1
  IN  /\ bg[b].stage = "run"
      /\ Incoming(App(t), b, "AppThreadDereg")
      /\ bg' = [bg EXCEPT ![b].gone = gone]
      /\ net' = IF gone = Cardinality(ThreadsOf(ProcessOf(b)))
                THEN Sent(Received(App(t), b), b, {NameNode} \cup OnChannel(Servers, b),
                          Msg("ClientShutDown"))
                ELSE Received(App(t), b)
      /\ UNCHANGED <<nameNode, connected, creating, server, tables, thread, clocks>>

\* Mutant of BgShutDownAck: forgets that the name node acknowledges, too.
BgShutDownAckOfServers(b, e) ==
  LET acks == bg[b].acks + 1
  IN  /\ bg[b].stage = "run"
      /\ Incoming(e, b, "ServerShutDownAck")
      /\ bg' = [bg EXCEPT ![b].acks = acks,
                          ![b].stage = IF acks = Cardinality(Clients) THEN "exited" ELSE "run"]
      /\ net' = Received(e, b)
      /\ UNCHANGED <<nameNode, connected, creating, server, tables, thread, clocks>>

\* kServerShutDownAck: the worker ends with the last acknowledgement.
BgShutDownAck(b, e) ==
  LET acks == bg[b].acks + 1
  IN  /\ bg[b].stage = "run"
      /\ Incoming(e, b, "ServerShutDownAck")
      /\ bg' = [bg EXCEPT ![b].acks = acks,
                          ![b].stage = IF acks = Cardinality(Clients) + 1 THEN "exited" ELSE "run"]
      /\ net' = Received(e, b)
      /\ UNCHANGED <<nameNode, connected, creating, server, tables, thread, clocks>>

-----------------------------------------------------------------------------
(* Application threads.                                                    *)

ToAllBgs(t, type) == net' = Sent(net, App(t), BgsOf(ClientOf[t]), Msg(type))

\* AppThreadRegister, at the end of TableGroup's constructor.
AppThreadRegister(t) ==
  /\ thread[t] = "register"
  /\ thread' = [thread EXCEPT ![t] = "create"]
  /\ ToAllBgs(t, "AppConnect")
  /\ UNCHANGED <<nameNode, connected, creating, server, bg, tables, clocks>>

\* CreateTable sends to the head worker and waits for its reply.
CreateTable(t, tb) ==
  /\ thread[t] = "create" /\ tb \notin tables[ClientOf[t]]
  /\ thread' = [thread EXCEPT ![t] = "wait"]
  /\ net' = Sent(net, App(t), {HeadBg(ClientOf[t])}, TableMsg("BgCreateTable", tb))
  /\ UNCHANGED <<nameNode, connected, creating, server, bg, tables, clocks>>

TableCreated(t) ==
  /\ thread[t] = "wait"
  /\ Incoming(HeadBg(ClientOf[t]), App(t), "CreateTableReply")
  /\ thread' = [thread EXCEPT ![t] = "create"]
  /\ net' = Received(HeadBg(ClientOf[t]), App(t))
  /\ UNCHANGED <<nameNode, connected, creating, server, bg, tables, clocks>>

\* RegisterThread of the other threads, which start after CreateTableDone.
RegisterThread(t) ==
  /\ thread[t] = "new" /\ thread[InitThread[ClientOf[t]]] \in {"run", "done"}
  /\ thread' = [thread EXCEPT ![t] = "run"]
  /\ ToAllBgs(t, "AppConnect")
  /\ UNCHANGED <<nameNode, connected, creating, server, bg, tables, clocks>>

\* register_barrier_: all threads of the process have registered. (An init
\* thread that stays outside of it destroys the group after joining them.)
PastBarrier(t) == thread[t] = "run" /\ \A u \in ThreadsOf(ClientOf[t]) : thread[u] # "new"

\* ClockAllTables.
ClockAllTables(t) ==
  /\ PastBarrier(t) /\ clocks[t] < MaxClocks[t]
  /\ clocks' = [clocks EXCEPT ![t] = @ + 1]
  /\ ToAllBgs(t, "BgClock")
  /\ UNCHANGED <<nameNode, connected, creating, server, bg, tables, thread>>

\* AppThreadDeregister, from DeregisterThread or from TableGroup's destructor.
AppThreadDeregister(t) ==
  /\ PastBarrier(t)
  /\ thread' = [thread EXCEPT ![t] = "done"]
  /\ ToAllBgs(t, "AppThreadDereg")
  /\ UNCHANGED <<nameNode, connected, creating, server, bg, tables, clocks>>

-----------------------------------------------------------------------------
NameNodeNext ==
  \/ \E e \in Bgs \cup Servers : NameNodeConnection(e)
  \/ \E b \in Bgs : HandleCreateTable(b) \/ NameNodeShutDown(b)
  \/ \E s \in Servers : HandleCreateTableReply(s)

ServerNext(s) ==
  \/ ServerCreateTable(s)
  \/ \E b \in OnChannel(Bgs, s) : ServerConnection(s, b) \/ ServerOpLog(s, b) \/ ServerShutDown(s, b)

BgNext(b) ==
  \/ BgConnectServers(b) \/ BgInitThreadConnection(b)
  \/ BgCreateTable(b) \/ BgTableCreated(b) \/ BgCreatedAllTables(b)
  \/ \E e \in {NameNode} \cup OnChannel(Servers, b) : BgClientStart(b, e) \/ BgShutDownAck(b, e)
  \/ \E t \in ThreadsOf(ProcessOf(b)) : BgAppConnect(b, t) \/ BgClock(b, t) \/ BgAppThreadDereg(b, t)

ThreadNext(t) ==
  \/ AppThreadRegister(t) \/ TableCreated(t) \/ RegisterThread(t)
  \/ ClockAllTables(t) \/ AppThreadDeregister(t)
  \/ \E tb \in Tables : CreateTable(t, tb)

Next ==
  \/ NameNodeNext
  \/ \E s \in Servers : ServerNext(s)
  \/ \E b \in Bgs : BgNext(b)
  \/ \E c \in Clients : PassInitBarrier(c) \/ PassCreateTableBarrier(c)
  \/ \E t \in Threads : ThreadNext(t)

Spec == Init /\ [][Next]_vars

-----------------------------------------------------------------------------
Message ==
  [type : {"ClientConnect", "ServerConnect", "ConnectServer", "ClientStart", "AppConnect",
           "CreatedAllTables", "BgClock", "ClientSendOpLog", "AppThreadDereg",
           "ClientShutDown", "ServerShutDownAck"}]
  \cup [type : {"BgCreateTable", "CreateTable", "CreateTableReply"}, table : Tables]

BgStages == {"connect", "handshake", "init barrier", "app", "tables", "asked",
             "all tables", "table barrier", "run", "exited"}

ThreadStages == {"new", "start", "register", "create", "wait", "run", "done"}

\* Types; no counter passes what its CHECK or its end of the loop allows
\* (num_connected_app_threads, num_started_servers, num_shutdown_bgs_, ...).
TypeOK ==
  /\ \A e \in Entities : net[e] \in [Receivers(e) -> Seq(Message)]
  /\ nameNode \in [stage : {"init", "run", "exited"}, down : 0 .. Cardinality(Bgs)]
  /\ connected[NameNode] \subseteq Bgs \cup Servers
  /\ \A tb \in Tables :
       /\ creating[tb].known \in BOOLEAN
       /\ creating[tb].servers \in 0 .. Cardinality(Servers)
       /\ creating[tb].toReply \in Seq({HeadBg(c) : c \in Clients})
       /\ creating[tb].clients \in 0 .. Cardinality(Clients)
  /\ \A s \in Servers :
       /\ connected[s] \subseteq OnChannel(Bgs, s)
       /\ server[s].stage \in {"init", "run", "exited"}
       /\ server[s].tables \subseteq Tables
       /\ server[s].down \in 0 .. Cardinality(Clients)
  /\ \A b \in Bgs :
       /\ bg[b].stage \in BgStages
       /\ bg[b].started \in 0 .. Cardinality(Clients) + 1
       /\ bg[b].apps \in 0 .. Cardinality(ThreadsOf(ProcessOf(b)))
       /\ bg[b].gone \in 0 .. bg[b].apps
       /\ bg[b].acks \in 0 .. Cardinality(Clients) + 1
  /\ tables \in [Clients -> SUBSET Tables]
  /\ thread \in [Threads -> ThreadStages]
  /\ clocks \in [Threads -> Nat]

\* What the receives of each stage CHECK, or the switch of its loop knows.
Expected(f) ==
  IF f = NameNode
  THEN CASE nameNode.stage = "init"    -> {"ClientConnect", "ServerConnect"}
         [] nameNode.stage = "run"     -> {"ClientShutDown", "CreateTable", "CreateTableReply"}
         [] OTHER                      -> {}
  ELSE IF f \in Servers
  THEN CASE server[f].stage = "init"   -> {"ClientConnect"}
         [] server[f].stage = "run"    -> {"ClientShutDown", "CreateTable", "ClientSendOpLog"}
         [] OTHER                      -> {}
  ELSE CASE bg[f].stage = "connect"    -> {"ConnectServer"}
         [] bg[f].stage = "handshake"  -> {"ClientStart"}
         [] bg[f].stage = "app"        -> {"AppConnect"}
         [] bg[f].stage = "tables"     -> {"BgCreateTable"}
         [] bg[f].stage = "asked"      -> {"CreateTableReply"}
         [] bg[f].stage = "all tables" -> {"CreatedAllTables"}
         [] bg[f].stage = "run"        -> {"AppConnect", "AppThreadDereg", "ServerShutDownAck", "BgClock"}
         [] OTHER                      -> {}

\* No CHECK_EQ on a message's type and no LOG(FATAL) for an unknown one fires:
\* a thread that receives never finds a message of another stage, although
\* the processes and the channels of a process go through the stages at
\* their own pace.
MessagesAreExpected ==
  \A e \in Entities : \A f \in DOMAIN net[e] \cap Daemons :
    net[e][f] # << >> /\ Expected(f) # {} => Head(net[e][f]).type \in Expected(f)

\* Nobody works on a table that is not there: a server that is sent an oplog,
\* and the workers and threads that run, have created every table.
TablesExistBeforeUse ==
  /\ \A s \in Servers : \A b \in OnChannel(Bgs, s) :
       Incoming(b, s, "ClientSendOpLog") => server[s].tables = Tables
  /\ \A t \in Threads : thread[t] = "run" => tables[ClientOf[t]] = Tables

Exited(f) ==
  IF f = NameNode THEN nameNode.stage = "exited"
  ELSE IF f \in Servers THEN server[f].stage = "exited"
  ELSE bg[f].stage = "exited"

\* Whoever has deregistered from the bus is sent nothing any more and has left
\* nothing unread.
NoMessageForTheGone ==
  \A e \in Entities : \A f \in DOMAIN net[e] \cap Daemons : Exited(f) => net[e][f] = << >>

Ended ==
  /\ \A f \in Daemons : Exited(f)
  /\ \A t \in Threads : thread[t] = "done"

\* Nobody waits for a message or at a barrier for ever: as long as a thread of
\* some process has not come to its end, some thread can go on.
NobodyIsStuck == Ended \/ ENABLED Next

=============================================================================
