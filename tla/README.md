# Alpha.ProtoRt, specified

Alpha.ProtoRt runs a graph of components spread over several processes
("nodes").  A terminal (a Qt program) reads an application and a deployment
from XML, computes what every node has to host, sends each node its part over
TCP and then starts, stops and polls the nodes.  Nodes exchange packets of the
application directly, over TCP connections of their own.

This directory holds TLA+ modules for the parts with behaviour worth checking,
TLC configurations for small instances of them, and TLAPS proofs.

    tlc -config NodeTwoThreads.cfg MCNode.tla        # a run
    tlapm NodeProofs.tla                             # proofs; also NodeServiceProofs,
                                                     # NodeChainProofs, NetworkProofs,
                                                     # ProtolinkProofs, TerminalProofs,
                                                     # DeployPlanProofs, DocumentsProofs

## Inventory

| Part | Source | State | Operations | Talks to |
|---|---|---|---|---|
| Node | `node/src/node.h` | `router_`, name, port, worker threads inside `service_.run()` | `on_new_message`, `on_new_request` (DeployConfig, Start, Stop, GetStatus), `deploy_from_config` | router (owns), components (creates), protolink servers and clients |
| Router | `node/src/router.h` | `components_`, `clients_`, `started_`, counters | `start`, `stop`, `route`, `do_route` | components (calls `start`/`stop`, posts `do_process`), clients (`async_send_message`) |
| Components | `components/src/*.h` | input counter, weak pointer to the router; generators: `started_`, a timer | `do_process`, `start`, `stop`, `generate`, timer expiry | router (posts `do_route`) |
| Protolink client | `protolink/src/client.h` | socket, one buffer, reconnect timer, `transactions_`, `shutdown_` | connect and reconnect, send message, send request, read the response | server side of another node |
| Protolink connection and server | `protolink/src/connection.h`, `server.h` | per connection: socket, header, one buffer; acceptor | accept, read header, read packet, send response | node (`on_new_message`, `on_new_request`) |
| Parser | `parser/src/parser.h` | none (fills a configuration) | `parse_app`, `parse_deploy` | terminal |
| Deployment plan | `terminal/src/deployconfiguration.h`, `remotenode.cpp` (`async_deploy`), `node.h` (`deploy_from_packet`, `deploy_from_config`) | the five maps of `deploy_configuration` | `parse_deploy`, `async_deploy`, `deploy_from_packet` | terminal to node |
| Terminal | `terminal/src/mainwindow.cpp`, `remotenode.cpp`, `treemodel.cpp` | nodes, `deploying`, buttons, timers, per-node status | load, deploy, start, stop, status poll, slots | one protolink client per node |
| Documents and dialogs | `terminal/src/document.cpp`, tabs, files and session in `mainwindow.cpp` | tabs, two combo boxes, files, `terminal.conf` | create, open, edit, save, close, load, leave, start | the user, files, the terminal (which schema to load) |
| Settings | `node/src/node_settings.h` | command line, configuration file | parse | start of the process |
| Protocol | `protocol/src/protobuf/*.proto` | none | message definitions, generated code | everybody |
| Link | `link/src/*.h` | as protolink, older | only `packet_header.h` is still used | tests |
| Designer | none (empty directory) | | | |

### What is hard, and what makes each part correct

**Node, router, components.**  One FIFO of posted handlers, any number of
threads that take from it.  `router_` is exchanged atomically in one place and
read as a plain `shared_ptr` everywhere else; a new router is published empty
and filled later; `start` and `stop` walk the components without a lock;
generators post themselves; components hold their router weakly.  Correct
means: to a terminal all this is a set of components and a switch
(`ImplementsService`); a request never follows `router_` into a freed router or into a
table being filled (`RequestsSafe`, `RequestsDefined`) - the packet of a neighbour does, which
`NoFault` shows; the router obeys the last command over any
number of redeployments (`CommandedState`); a generator has no more chains of
`generate` calls than it was started times (`ChainsBounded`); no packet is lost or
doubled by routing (`FlowConserved`); a replaced router goes and does not come back
(`OldRouterFreed`, `NoRevival`); requests are answered while generators keep
the queue busy (`RequestAnswered`); a stopped node goes quiet (`StopDrains`).

**Protolink.**  A client has one buffer for what it writes and what it reads,
writes that may wait for a connection, a dialler with a timer, a `shutdown_`
flag another thread sets, and a server that may die with a FIN or a RST between
any two words.  Correct means: framing survives (`Intact`) as long as the application
waits for each packet; and if it does not wait, as routers do not, as long as no two
operations get into each other's way (`IntactUntilMixed`), and until then packets
arrive in order and at most once, and a request is answered at most once
(`DeliversUntilMixed`, a refinement); one dial at a time (`OneDial`); the dialler
gets through, transactions end, shutdown ends (`DialsThrough`,
`TransactionsEnd`, `ShutdownEnds`).  That nothing is mixed up however the
client is used does not hold (`Intact` in `LinkOverlap`, and `ReceivedInOrder` among the
experiments).

**Listening and dialling.**  Every deployment closes the acceptor and opens it
anew, perhaps on another port, while handlers of accepted connections run on
other threads and go on to accept; it also replaces the router, and with it the
clients, of which some are dialling and hold themselves.  Accepts fail, nodes die
and come back empty.  Correct means: a deployed node never ends up with nobody
accepting (`NeverDeaf`) nor with ever more loops that do (`LoopsBounded`); nodes
that are left with the same configuration meet, if the router of the one that dials is
started and has something to send (`PeersMeet`); what replaced
routers leave behind goes (`ReplacedClientsGo`).

**Deployment plan.**  Three translations in a row, each of which keeps the first
or the last of repeated entries, behind a parser that drops what follows a tag it does
not know.  Correct means: the nodes make what the schemas
say (`AsDesigned`), and even a schema that is wrong leads to no route that ends
nowhere (`NoNullRoute`, `RoutesArrive`).

**Terminal.**  Two threads, signals queued between them, objects that the user's
next click replaces.  Correct means: a slot finds the object it is about
(`PatientSafe`, `DeploymentReported`), replaced clients go (`OldClientsGo`), the
buttons and the nodes agree (`ButtonsTell`, `LastDeployed`), and a deployment is
followed by a status (`StatusShown`).

**Documents.**  The combo boxes hold pointers to documents, "Load" reads the files
rather than the tabs, a file that looks like HTML is shown as its plain text, a save
can fail or be cut short, two tabs can have one
file and change places, other programs write too, and leaving asks about each unsaved document
before it writes the session.  Correct means: no pointer to a closed document
(`CombosListOpen`), a listed document's file is what the box says
(`ListsMatchFiles`), and the next start shows what the last one left
(`SessionRestores`).

## Modules

    MCNode       -> NodeService -> Node
                    NodeService -> Service (INSTANCE, refinement)
    NodeProofs   -> Node                 NodeServiceProofs -> NodeService, NodeProofs
                                         NodeChainProofs   -> NodeProofs
    MCNetwork    -> Network              NetworkProofs -> Network
    MCProtolink  -> Protolink -> Delivery (INSTANCE, refinement)
    ProtolinkProofs -> Protolink
    MCDeployPlan -> DeployPlan           DeployPlanProofs -> DeployPlan
    MCTerminal   -> Terminal             (takes Delivery for its links)
    TerminalProofs -> Terminal
    MCDocuments  -> Documents            DocumentsProofs -> Documents

The MC modules give values to the constants.  Operators whose comment starts
with "Wrong:" are what a plausible mistake would make of the operator below
them; no specification uses them.  They are kept to show that each property can
fail.

### Node

One process: node, router and components together, because they share memory
and threads.  `ready` is the queue of the `io_service`; `run[t]` is what thread
`t` is in the middle of.  A step is a stretch of a handler between two places
where another thread can matter.

| Code | Actions |
|---|---|
| `generator::generate`, `generate_next`, timer handler | `RunGenerate` (test of `started_`), `Generate`, `TimerFires` |
| `component::do_process`, `process` of each kind | `RunProcess` |
| `router::do_route` | `RunRoute` (test of `started_`), `DoRoute` |
| `node::on_new_message`, `router::route` | `HearMessage`, `CountBytes`, `Deliver` |
| `node::process_deploy_request`: Start, Stop | `AcceptCommand`, `SetStarted`, `SweepOne`, `SweepDone` |
| the same: DeployConfig | `AcceptDeploy`, `ReadPrevious`, `Exchange`, `Fill`, then `SetStarted` ... on the new router if the old one was started, and on the old one |
| the same: GetStatus | `AcceptStatus`, `Status` |
| `connection::on_packet_read` to `do_read_header` | `Answer`, `RunRead` |

A router object is a number, the count of deployments when it was made.
`Alive(r)` is its reference count not being zero: `router_`, a posted
`do_route`, or a local `shared_ptr` holds it.  An access through a raw pointer to
a router that is not alive sets `fault` to "freed"; a component table touched
while another thread is in `deploy_from_config` sets it to "race".  Undefined
behaviour has no further steps.

A generator puts out packets without end.  With `MaxEmit = None` the model does so too,
and then no counter of packets moves (`Counting`, `Plus`), which keeps it finite for the
properties that are about handlers and lifetimes; the runs that are about the counters
give `MaxEmit` a number instead.  `begun` counts the calls of `start` of each component,
for `ChainsBounded`.

`NodeAssumption` is about types.  `RoutesAssumption` is what the messages of a
terminal give: the destination of a local route is among the components of the same
message (`NoNullRoute` of `DeployPlan`); without it `deploy_from_config` would
enter a null pointer in the table.

Abstracted: payloads, names (numbers, in the order of `std::map`), byte
counters, the calls of clients (counted in `out`: `Protolink` is about what
happens then), the listening port and the clients of a router (`Network` is about
them).

### Service and NodeService

`Service` is what a node promises its terminal: a set of components, a switch,
and requests that take effect one at a time, each at once and before it is
answered.  `NodeService` maps a node with one terminal to it.  `Frame` is what the
thread in a request is in the middle of.  `View` is the router that stands for
the node: `cur`, or the old one while the new one is still empty.  `IsOn` is
whether `View` is started, or about to be restarted by the deployment.  So a
deployment takes effect in `Fill`, a Start or Stop in `SetStarted`, a status in
`Status`; `Answer` is `Answers` or part of `Reports`; every other step is a
stutter.

### Network

Several nodes, each with an acceptor, a router in use and its clients.  A client is
named by the node, the deployment that made it and the node it dials.  A
deployment is cut into the steps between which a handler of an accepted connection
can run on another thread.

| Code | Actions |
|---|---|
| `process_deploy_request`, `deploy_from_config` | `Deploy` (new router, its clients dial), `Close`, `Open`, `Accept` (the three parts of `server::listen`), `Stop` (the new router is started if the old one was, the old one stopped) |
| the same: Start, Stop | `Command` |
| release of the last reference to a replaced router | `Free` |
| `client::do_connect`, `on_connect`, the timer, `on_packet_sent` | `Connects`, `Refused`, `Redials`, `Sends` |
| `server::do_accept_connection`, `on_connection_accepted` | `Accepted`, `AcceptFails`, `OnAccepted`, `AcceptsNext` |
| the end of the stream at `connection` | `ReadsEnd` |
| death of a process | `Dies` |

The kernel's part is taken from what the code relies on: closing an acceptor
resets its backlog, a connection is made before it is accepted, and the death of a
process resets a connection or ends its stream.  What goes over a connection is
left to `Protolink`.

A client learns of a reset only by sending (`Sends`), and only a started router sends:
`started` says which are.  That a router has something to send along a route is not
part of the fairness but of the property that needs it: `UsesRoute` is a premise of
`PeersMeet`.  Without it a client that was reset in the backlog of an acceptor that
closed stays as it is, while its node is stopped or quiet.

### Protolink and Delivery

`Protolink` is one client and the connection that serves it, with the two
directions of TCP between them as bounded sequences of words.  A packet is a
header of one word (the size) and as many words of body as `Size` says.  A
socket operation waits in `writes` or `reads`, moves as many words as the kernel
takes, and goes to the end of the queue if that was not all: asio's `async_write`
is a loop.  The words are taken from the one shared buffer *at that time*, which
is how an overwritten buffer shows.  A completed operation is a note in `done`;
any of the first `Runners` notes may be the next to run, which is how handlers
overtake each other on two threads.

| Code | Actions |
|---|---|
| `client::do_connect`, `on_connect`, reconnect timer | `Connects`, `ConnectFails`, `OnConnect` (test of `shutdown_`), `Report`, `TimerFires`, `Retry` |
| `async_send_message`, `async_send_request` | `Send` |
| `on_packet_sent`, `on_packet_header_read`, `on_packet_read` | `Writes`, `OnPacketSent`, `Reads`, `ReadFails`, `OnHeaderRead`, `OnPacketRead` |
| `prepare_shutdown`, `~client` | `PrepareShutdown`, `Destroyed` |
| `connection` | `ServerReadsHeader`, `ServerReadsPacket`, `ServerWrites` |
| death and return of the other process | `ServerDies`, `ServerReturns` |

An application that does not wait can have several operations at the one client.
`mixed` records when two of them get into each other's way: a packet is put into the
buffer while another still has to be taken from it (`BufferInUse`) or a response is being read
into it; a header read is started while there is one, or completed and not
handled; or the handler of a header read that ended outlives its connection, because a reset
made the client dial again, and starts to read the body on the next one; and on the other
end a packet is read into the buffer from which a response is still written.  In the
code nothing prevents any of these.

`Delivery` is what a link promises: packets numbered as sent, received in order
and at most once, answered at most once and only if received.  `DeliversUntilMixed`
says that every step is one of `Delivery!Spec`, under the refinement mapping in
`Protolink`, or one from which on something is mixed.

### DeployPlan

The path from the two schemas to the components and routes of every node.  The
parser's result, the five maps, the message and what the node makes of it are
operators; the only variable that changes is what each node has made, one
`Deploy(n)` per node in any order.  First-wins and last-wins maps are written as
such (`Place` is the first, `NodeOf` and `Paired` the last).  Both schemas are sequences
of tags, which the parser reads up to the first it does not know: `app` are the
connections and `declared` the components that were read of the application.  A schema
that maps to a node nobody described ends the terminal (`Loads`); a component that is
mapped but was not read has no kind, and looking that up ends the terminal too
(`Abort`, the assertion in `convert.h:23`); a destination without an address ends the
node (`ended`).

### Terminal

`MainWindow`, the `RemoteNode`s of every load, their clients, and of the nodes the
number of components and whether they are started.  A `RemoteNode` is the pair
(load, node).  `Exists` says who holds it: the window, a `TreeModel` that
`deploy()` made and nobody deletes, or a client with something pending.  Signals
wait in `events` for the GUI thread.  `fault` records "sender" (a null
`sender()` used), "index" (a row -1) or "row" (a component beyond the rows).

| Code | Actions |
|---|---|
| `button_clickedSetup`, `createRemoteNodes`, `RemoteNode::shutdown` | `Load` |
| `deploy`, `on_start_triggered`, `on_stop_triggered`, `on_status_triggered` | `Deploy`, `Start`, `Stop`, `Poll` |
| the client, on the service thread | `Connects`, `ConnectFails`, `Redials`, `Finish` |
| the node | `Serve` |
| slots | `OnConnected`, `OnDeployed`, `OnCommanded`, `OnStatus` |

A link is taken to be what `Delivery` promises.  `Protolink` shows that it is
that only as long as operations do not get mixed up (see below), so `Terminal`
is about the terminal over a link that works.

Who sits there is a constant: `Users`, of whom `Init` picks one.  A patient user
acts only when all is connected and answered; a hasty one clicks at any time.

### Documents

The tabs, what each shows and the path it has, the two combo boxes, the files and
the session.  Of a text only this is kept: whether it is an application, a deployment or
neither (`KindOf`), and whether it begins like HTML, for which `setText` shows its plain
text (`Shown`).  Such texts come in two sorts: a page whose plain text is an application
("page"), and an application below a DOCTYPE, which is lost with its tags ("headed").  The user may
select any tab before each operation, so "save all" is a save of each.

| Code | Actions |
|---|---|
| new and open, edit, close a tab | `Create`, `OpenFile`, `Edit`, `CloseTab`, and `CloseNoTab` (a null pointer ends the terminal) |
| the tabs are movable | `MoveTab` |
| `saveDocument`, `Document::save`, `saveAs` | `Save` (`NotSaved`, `Saved`) |
| `addConfig`, `delConfig`, `updateConfig`, selecting | parts of the above, `Select` |
| `button_clickedSetup` up to the parser | `Load` (or `Crash`, if no document is selected) |
| closing the window, `~MainWindow`, `save_session` | `Exit`, `Asks`, `Exits` |
| the constructor, `load_session` | `Start` (`Loaded` reopens the saved paths one after the other) |
| a kill; another program | `Killed`, `Changed` |

## Runs

| Run | Question | Result |
|---|---|---|
| `NodeTwoThreads` | Two threads, one terminal and a neighbour; two graphs with a generator, a calc and a history replace each other; three commands, a packet of the neighbour to any component and port, a generator puts out one packet | `TypeOK`, `RequestsSafe`, `CommandedState`, `FlowConserved` hold, no step that serves a request is undefined (`RequestsDefined`), and the node implements `Service` (`ImplementsService`) |
| `NodeLive` | Two threads, weak fairness, four commands, redeployments between a graph with a plain generator and one with a timed one, both of which emit without end | `ChainsBounded`, `NoRevival`, `RequestAnswered`, `OldRouterFreed`, `StopDrains` hold |
| `NodeNeighbour` | Two threads, one deployment and one packet of a neighbour: is all of it defined? | No: `NoFault` is violated |
| `Network` | Two nodes, one with a route to the other, which moves to another port and back or is not needed any more; Start and Stop at any time; an accept that fails or a death | `TypeOK`, `NeverDeaf`, `LoopsBounded`, and under fairness `PeersMeet`, `ReplacedClientsGo` hold |
| `LinkOneAtATime` | Client and connection, two handlers at once, one outstanding operation, three packets, two deaths of the server, frames that do not fit the kernel's buffer | `TypeOK`, `Intact`, `OneDial`, and under fairness `DialsThrough`, `TransactionsEnd`, `ShutdownEnds` hold |
| `LinkBackToBack` | The same with three packets that the application hands over without waiting, and one death | `IntactUntilMixed`, `DeliversUntilMixed` hold |
| `LinkOverlap` | Two outstanding requests, one handler at a time, no deaths | `Intact` is violated |
| `LinkHeld` | Does the client hold its connection over a restart of the server? | No: `HoldsConnection` is violated |
| `Plan` | Every order of a right schema (three components, two nodes, each with or without a reserve node, up to two connections), every deployment schema of up to three tags after the nodes, right or wrong, and applications with an unknown tag in any place | `TypeOK`, `AsDesigned` (of right schemas), `NoNullRoute`, `RoutesArrive` hold |
| `Term` | A patient user (four clicks) or a hasty one (two), three loads, a failed attempt, polls at any time | for the patient one `PatientSafe`, `ButtonsTell`, `LastDeployed`, and under fairness `StatusShown` hold; for both `TypeOK`, `DeploymentReported`, `OldClientsGo` |
| `TermReload` | The hasty user: does a slot always find its sender? | No: `NoFault` is violated in four steps |
| `Documents` | Three documents over two files, one of which cannot be written; six moves of the user and other programs, tabs drawn to other places, texts that look like HTML, a full disk, kills and restarts | `TypeOK`, `CombosListOpen`, `ListsMatchFiles`, `SessionRestores` hold |

### The bounds, and why they are enough

* *Node.*  Three or four commands allow Start, Deploy, Start and Stop in every
  order, that is a redeployment of a started router followed by a command, or two
  redeployments in a row; three routers make the newest, the replaced one and the
  one before it meet.  Three components make a path with a fork, and `std::map`
  order matter in the sweep.  With two threads, one is anywhere inside a request, a packet of a
  generator or one of the neighbour while the other does something else; the process
  has `settings.threads` workers and the main thread, so it never has less than
  two when it has workers.  `NodeLive` has no bound on what generators emit, so nothing ends
  by itself; graphs of one and two components keep that within reach, and a
  second Start after a Stop gives a generator its second chain.  Threads are symmetric in
  `NodeTwoThreads`, which checks no liveness.
* *Network.*  What `listen()` meets is left by the deployment before it, so two
  deployments of each node make every meeting of two; a client of one router and
  one of its successor dial the same node on two ports.  One failed accept ends a
  loop, one death takes clients and connections in any state (`MaxFaults` counts both;
  the theorems are about any number of each).  A third deployment
  would meet what the second does.  Two caught connections at once need two
  clients that dial one node: the two generations of `x` do.
* *Protolink.*  Two words of response and `Cap = 2` make a frame longer than the
  kernel's buffer, so writes are cut and requeued; the other packets fit exactly.
  Two deaths give a reconnection that is lost again; three packets a message and
  a request on either side of one.  `MaxInFlight` is not a limit of the code: it
  says how the application uses the client: 1 is one that waits, 3 a router that hands
  over three packets at once, and three are enough for one to follow two others on the
  wire, or another connection.
* *Plan.*  Every first-or-last choice concerns a pair of entries; three tags and
  two connections give all pairs, with a third that may come between.  The short
  schemas of any tags are taken with one connection.
* *Terminal.*  Two nodes for the patient user, one for the hasty one, and three
  loads; the faults need one replaced load, the third shows that nothing builds up.  A client is polled again only
  when its last status has been shown; otherwise the queues would grow without
  bound.

* *Documents.*  The properties relate two tabs that share a file and a third
  between them; six moves allow start, open, edit, a save that fails, and a save over
  another's file or a restart.

`CHECK_DEADLOCK FALSE` is said where the system really may stop: a client with
nothing to send, a deployment that has been made, a network that has settled, a user who has
clicked or moved enough, undefined behaviour that has no further steps.  A node never stops (a status
request is always possible), so deadlock is checked in the runs of `Node`.

### Fairness

* *Node*: weak fairness of every thread's work and of the timers.  The threads
  are inside `service_.run()`, which returns to the queue after every handler,
  and the operating system schedules them.  Nothing makes a terminal or a
  neighbour speak.
* *Protolink*: weak fairness of the oldest handler, the timer, the kernel and the
  server's reads and writes.  The handler queue is a FIFO, so weak fairness of
  its head suffices.  Nothing makes the application send, or the server return:
  `DialsThrough` and `TransactionsEnd` state it as a premise.
* *Network*: weak fairness of a deployment under way, of every handler, of the
  kernels and of the redial timers; replaced routers are freed, since what holds
  them is a handler that runs (`OldRouterFreed` shows that of `Node`).  Nobody
  makes a terminal deploy, start or stop, an accept fail or a node die, and nothing makes a
  router send: `PeersMeet` states it as a premise (`UsesRoute`).
* *Terminal*: weak fairness of the GUI thread's event loop, of the status timer,
  and of each client and node.  A failed attempt is not fair, and bounded.

### What the violations say

* `NoFault` of the node: `on_new_message` reads `router_` twice as a plain pointer
  (`node.h:145`).  A request on another thread exchanges the router, releases the
  old one and fills the new one in place; the packet follows the pointer into a freed
  router, or looks into a table that is being written.  One terminal and one
  neighbour suffice, with two threads.  The requests themselves are safe
  (`RequestsDefined`, proved).
* `Intact` with two outstanding operations: every request starts its own header
  read (`client.h:202`).  The second is queued before the body of the first
  response is asked for, and takes that body for a header.  The terminal polls
  and clicks without waiting, so it can have two requests outstanding.
* `HoldsConnection`: the client dials again only when a write fails with eof or a
  reset (`client.h:189`); after a FIN the first write succeeds and the next one is
  a broken pipe, which is neither.
* `NoFault` of the terminal: `onConnected` uses `sender()` unchecked
  (`mainwindow.cpp:305`); the `RemoteNode` may be replaced and destroyed while
  its signal is in the queue.

### Experiments

Not among the runs; change the constants named to see them.

* `StartStopReachAll` (Node) with two threads and two control connections: Start
  and Stop of two terminals interleave in the loops of `router::start` and `stop`,
  and the router ends started with a stopped generator.
* `OneChain` (in `NodeLive`): a Stop and a Start run on one thread while another is
  still inside `generate()` of a generator, or its handler is still in the queue;
  `start` begins a second chain and the first goes on, since `started_` is set again.
  `ChainsBounded` is what remains true: there are never more chains than Starts.
* `StatusOutIsSent` (in `NodeTwoThreads`): `status_response()` fills `out_packet_count`,
  which `deploy.proto:167` calls the counter of sent packets, from the input counter
  (`node.h:306`).
* `ReceivedInOrder` (in `LinkBackToBack`): two messages are sent while the client is
  connecting; the second overwrites the first in the one buffer
  (`client.h:168`) and is sent twice.  It takes no death and no second handler at once.
* `KindsKnown` (in `Plan`): an unknown tag among the instances ends the parse of the
  application, the terminal goes on with what it has, and looks up the kind of a component
  that was mapped but not read: `assert(false)` in `convert.h:23`.
* `InstancesCreated` (DeployPlan) with `Cases` the right schemas with
  two connections: a reserve node is sent its components with a map to itself, but
  a connection to one of them, from a component listed earlier, adds a map of it
  to the main node, which comes first; the reserve node then does not make it.
  `AsDesigned` is therefore about main nodes only.
* `fault # "index"` (Terminal) with `Users <- JustHasty`: the late status of a
  replaced `RemoteNode` that is kept alive has no row in the new model.
* `fault # "row"` with a user like him who has schemas of one and of two components:
  a late status can also bring more components than that `RemoteNode`'s first one
  had, because the node was deployed anew in between.
* `ReplacedClientsGo` (Network) without its premise on those that dial: a client
  of a replaced router whose address nobody listens on any more dials for ever,
  because nothing in `node.h` calls `prepare_shutdown`.

## Proofs

`NodeProofs`, `NodeServiceProofs` and `NodeChainProofs` prove about `Node`, for all
constants that satisfy `NodeAssumption`: any number of threads, connections, components, any
configurations and any bounds; `PacketsConserved` also uses `RoutesAssumption`, and the
lemmas about counters use `EmitAssumption`.
`NetworkProofs` proves about
`Network`, under `NetworkAssumption`: any finite set of nodes, any ports,
configurations and bounds.  `ProtolinkProofs` proves about `Protolink`, under `ProtolinkAssumption`: any packets, sizes, number of
handlers that may run at once and capacity of the kernel's buffer.
`TerminalProofs` proves about `Terminal`, under `TerminalAssumption`: any users,
schemas and nodes.  `DeployPlanProofs` proves about `DeployPlan`, under
`DeployPlanAssumption`: any set of pairs of schemas, of any length.
`DocumentsProofs` proves about `Documents`, under `DocumentsAssumption`: any number of
documents and moves, any files.  But for `RoutesAssumption` the assumptions on
constants are about their types; where a theorem has a hypothesis of its own the
table says it.

| Theorem | Statement |
|---|---|
| `TypeCorrect` | `Spec => []TypeOK` |
| `FreedStaysFreed` | `Spec => NoRevival` |
| `OneRequestPerConnection` | `Spec => []OneRequestEach` |
| `OneTerminalSafe` | at most one control connection: `Spec => []RequestsSafe /\ RequestsDefined` |
| `NodeImplementsService` | exactly one control connection: `Spec => ImplementsService` |
| `TerminalIsObeyed` | exactly one control connection: `Spec => []CommandedState` |
| `ChainsStayBounded` | `Spec => []ChainsBounded` |
| `PacketsConserved` | `Spec => []FlowConserved` |
| `NetworkTypeCorrect` | (Network) `Spec => []TypeOK` |
| `DeployedNodesListen` | (Network) `Spec => []NeverDeaf` |
| `LoopsStayBounded` | (Network) `Spec => []LoopsBounded` |
| `TypeCorrect` | (Protolink) `Spec => []TypeOK` |
| `DialsOneAtATime` | (Protolink) `Spec => []OneDial` |
| `TypeCorrect` | (DeployPlan) `Spec => []TypeOK` |
| `PlansAsDesigned` | (DeployPlan) `Spec => []AsDesigned` |
| `LocalRoutesHaveTheirComponent` | (DeployPlan) `Spec => []NoNullRoute` |
| `RemoteRoutesHaveTheirComponent` | (DeployPlan) `Spec => []RoutesArrive` |
| `TypeCorrect` | (Terminal) `Spec => []TypeOK` |
| `AnswersFindTheirNode` | (Terminal) `Spec => []DeploymentReported` |
| `PatienceIsSafe` | (Terminal) `Spec => []PatientSafe` |
| `DeploymentsArrive` | (Terminal) `Spec => []LastDeployed` |
| `ButtonsAgree` | (Terminal) the schemas of a patient user are about the same nodes (`SameNodes`): `Spec => []ButtonsTell` |
| `DocumentsTyped` | (Documents) `Spec => []TypeOK` |
| `ListedAreOpen` | (Documents) `Spec => []CombosListOpen` |
| `ListedFilesFit` | (Documents) `Spec => []ListsMatchFiles` |
| `SessionIsRestored` | (Documents) `Spec => SessionRestores` |

*TypeCorrect.*  `TypeOK` is inductive by itself, one lemma per action.  The work
is in the records of `run` (`Frames` says which fields a step needs) and in the
sequences that handlers append to the queue.

*FreedStaysFreed.*  A router becomes alive only by a new holder: `router_`, a
posted `do_route`, a thread's `own`.  `NoNewHolder` goes through the actions: each
one that posts a `do_route` did so under a successful `lock()` of the weak
pointer, or holds the router itself; the only new value of `router_` is a
router that has not been made yet, of which the property does not speak.  The
lemmas before it say what a queue holds after a handler was removed or appended.

*OneRequestPerConnection.*  `OneRequestEach` is inductive: a connection is
"serving" while a thread works on its request, "queued" while its read waits in
the queue, at most once, and "reading" otherwise.  The conjunct on the queue
(`ReadOnce`) is what makes it so: without it a second read could make the
connection "reading" during a request.

*OneTerminalSafe.*  The invariant is `OneRequestEach /\ PointersHeld`.
With one connection, `OneRequestEach` says that at most one thread is in a request.
Only that thread changes `router_`, so the raw pointer it read is still
`router_`, or one of the two `shared_ptr`s of the deployment holds it
(`PointersHeld`); and no other thread can be filling the table it touches.  So a step
of that thread never sets `fault`.  Threads that carry a neighbour's packet hold
nothing of the kind, and nothing is claimed of them.

*NodeImplementsService.*  With one connection, `OneRequestEach` makes `Frame` the
frame of the only thread in a request: `FrameBegins`, `FrameMoves`, `FrameEnds` and
`FrameStays` say how it changes.  The refinement mapping reads the routers through
`Frame`, so the proof needs `ViewInv`: the router in use is the newest, those to
come are stopped, and what `Frame` remembers (the previous state, the old router)
is still so.  Then every action is one step of `Service` or none, one lemma each.

*TerminalIsObeyed.*  `CommandedState` speaks only of the time between requests, so
the invariant says what is true within one.  `CmdInv`: the switch of `Service` is
as commanded, except between a Start or Stop and its first line; beside the router
in use only the old one of a deployment is started, and it is still to be stopped;
every generator agrees with its router except those the loop has not reached;
components that are not there yet are stopped.  Between requests `Frame` is `Idle`,
and `CmdInv` says `CommandedState`.  `ViewInv` contributes which router a Start or
Stop, and each half of a deployment, works on.

*ChainsStayBounded.*  The invariant, `ChainInv`, counts for each generator its posted
`generate` handlers, the threads inside it and its pending wait, at most `begun` together
(`Few`; it also says that those threads are finitely many, without which their number
means nothing).  `generate` posts or arms no more than what it was entered for: the wait it
cancels becomes a handler, and the new wait is its own chain (`GenerateLeaves`).  So does
the wait that `stop` cancels (`WaitPosted`).  Only a call of `start` begins a chain, and
`begun` counts it (`SweepOneChains`).  Nothing is assumed of the threads; that two of
them can make one generator run two chains is `OneChain`, above.

*PacketsConserved.*  `FlowInv` has four parts.  `Blank`: the router in use has been
made, and those to come, and the one that is about to be filled, are empty.
`Homes`: handlers, threads, loops and timers are about components of their router.
`Counts`: how many packets a component has routed is a natural number, and none if
it is not there.  `Ledger`: what came to a component, processed or still waiting,
less what other nodes sent it, is the number of copies that local routes made, and
`out` is the number made by remote ones.  The copies are a set of records, one for
each packet and each end of a route, so that the sums over routes are cardinalities:
`CopiesGrow` says that one packet more of a component adds one copy for every end of
its routes, and `CountConcat` and `CountTail` do the same for the posted packets.
Steps that move no packet need only that the quantities stay (`Same`, `QuietFlow`).
`Fill` gives a table to a router for which all of them are zero; this is where `Blank` is
needed, and why the destination of a local route has to be there.

*DeployedNodesListen, LoopsStayBounded.*  One invariant, `NetInv`, proves both.
Accept loops are counted over all nodes' connections, so a step of any client
could disturb the count: `Linked` (who is served is connected, or was) says that a
client that dials has no accepted connection to lose, and `Fresh` the same of
clients to be made.  `Prepared` says that the acceptor is closed only between
`Close` and `Open`; that is why a loop that ends there leaves another one to come.
`Counted` sharpens `LoopsBounded`: between the close and the accept of a
deployment the count is one less, which pays for the loop it starts.  `TypeOK`
alone is not inductive, because `Open` takes the port from a configuration.

*DialsOneAtATime.*  The invariant is `DialInv`.  An attempt to connect is to come if the
timer runs or a handler waits in the queue that leads to one (`Diallers`); the
invariant says that there is at most one of these and none while the socket is in
use, and that at most one write is told of a reset, on a connection that was just
lost.  The second half is what makes it inductive: a second such write would dial a
second time.  The lemmas about `Once` and `Of` say what becomes of the handlers of one
kind when one is taken from the queue or added.

*AnswersFindTheirNode.*  `DeployKept`: the `RemoteNode` of every deployment request,
answer or signal is pinned by a `TreeModel`.  `DeploymentReported` speaks of
signals alone, and the requests and answers are what they come from.

*PatienceIsSafe, DeploymentsArrive.*  `PatientInv`, for a patient user: what is on
its way concerns the `RemoteNode`s of the window, and those stay connected once they
were (`Attended`); whatever is on its way of a deployment is of the schema that is
loaded (`DeployAnswered`); a node has what the schema says, or will have before the
next status is taken (`Sized`); rows of schemas to come are empty (`Unseen`).  A
status therefore never has more components than the rows.  Each part needs
another: that nobody dials once the schema is deployed comes from `Attended`, that
nobody polls before from `DeployAnswered`.

*ButtonsAgree.*  `Obeys`: a Start is on its way only while the stop button is shown, a
Stop only while it is not, and a node that neither is on its way to does what the
button tells.  A new schema inherits the buttons, which is why it must be about the
same nodes.

*The plan.*  The steps of `DeployPlan` are few; the work is in what its operators
return for schemas of any length.  `Induction` comes from the well-foundedness of
the naturals and `WFMin` (the library's induction theorems take an operator, which
the provers cannot instantiate; a set of naturals they can).  From it follows what
`FlattenSeq` and `Only` return: every element of the result has its place in the
argument, in the same order, and none is left out (`Laid`, `Placed`).  Everything
else is about which elements a sequence has, which is the first or the last of
them, and that there are no two of a kind (`Distinct`).

*LocalRoutesHaveTheirComponent, RemoteRoutesHaveTheirComponent.*  `PlanInv` says that
a node that is deployed has made what its message says, and that this is still
what the schemas say.  `MapHolds` is the heart: a map in a message either has the
node's own name, and then the component is among those sent there, or the node of
`map_component_node`, which is another.  So a place here is a component here
(`PlaceHere`); and if a component's place is elsewhere, the last mapping says so,
that mapping is also in `map_node_with_components`, and no map in the other node's
message can say otherwise (`PlaceElsewhere`).

*PlansAsDesigned.*  With one mapping for each component its last entry in the maps is
that of the main node, because `parse_deploy` enters the reserve node first
(`NodeOfHome`, by order), and it is entered there once (`ComponentsOnce`).  Then
every place is the component's home (`PlaceHome`, `ToHome`), no address is missing,
and sequences without repetition have as many elements as their set (`DistinctOnce`).

*ListedAreOpen, ListedFilesFit.*  `DocInv` is about a window, whether the one that is
shown or one of those that `Loaded` goes through: the tabs are distinct documents
(`TabsFit`), what is listed is open, in one list, and has a path (`ListsFit`), and its
file is of the list's kind, unless another document or program spoiled it (`FilesFit`).
The second needs the first: a save changes the list and the file of one path, and
other listed documents of that path are spoiled by it.  `Start` needs the same of the
window after each reopened path, by induction over a set of numbers (`Counting`, from
`WFMin`), as in the plan.

*SessionIsRestored.*  `SessionKept`: while the terminal is closed the session is what
the tabs were (an exit asks about all tabs first, and others change only files).
`LoadFileNames` says that reopening a path adds its name at the end if the file is
there, for which the new document must be none of those in the tabs.  So the names of
the windows of `Loaded` satisfy the equation that defines `Remaining`; that is also why
such a function exists, and by `Counting` the two agree up to the last tab.

What is model-checked only: all liveness (the prover has no rules for fairness
of this kind and none for ENABLED), and of `Protolink` framing and delivery: `Intact` for
an application that waits, `IntactUntilMixed` and `DeliversUntilMixed` for one that does not.

## Not modelled

* Packets of more than the buffer's size, and the missing room for the header in
  the connection's buffer (`connection.h:218`): sizes are words that fit.
* Handlers of the serving connection that run late: in `Protolink` they run at
  once, so a write handler bound to the bare connection (`connection.h:224`) that
  outlives it does not show.
* A port that another process has taken, and what `bind` throws then.
* A data race on `transactions_` itself (two threads in one `std::map`).
* Node names, addresses and byte counters; `~node`, which is never reached.
* Reading XML as such: the parser is modelled from the tags it returns on.
* Speeds and byte statistics of the terminal and the painting of its tree: no
  control that another part depends on.
* `ConfigDialog`: the only action that opens it is disabled and hidden in
  `mainwindow.ui`, and nothing enables it.
* Settings: the command line and the configuration file are parsed by a library.
* `protocol` (generated code), `link` (superseded by protolink), `designer`
  (empty).

## Plan

Done, in this order: `Node` with its proofs, `Protolink` and `Delivery`,
`DeployPlan`, `Terminal`, then `Network`, `Service` with the proof that `Node`
implements it, the proof of `CommandedState`, `Documents`, the proofs about
`Network`, `Protolink`, `Terminal`, `DeployPlan` and `Documents`, the proof of
`FlowConserved`, the application schema in `DeployPlan`, sending back to back in
`Protolink`.  What is left:

1. Handlers of the serving connection as notes in a queue, as those of the client
   are in `Protolink`, so that two of its own may meet on two threads.
2. Reserve nodes of a schema: which instances they make (`InstancesCreated` fails, see
   the experiments) stated as a property that holds, and its proof.
3. The proof of `IntactUntilMixed`: where every word on the wires comes from, as long as
   nothing is mixed up.
