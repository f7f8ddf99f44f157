-------------------------------- MODULE Node --------------------------------
(***************************************************************************)
(* One node of Alpha.ProtoRt: the process that hosts a graph of components,*)
(* routes packets between them and obeys a terminal (node/src/node.h,      *)
(* node/src/router.h, components/src/*.h).                                 *)
(*                                                                         *)
(* Everything runs on the threads that call service_.run(): a thread takes *)
(* the head of the FIFO of posted handlers, or the completion of a socket  *)
(* read, runs it to the end and comes back.  A step of this module is a    *)
(* stretch of a handler between two places where another thread may        *)
(* matter: a read of the shared pointer router_, a read of a started flag, *)
(* one component of a loop over the components.                            *)
(*                                                                         *)
(* Lifetimes are modelled: a router lives while router_, a posted do_route *)
(* or a local shared_ptr of a running handler refers to it.  A handler     *)
(* that follows a raw router_ into a freed router, or touches a component  *)
(* table another thread is filling, has undefined behaviour: `fault' says  *)
(* so and the behaviour ends there.                                        *)
(***************************************************************************)
EXTENDS Integers, Sequences, FiniteSets

CONSTANTS
    Threads,      \* the threads inside service_.run()
    Controls,     \* connections a terminal sends requests on
    Peers,        \* connections other nodes send packets on
    Comps,        \* names of components; as std::map keys they are ordered
    Kind,         \* the ComponentKind of every name
    Configs,      \* the deployment configurations terminals send
    MaxCommands,  \* bound: Deploy, Start and Stop requests accepted
    MaxMessages,  \* bound: packets accepted from other nodes
    MaxEmit,      \* bound: packets one generator object puts out; None for no
                  \* bound, and then packets are not counted
    None

Generators == {"generator", "timed_generator"}
Kinds == Generators \cup {"retranslator", "calc", "terminator", "history"}
Ports == 0 .. 2     \* input ports; port 2 stands for any the code ignores
OutPorts == 0 .. 1

\* A configuration is what deploy_from_config makes of it: the components
\* created here, for every output port its local routes in the order of the
\* connections, and how many routes lead to other nodes.
Dest == [dest : Comps, port : Ports]
ConfigShape == [comps  : SUBSET Comps,
                local  : [Comps -> [OutPorts -> Seq(Dest)]],
                remote : [Comps -> [OutPorts -> Nat]]]

ASSUME NodeAssumption ==
    /\ Comps \subseteq Nat
    /\ Kind \in [Comps -> Kinds]
    /\ Configs \subseteq ConfigShape
    /\ MaxCommands \in Nat /\ MaxMessages \in Nat
    /\ Controls \cap Peers = {}
    /\ None \notin Controls \cup Peers \cup Nat

ASSUME EmitAssumption == MaxEmit \in Nat \cup {None}

\* A route is local if its destination is mapped to this node; by the messages of a
\* terminal the destination is then created here (NoNullRoute of DeployPlan).
ASSUME RoutesAssumption ==
    \A k \in Configs : \A s \in k.comps, p \in OutPorts :
        \A i \in DOMAIN k.local[s][p] : k.local[s][p][i].dest \in k.comps

Routers == 0 .. MaxCommands   \* generations of router objects; 0 is the
                              \* empty one the constructor of node makes
NoConfig == [comps  |-> {},
             local  |-> [c \in Comps |-> [p \in OutPorts |-> <<>>]],
             remote |-> [c \in Comps |-> [p \in OutPorts |-> 0]]]

\* Handlers posted to the io_service
Handlers == [op : {"generate", "route"}, r : Routers, c : Comps]
            \cup [op : {"process"}, r : Routers, c : Comps, port : Ports]
            \cup [op : {"read"}, k : Controls]

\* What a thread is in the middle of
PacketSteps == {"generate", "route"}            \* posted handlers
MessageSteps == {"bytes", "deliver"}            \* on_new_message
RequestSteps == {"set", "sweep",                \* router::start, stop
                 "status", "prev", "swap", "fill"}
FrameShape == [pc   : {"idle"} \cup PacketSteps \cup MessageSteps \cup RequestSteps,
               k    : Controls \cup Peers \cup {None},  \* the connection served
               r    : Routers,                \* the router it points to
               c    : Comps \cup {None},
               port : Ports,
               on   : BOOLEAN,                \* start or stop; router_previous_state
               todo : SUBSET Comps,           \* what the loop has not reached yet
               own  : SUBSET Routers,         \* routers held by local shared_ptrs
               old  : Routers \cup {None},    \* old_router, in a deployment
               conf : Configs \cup {NoConfig}]
Frames == {f \in FrameShape :
             /\ f.pc \in PacketSteps \cup MessageSteps => f.c \in Comps
             /\ f.pc \in MessageSteps => f.k \in Peers
             /\ f.pc \in RequestSteps => f.k \in Controls
             /\ f.pc = "fill" => f.old \in Routers}

Idle == [pc |-> "idle", k |-> None, r |-> 0, c |-> None, port |-> 0,
         on |-> FALSE, todo |-> {}, own |-> {}, old |-> None, conf |-> NoConfig]

VARIABLES
    ready,      \* io_service: the handlers posted and not yet run, oldest first
    run,        \* what every thread is in the middle of
    ctl,        \* control connections: "reading" (a request may come), "serving",
                \* "queued" (told to read on, behind what is ready)
    cur,        \* node::router_
    made,       \* routers made so far, after the first
    started,    \* router::started_
    conf,       \* router::components_, with the routes of every component
    genOn,      \* generator::started_
    timer,      \* timed_generator: a wait is pending on generate_timer_
    inCount,    \* component::in_packet_count_
    out,        \* router::out_packets_
    reply,      \* component statuses of a response, until the connection reads on
    fault,      \* "freed" or "race" once the behaviour is undefined
    asked,      \* requests counted against MaxCommands
    heard       \* packets counted against MaxMessages

\* History: read by guards of bounds and by properties only
VARIABLES
    commanded,  \* the last Start or Stop a terminal asked for
    restarted,  \* routers that were started while started
    begun,      \* per component object, calls of component::start()
    emitted,    \* per component object, do_route handlers posted
    dropped,    \* per component object, do_route at a stopped router
    fed         \* per component object, packets of other nodes routed to it

routerVars == <<cur, made, started, conf>>
compVars == <<genOn, timer, inCount>>
histVars == <<commanded, restarted, begun, emitted, dropped, fed>>
vars == <<ready, run, ctl, routerVars, compVars, out, reply, fault, asked,
          heard, histVars>>

PerObject(S) == [Routers -> [Comps -> S]]
Zero == [r \in Routers |-> [c \in Comps |-> 0]]
False == [r \in Routers |-> [c \in Comps |-> FALSE]]

\* Components and state variables keep to their domains.
TypeOK ==
    /\ ready \in Seq(Handlers)
    /\ run \in [Threads -> Frames]
    /\ ctl \in [Controls -> {"reading", "serving", "queued"}]
    /\ cur \in Routers /\ made \in Routers
    /\ started \in [Routers -> BOOLEAN]
    /\ conf \in [Routers -> Configs \cup {NoConfig}]
    /\ genOn \in PerObject(BOOLEAN) /\ timer \in PerObject(BOOLEAN)
    /\ inCount \in PerObject(Nat)
    /\ out \in [Routers -> Nat]
    /\ reply \in [Controls -> SUBSET [r : Routers, c : Comps, in : Nat, out : Nat]]
    /\ fault \in {"none", "freed", "race"}
    /\ asked \in 0 .. MaxCommands /\ heard \in 0 .. MaxMessages
    /\ commanded \in BOOLEAN /\ restarted \in [Routers -> BOOLEAN]
    /\ begun \in PerObject(Nat)
    /\ emitted \in PerObject(Nat) /\ dropped \in PerObject(Nat)
    /\ fed \in PerObject(Nat)

Init ==
    /\ ready = <<>>
    /\ run = [t \in Threads |-> Idle]
    /\ ctl = [k \in Controls |-> "reading"]
    /\ cur = 0 /\ made = 0
    /\ started = [r \in Routers |-> FALSE]
    /\ conf = [r \in Routers |-> NoConfig]
    /\ genOn = False /\ timer = False
    /\ inCount = Zero
    /\ out = [r \in Routers |-> 0]
    /\ reply = [k \in Controls |-> {}]
    /\ fault = "none"
    /\ asked = 0 /\ heard = 0
    /\ commanded = FALSE /\ restarted = [r \in Routers |-> FALSE]
    /\ begun = Zero /\ emitted = Zero /\ dropped = Zero /\ fed = Zero

-----------------------------------------------------------------------------
(* Lifetimes and shared memory *)

\* A posted do_route holds the router as a shared_ptr; generate, do_process
\* and pending timers hold only their component.
HandlerHolds(h, r) == h.op = "route" /\ h.r = r

HeldBy(queue, r) == \E i \in DOMAIN queue : HandlerHolds(queue[i], r)

\* Is the router object still there?
Alive(r) ==
    \/ cur = r
    \/ HeldBy(ready, r)
    \/ \E t \in Threads : r \in run[t].own

\* Another thread than t is inside deploy_from_config, which fills the table
\* of whatever router_ points to.
FilledByOther(t, r) == cur = r /\ \E u \in Threads \ {t} : run[u].pc = "fill"

\* What following a raw pointer to r does to the thread t.
Follow(t, r) == IF Alive(r) THEN "none" ELSE "freed"

\* The same, for code that reads or writes the component table of r.
FollowIntoTable(t, r) ==
    IF ~Alive(r) THEN "freed" ELSE IF FilledByOther(t, r) THEN "race" ELSE "none"

-----------------------------------------------------------------------------
(* Components *)

\* Counters of packets
Counting == MaxEmit # None
Plus(n, k) == IF Counting THEN n + k ELSE n

First(S) == CHOOSE c \in S : \A d \in S : c <= d

RouteHandler(r, c) == [op |-> "route", r |-> r, c |-> c]
GenerateHandler(r, c) == [op |-> "generate", r |-> r, c |-> c]

\* generate() from its post on: the packet goes to do_route if the weak
\* router_ can be locked, then generate_next().  The plain generator posts
\* itself, again if the router lives.  The timed one re-arms its timer; a wait
\* that was pending is cancelled, and its handler runs generate() all the same
\* because it takes no error code.
MayEmit(r, c) == Counting => emitted[r][c] < MaxEmit
EmitsUnlocked(r, c) == MayEmit(r, c)    \* wrong: no lock()
Emits(r, c) == Alive(r) /\ MayEmit(r, c)

\* Wrong: start() and generate_next() both post.
NextGenerateTwice(r, c) ==
    IF IF Kind[c] = "generator" THEN Alive(r) ELSE timer[r][c]
    THEN <<GenerateHandler(r, c), GenerateHandler(r, c)>> ELSE <<>>

NextGenerate(r, c) ==
    IF IF Kind[c] = "generator" THEN Alive(r) ELSE timer[r][c]
    THEN <<GenerateHandler(r, c)>> ELSE <<>>

GeneratePosts(r, c) ==
    (IF Emits(r, c) THEN <<RouteHandler(r, c)>> ELSE <<>>) \o NextGenerate(r, c)

GenerateEffect(r, c, queue) ==
    /\ ready' = queue \o GeneratePosts(r, c)
    /\ emitted' = [emitted EXCEPT ![r][c] = IF Emits(r, c) THEN Plus(@, 1) ELSE @]
    /\ timer' = [timer EXCEPT ![r][c] = @ \/ Kind[c] = "timed_generator"]

\* component::start(): only generators do anything; generate() runs inline.
StartComponent(r, c) ==
    IF Kind[c] \in Generators
    THEN /\ genOn' = [genOn EXCEPT ![r][c] = TRUE]
         /\ GenerateEffect(r, c, ready)
    ELSE UNCHANGED <<ready, genOn, emitted, timer>>

\* Wrong: started_ of the generator is left alone.
StopComponentKeepsOn(r, c) ==
    /\ timer' = [timer EXCEPT ![r][c] = FALSE]
    /\ ready' = IF timer[r][c] THEN Append(ready, GenerateHandler(r, c)) ELSE ready
    /\ UNCHANGED <<genOn, emitted>>

\* component::stop(): the timed generator also cancels its wait.
StopComponent(r, c) ==
    /\ genOn' = [genOn EXCEPT ![r][c] = FALSE]
    /\ timer' = [timer EXCEPT ![r][c] = FALSE]
    /\ ready' = IF timer[r][c] THEN Append(ready, GenerateHandler(r, c)) ELSE ready
    /\ UNCHANGED emitted

\* process(): does a packet on this port make the component post a do_route?
Forwards(c, port) ==
    \/ Kind[c] = "retranslator" /\ port \in {0, 1}
    \/ Kind[c] = "calc"

\* The output ports a component names in the output it hands to do_route.
PortsOf(c) == IF Kind[c] = "calc" THEN <<0>> ELSE <<0, 1>>

Processes(r, dests) ==
    [i \in DOMAIN dests |->
        [op |-> "process", r |-> r, c |-> dests[i].dest, port |-> dests[i].port]]

\* Wrong: only the first output port is served.
LocalPostsFirstPort(r, c) == Processes(r, conf[r].local[c][0])
RemoteSendsFirstPort(r, c) == conf[r].remote[c][0]

\* do_route: what is posted for the local routes of every port of the output,
\* and how many packets go to clients.
LocalPosts(r, c) ==
    LET on(p) == Processes(r, conf[r].local[c][p])
    IN  IF PortsOf(c) = <<0>> THEN on(0) ELSE on(0) \o on(1)

RemoteSends(r, c) ==
    LET on(p) == conf[r].remote[c][p]
    IN  IF PortsOf(c) = <<0>> THEN on(0) ELSE on(0) + on(1)

-----------------------------------------------------------------------------
(* Posted handlers *)

Defined == fault = "none"
At(t, pc) == Defined /\ run[t].pc = pc
Free(t) == Defined /\ run[t] = Idle

Takes(t, op) ==
    /\ Free(t)
    /\ ready # <<>>
    /\ Head(ready).op = op

\* generator::generate, up to the test of started_.
RunGenerate(t) ==
    /\ Takes(t, "generate")
    /\ LET h == Head(ready) IN
        run' = [run EXCEPT ![t] =
                  IF genOn[h.r][h.c]
                  THEN [Idle EXCEPT !.pc = "generate", !.r = h.r, !.c = h.c]
                  ELSE Idle]
    /\ ready' = Tail(ready)
    /\ UNCHANGED <<ctl, routerVars, compVars, out, reply, fault, asked, heard,
                   histVars>>

\* The rest of generate.
Generate(t) ==
    /\ At(t, "generate")
    /\ GenerateEffect(run[t].r, run[t].c, ready)
    /\ run' = [run EXCEPT ![t] = Idle]
    /\ UNCHANGED <<ctl, routerVars, genOn, inCount, out, reply, fault, asked,
                   heard, commanded, restarted, begun, dropped, fed>>

\* component::do_process and the process() of its kind.
RunProcess(t) ==
    /\ Takes(t, "process")
    /\ LET h == Head(ready)
           posts == Forwards(h.c, h.port) /\ Alive(h.r)
       IN  /\ inCount' = [inCount EXCEPT ![h.r][h.c] = Plus(@, 1)]
           /\ ready' = IF posts THEN Append(Tail(ready), RouteHandler(h.r, h.c))
                                ELSE Tail(ready)
           /\ emitted' = [emitted EXCEPT ![h.r][h.c] = IF posts THEN Plus(@, 1) ELSE @]
    /\ UNCHANGED <<run, ctl, routerVars, genOn, timer, out, reply, fault, asked,
                   heard, commanded, restarted, begun, dropped, fed>>

\* router::do_route up to the test of started_: a stopped router drops the
\* packet.  The handler keeps the router alive while it runs.
RunRoute(t) ==
    /\ Takes(t, "route")
    /\ LET h == Head(ready) IN
        IF started[h.r]
        THEN /\ run' = [run EXCEPT ![t] =
                          [Idle EXCEPT !.pc = "route", !.r = h.r, !.c = h.c,
                                       !.own = {h.r}]]
             /\ UNCHANGED dropped
        ELSE /\ dropped' = [dropped EXCEPT ![h.r][h.c] = Plus(@, 1)]
             /\ UNCHANGED run
    /\ ready' = Tail(ready)
    /\ UNCHANGED <<ctl, routerVars, compVars, out, reply, fault, asked, heard,
                   commanded, restarted, begun, emitted, fed>>

\* The rest of do_route: every local and remote route of the output.
DoRoute(t) ==
    /\ At(t, "route")
    /\ LET r == run[t].r
           c == run[t].c
       IN  /\ ready' = ready \o LocalPosts(r, c)
           /\ out' = [out EXCEPT ![r] = Plus(@, RemoteSends(r, c))]
    /\ run' = [run EXCEPT ![t] = Idle]
    /\ UNCHANGED <<ctl, routerVars, compVars, reply, fault, asked, heard, histVars>>

\* The earliest completion of the read that follows a response: from here on
\* the next request may be taken.
RunRead(t) ==
    /\ Takes(t, "read")
    /\ LET k == Head(ready).k IN
        /\ ctl' = [ctl EXCEPT ![k] = "reading"]
        /\ reply' = [reply EXCEPT ![k] = {}]
    /\ ready' = Tail(ready)
    /\ UNCHANGED <<run, routerVars, compVars, out, fault, asked, heard, histVars>>

\* A wait of generate_timer_ is over: the reactor queues its handler.
TimerFires(r, c) ==
    /\ Defined
    /\ timer[r][c]
    /\ timer' = [timer EXCEPT ![r][c] = FALSE]
    /\ ready' = Append(ready, GenerateHandler(r, c))
    /\ UNCHANGED <<run, ctl, routerVars, genOn, inCount, out, reply, fault, asked,
                   heard, histVars>>

-----------------------------------------------------------------------------
(* Packets from other nodes: node::on_new_message *)

\* The packet has been read; router_ is read for in_bytes_.
HearMessage(t, k, c, port) ==
    /\ Free(t)
    /\ \A u \in Threads : run[u].k # k
    /\ heard < MaxMessages
    /\ heard' = heard + 1
    /\ run' = [run EXCEPT ![t] = [Idle EXCEPT !.pc = "bytes", !.k = k, !.r = cur,
                                             !.c = c, !.port = port]]
    /\ UNCHANGED <<ready, ctl, routerVars, compVars, out, reply, fault, asked,
                   histVars>>

\* in_bytes_ is increased through that pointer, router_ is read again.
CountBytes(t) ==
    /\ At(t, "bytes")
    /\ fault' = Follow(t, run[t].r)
    /\ run' = [run EXCEPT ![t].pc = "deliver", ![t].r = cur]
    /\ UNCHANGED <<ready, ctl, routerVars, compVars, out, reply, asked, heard,
                   histVars>>

\* router::route: a stopped router and an unknown name drop the packet.
Deliver(t) ==
    /\ At(t, "deliver")
    /\ LET f == run[t]
           taken == started[f.r] /\ f.c \in conf[f.r].comps
       IN  /\ fault' = IF started[f.r] THEN FollowIntoTable(t, f.r)
                                       ELSE Follow(t, f.r)
           /\ ready' = IF taken
                       THEN Append(ready, [op |-> "process", r |-> f.r, c |-> f.c,
                                           port |-> f.port])
                       ELSE ready
           /\ fed' = [fed EXCEPT ![f.r][f.c] = IF taken THEN Plus(@, 1) ELSE @]
    /\ run' = [run EXCEPT ![t] = Idle]
    /\ UNCHANGED <<ctl, routerVars, compVars, out, reply, asked, heard, commanded,
                   restarted, begun, emitted, dropped>>

-----------------------------------------------------------------------------
(* Requests of a terminal: node::process_deploy_request *)

\* Wrong: the next request is read while one is being served.
AcceptsPipelined(t, k, frame) ==
    /\ Free(t)
    /\ ctl' = [ctl EXCEPT ![k] = "serving"]
    /\ run' = [run EXCEPT ![t] = frame]
    /\ UNCHANGED <<ready, routerVars, compVars, out, reply, fault, heard,
                   restarted, begun, emitted, dropped, fed>>

Accepts(t, k, frame) ==
    /\ Free(t)
    /\ ctl[k] = "reading"
    /\ ctl' = [ctl EXCEPT ![k] = "serving"]
    /\ run' = [run EXCEPT ![t] = frame]
    /\ UNCHANGED <<ready, routerVars, compVars, out, reply, fault, heard,
                   restarted, begun, emitted, dropped, fed>>

\* Start and Stop: router_ is read, then router::start or stop runs on it.
AcceptCommand(t, k, on) ==
    /\ asked < MaxCommands
    /\ asked' = asked + 1
    /\ commanded' = on
    /\ Accepts(t, k, [Idle EXCEPT !.pc = "set", !.k = k, !.r = cur, !.on = on])

AcceptDeploy(t, k, new) ==
    /\ asked < MaxCommands
    /\ asked' = asked + 1
    /\ Accepts(t, k, [Idle EXCEPT !.pc = "prev", !.k = k, !.r = cur, !.conf = new])
    /\ UNCHANGED commanded

AcceptStatus(t, k) ==
    /\ Accepts(t, k, [Idle EXCEPT !.pc = "status", !.k = k, !.r = cur])
    /\ UNCHANGED <<asked, commanded>>

\* Wrong: the next header is never read.
AnswerForgets(t, queue) ==
    /\ run' = [run EXCEPT ![t] = Idle]
    /\ ctl' = [ctl EXCEPT ![run[t].k] = "queued"]
    /\ ready' = queue

\* The handler returns: the response is handed to the socket and do_read_header
\* is called.  Even if the next request is already there, the completion of that
\* read goes to the end of the queue.
Answer(t, queue) ==
    LET k == run[t].k IN
    /\ run' = [run EXCEPT ![t] = Idle]
    /\ ctl' = [ctl EXCEPT ![k] = "queued"]
    /\ ready' = Append(queue, [op |-> "read", k |-> k])

\* router::start and stop, first line, and the start of the loop.
SetStarted(t) ==
    /\ At(t, "set")
    /\ LET f == run[t] IN
        /\ fault' = FollowIntoTable(t, f.r)
        /\ started' = [started EXCEPT ![f.r] = f.on]
        /\ restarted' = [restarted EXCEPT ![f.r] = @ \/ (f.on /\ started[f.r])]
        /\ run' = [run EXCEPT ![t].pc = "sweep", ![t].todo = conf[f.r].comps]
    /\ UNCHANGED <<ready, ctl, cur, made, conf, compVars, out, reply, asked, heard,
                   commanded, begun, emitted, dropped, fed>>

\* One turn of the loop over components_.
SweepOne(t) ==
    /\ At(t, "sweep")
    /\ run[t].todo # {}
    /\ LET f == run[t]
           c == First(f.todo)
       IN  /\ fault' = FollowIntoTable(t, f.r)
           /\ IF f.on THEN StartComponent(f.r, c) ELSE StopComponent(f.r, c)
           /\ begun' = IF f.on THEN [begun EXCEPT ![f.r][c] = @ + 1] ELSE begun
           /\ run' = [run EXCEPT ![t].todo = @ \ {c}]
    /\ UNCHANGED <<ctl, routerVars, inCount, out, reply, asked, heard, commanded,
                   restarted, dropped, fed>>

\* Wrong: a plain Start goes on to old_router->stop() too.
SweepDoneAlwaysStops(t) ==
    /\ At(t, "sweep")
    /\ run[t].todo = {}
    /\ IF run[t].on
       THEN /\ run' = [run EXCEPT ![t].pc = "set", ![t].on = FALSE,
                                  ![t].r = run[t].old]
            /\ UNCHANGED <<ready, ctl>>
       ELSE Answer(t, ready)
    /\ UNCHANGED <<routerVars, compVars, out, reply, fault, asked, heard, histVars>>

\* The loop is over.  A deployment that started the new router goes on to
\* old_router->stop(); every other request is answered.
SweepDone(t) ==
    /\ At(t, "sweep")
    /\ run[t].todo = {}
    /\ IF run[t].on /\ run[t].old # None
       THEN /\ run' = [run EXCEPT ![t].pc = "set", ![t].on = FALSE,
                                  ![t].r = run[t].old]
            /\ UNCHANGED <<ready, ctl>>
       ELSE Answer(t, ready)
    /\ UNCHANGED <<routerVars, compVars, out, reply, fault, asked, heard, histVars>>

\* DeployConfig: router_previous_state is read through router_ ...
ReadPrevious(t) ==
    /\ At(t, "prev")
    /\ fault' = Follow(t, run[t].r)
    /\ run' = [run EXCEPT ![t].pc = "swap", ![t].on = started[run[t].r]]
    /\ UNCHANGED <<ready, ctl, routerVars, compVars, out, reply, asked, heard,
                   histVars>>

\* Wrong: no reference to the old router is kept.
ExchangeDropsOld(t) ==
    /\ At(t, "swap")
    /\ made < MaxCommands
    /\ made' = made + 1
    /\ cur' = made + 1
    /\ run' = [run EXCEPT ![t].pc = "fill", ![t].old = cur,
                          ![t].own = {made + 1}]
    /\ UNCHANGED <<ready, ctl, started, conf, compVars, out, reply, fault, asked,
                   heard, histVars>>

\* ... a new, still empty router takes its place ...
Exchange(t) ==
    /\ At(t, "swap")
    /\ made < MaxCommands     \* bound; every deployment was counted in asked
    /\ made' = made + 1
    /\ cur' = made + 1
    /\ run' = [run EXCEPT ![t].pc = "fill", ![t].old = cur,
                          ![t].own = {cur, made + 1}]
    /\ UNCHANGED <<ready, ctl, started, conf, compVars, out, reply, fault, asked,
                   heard, histVars>>

\* Wrong: router_previous_state is forgotten.
FillForgetsState(t) ==
    /\ At(t, "fill")
    /\ fault' = FollowIntoTable(t, cur)
    /\ conf' = [conf EXCEPT ![cur] = run[t].conf]
    /\ run' = [run EXCEPT ![t].pc = "set", ![t].conf = NoConfig, ![t].on = FALSE,
                          ![t].r = run[t].old]
    /\ UNCHANGED <<ready, ctl, cur, made, started, compVars, out, reply, asked,
                   heard, histVars>>

\* ... whatever router_ now points to is given the components and routes, the
\* listening port is opened, and that router is started if the previous one was.
Fill(t) ==
    /\ At(t, "fill")
    /\ fault' = FollowIntoTable(t, cur)
    /\ conf' = [conf EXCEPT ![cur] = run[t].conf]
    /\ run' = [run EXCEPT ![t].pc = "set", ![t].conf = NoConfig,
                          ![t].r = IF run[t].on THEN cur ELSE run[t].old]
    /\ UNCHANGED <<ready, ctl, cur, made, started, compVars, out, reply, asked,
                   heard, histVars>>

\* GetStatus: status_response() reports the input counter of a component in
\* both fields.
StatusOf(r, c) == [r |-> r, c |-> c, in |-> inCount[r][c], out |-> inCount[r][c]]

Status(t) ==
    /\ At(t, "status")
    /\ LET f == run[t] IN
        /\ fault' = FollowIntoTable(t, f.r)
        /\ reply' = [reply EXCEPT ![f.k] = {StatusOf(f.r, c) : c \in conf[f.r].comps}]
    /\ Answer(t, ready)
    /\ UNCHANGED <<routerVars, compVars, out, asked, heard, histVars>>

-----------------------------------------------------------------------------
\* The steps of a thread that has work; those waiting for the network are apart.
Works(t) ==
    \/ RunGenerate(t) \/ Generate(t) \/ RunProcess(t) \/ RunRoute(t) \/ DoRoute(t)
    \/ RunRead(t) \/ CountBytes(t) \/ Deliver(t)
    \/ SetStarted(t) \/ SweepOne(t) \/ SweepDone(t)
    \/ ReadPrevious(t) \/ Exchange(t) \/ Fill(t) \/ Status(t)

Accept(t) ==
    \/ \E k \in Peers, c \in Comps, port \in Ports : HearMessage(t, k, c, port)
    \/ \E k \in Controls, on \in BOOLEAN : AcceptCommand(t, k, on)
    \/ \E k \in Controls, new \in Configs : AcceptDeploy(t, k, new)
    \/ \E k \in Controls : AcceptStatus(t, k)

Timers == \E r \in Routers, c \in Comps : TimerFires(r, c)

Next ==
    \/ \E t \in Threads : Works(t) \/ Accept(t)
    \/ Timers

Spec == Init /\ [][Next]_vars

\* A thread in service_.run() keeps running handlers and a timer that was armed
\* expires.  Nothing makes a terminal or another node speak.
Fairness ==
    /\ \A t \in Threads : WF_vars(Works(t))
    /\ WF_vars(Timers)

FairSpec == Spec /\ Fairness

-----------------------------------------------------------------------------
(* Properties *)

\* No thread ever follows router_ into a router that was freed, and none
\* touches the component table of a router while another thread is in
\* deploy_from_config on it.  node.h exchanges router_ atomically but every
\* other access reads the shared_ptr plainly and holds no reference.
NoFault == fault = "none"

\* In the queue q, at most one completed read for every connection, and only for
\* connections that were told to read on.
ReadOnce(q, state) ==
    \A i \in DOMAIN q : q[i].op = "read" =>
        /\ state[q[i].k] = "queued"
        /\ \A j \in DOMAIN q : q[j].op = "read" /\ q[j].k = q[i].k => i = j

InRequest(t) == run[t].pc \in RequestSteps

\* A connection has one request in progress at a time, on one thread, and is
\* told to read on once for every request.  (connection::on_packet_read)
OneRequestEach ==
    /\ \A t \in Threads : InRequest(t) => ctl[run[t].k] = "serving"
    /\ \A t, u \in Threads :
        InRequest(t) /\ InRequest(u) /\ run[t].k = run[u].k => t = u
    /\ ReadOnce(ready, ctl)

\* The router a request works on is the one router_ points to, or one that the
\* handler itself holds.
PointersHeld ==
    \A t \in Threads :
        /\ run[t].pc \in {"status", "prev", "swap"} => run[t].r = cur
        /\ run[t].pc \in {"set", "sweep"} => run[t].r = cur \/ run[t].r \in run[t].own
        /\ run[t].pc \in {"fill", "set", "sweep"} =>
            run[t].old = None \/ run[t].old \in run[t].own

\* What keeps the requests of one terminal clear of each other and of the packets of
\* neighbours: one request at a time, which works on routers nobody can free.
RequestsSafe == OneRequestEach /\ PointersHeld

\* While a node serves one terminal, no step of a request follows a freed router or
\* meets another thread in deploy_from_config, whatever packets come meanwhile:
\* where the exchange of router_ goes wrong (NoFault), it is the packet of a
\* neighbour that does.  (node::process_deploy_request, on_new_message)
RequestsDefined ==
    [][\A t \in Threads : InRequest(t) /\ run'[t] # run[t] => fault' = "none"]_vars

Serving == \E k \in Controls : ctl[k] = "serving"

\* Whenever no request is being served, the router in use is started exactly if
\* the last Start or Stop said so, over any number of redeployments; each of its
\* generators agrees with it, and everything of the routers it replaced is
\* stopped.  (router::start and stop, process_deploy_request)
CommandedState ==
    ~Serving =>
        /\ started[cur] = commanded
        /\ \A r \in 0 .. made :
            /\ started[r] => r = cur
            /\ \A c \in conf[r].comps :
                Kind[c] \in Generators => genOn[r][c] = started[r]

\* With any number of control connections, whenever no request is being served
\* the router in use is started exactly if its generators are: router::start
\* "starts every component", router::stop "stops every component".
StartStopReachAll ==
    Defined /\ ~Serving => \A c \in conf[cur].comps :
                    Kind[c] \in Generators => genOn[cur][c] = started[cur]

\* A freed router stays freed: no component, handler or request brings back an
\* object whose last shared_ptr is gone.  (weak_ptr::lock in the components)
NoRevival == [][\A r \in 0 .. made : ~Alive(r) => ~Alive(r)']_vars

\* The threads inside generate() of a generator
Inside(r, c) == {t \in Threads : run[t].pc = "generate" /\ run[t].r = r /\ run[t].c = c}

\* How many times generate() will be entered for one generator: its posted
\* handlers, the threads inside it, its pending wait.
Chains(r, c) ==
    Cardinality({i \in DOMAIN ready : ready[i] = GenerateHandler(r, c)})
    + Cardinality(Inside(r, c)) + (IF timer[r][c] THEN 1 ELSE 0)

\* A generator that was not started while started runs one chain of generate()
\* calls, whatever the sequence of Start, Stop and Deploy: generate_next() is "the
\* transition to the next iteration of the generator".  Two chains double the rate
\* of the plain generator, and those of a timed one cancel each other's wait without
\* end.  (generator::generate_next, timed_generator::stop)
OneChain == \A r \in Routers, c \in Comps : ~restarted[r] => Chains(r, c) <= 1

\* A chain never forks: whatever is posted again, armed, cancelled and fired on
\* however many threads, a generator has no more chains than it was started times.
\* A wait that generate() or stop() cancels is one of them and becomes a handler;
\* the wait that takes its place is the chain that runs.
\* (generator::generate_next, timed_generator::generate_next, stop)
ChainsBounded == \A r \in Routers, c \in Comps : Chains(r, c) <= begun[r][c]

\* The do_route handlers of c that are posted or under way, and the packets that wait
\* for it
Routing(r, c) == {t \in Threads : run[t].pc = "route" /\ run[t].r = r /\ run[t].c = c}

PendingRoutes(r, c) ==
    Cardinality({i \in DOMAIN ready : ready[i] = RouteHandler(r, c)})
    + Cardinality(Routing(r, c))

Waiting(r, c) ==
    Cardinality({i \in DOMAIN ready : ready[i].op = "process" /\ ready[i].r = r
                                      /\ ready[i].c = c})

\* Packets of c that do_route has sent along its routes.
Routed(r, c) == emitted[r][c] - dropped[r][c] - PendingRoutes(r, c)

UsedPorts(c) == IF Kind[c] = "calc" THEN {0} ELSE OutPorts

\* The routes of s in the configuration k that end at c, and those that leave the node
LocalEnds(k, s, c) ==
    UNION {{<<p, i>> : i \in {j \in DOMAIN k.local[s][p] : k.local[s][p][j].dest = c}} :
             p \in UsedPorts(s)}
RemoteEnds(k, s) ==
    UNION {{<<p, i>> : i \in 1 .. k.remote[s][p]} : p \in UsedPorts(s)}

\* One element for every packet of every component and each of its ends: n[s] packets
\* of s, which go to E[s].
Copies(S, n, E) == UNION {{<<s, i, e>> : i \in 1 .. n[s], e \in E[s]} : s \in S}

Packets(r) == [s \in conf[r].comps |-> Routed(r, s)]
CopiesTo(r, c) ==
    Copies(conf[r].comps, Packets(r), [s \in conf[r].comps |-> LocalEnds(conf[r], s, c)])
CopiesOut(r) ==
    Copies(conf[r].comps, Packets(r), [s \in conf[r].comps |-> RemoteEnds(conf[r], s)])

\* No packet is lost, doubled or misrouted inside a node: what a component has
\* taken and what waits for it is what other nodes sent it plus one copy for
\* every local connection that ends at it of each packet routed at the other
\* end; and out_packets_ counts one for every remote connection.  do_route at a
\* stopped router is the only place where packets end.  (router::do_route, route)
FlowConserved ==
    Counting => \A r \in 0 .. made :
        /\ \A c \in conf[r].comps :
              /\ Routed(r, c) >= 0
              /\ inCount[r][c] + Waiting(r, c) = fed[r][c] + Cardinality(CopiesTo(r, c))
        /\ out[r] = Cardinality(CopiesOut(r))

\* A component that has handed nothing to do_route reports no sent packet.
\* deploy.proto calls the field the counter of sent packets.
StatusOutIsSent ==
    \A k \in Controls : \A s \in reply[k] : s.out <= emitted[s.r][s.c]

\* Every request is answered, and its connection gets to read the next one,
\* although plain generators keep the queue busy for ever.
RequestAnswered ==
    \A k \in Controls : ctl[k] = "serving" ~> ctl[k] = "reading"

\* A router that was replaced is freed in the end: stop() ends the generate()
\* chains, which have no end of their own and would keep posting do_route with a
\* reference to it, and packets in flight are dropped.
OldRouterFreed ==
    \A r \in Routers : (r < cur) ~> ~Alive(r)

\* Once a terminal has said Stop for good, no handler of any component is left
\* in the end: generators, packets between components and timers all run dry.
Quiet == (\A i \in DOMAIN ready : ready[i].op = "read")
         /\ \A r \in Routers, c \in Comps : ~timer[r][c]
StopDrains == <>[]~commanded => <>[]Quiet
=============================================================================
