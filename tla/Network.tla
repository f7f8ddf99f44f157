------------------------------ MODULE Network ------------------------------
(***************************************************************************)
(* Nodes that listen for each other and dial each other while terminals    *)
(* deploy them anew (protolink/src/server.h; deploy_from_config and        *)
(* process_deploy_request of node/src/node.h; protolink/src/client.h as    *)
(* far as it dials).                                                       *)
(*                                                                         *)
(* A deployment makes a router with one client for every node it has       *)
(* routes to, and opens the acceptor anew.  It runs on one thread of the   *)
(* node while handlers of accepted connections run on others, so listen()  *)
(* is cut where such a handler can come in between.                        *)
(*                                                                         *)
(* A node may die, and comes back with nothing deployed.  Every node has a *)
(* machine of its own: no port is taken by another node.                   *)
(* A client is the node, the deployment that made it and the node it       *)
(* dials.  What goes over a connection is the subject of Protolink.        *)
(***************************************************************************)
EXTENDS Integers, FiniteSets

CONSTANTS
    Nodes,
    Ports,
    Configs,      \* what a terminal may deploy: the port of every node, and from which
                  \* node to which there are routes
    MaxDeploys,   \* bound: deployments of one node
    MaxFaults,    \* bound: accept operations that fail on an open acceptor, and
                  \* deaths of nodes
    None

ASSUME NetworkAssumption ==
    /\ Configs \subseteq [port : [Nodes -> Ports], routes : SUBSET (Nodes \X Nodes)]
    /\ IsFiniteSet(Nodes)
    /\ MaxDeploys \in Nat /\ MaxFaults \in Nat
    /\ None \notin Ports \cup Configs

Gens == 1 .. MaxDeploys
Clients == [of : Nodes, gen : Gens, to : Nodes]

VARIABLES
    \* node
    gen,        \* deployments so far; the last one made router_
    conf,       \* what was deployed last, since the node came up
    step,       \* of a deployment, the step of server_.listen() that is next
    held,       \* routers that are still referred to, by their deployments
    started,    \* routers that are started, likewise; 0 is the first, empty one
    \* server
    port,       \* where the acceptor listens, or None
    pending,    \* accept operations that wait for a connection
    starting,   \* handlers of accepted connections that will accept the next one
    \* clients, and the connections that serve them
    cli,        \* "none", "dialling", "waiting" to dial again, "up", "reset" and not yet
                \* aware of it, "stuck" with a peer that is dead, "gone"
    dials,      \* the port a client dials
    srv,        \* "none", "backlog" of the acceptor, "accepted", "open"
    \* History
    caught,     \* accepted connections that had not been started when listen() closed
    failed,     \* accept operations that failed since listen()
    faults      \* accept operations that failed and deaths, over all nodes

nodeVars == <<gen, conf, step, held, started>>
serverVars == <<port, pending, starting>>
linkVars == <<cli, dials, srv>>
histVars == <<caught, failed, faults>>
vars == <<nodeVars, serverVars, linkVars, histVars>>

AcceptedAt(n) == {c \in Clients : c.to = n /\ srv[c] = "accepted"}

\* The accept loops of a node: an operation, the handler it waits for, or the handler
\* about to accept again
Loops(n) == pending[n] + Cardinality(AcceptedAt(n)) + starting[n]

TypeOK ==
    /\ gen \in [Nodes -> 0 .. MaxDeploys]
    /\ conf \in [Nodes -> Configs \cup {None}]
    /\ step \in [Nodes -> {"idle", "close", "open", "accept", "stop"}]
    /\ held \in [Nodes -> SUBSET Gens]
    /\ started \in [Nodes -> SUBSET (0 .. MaxDeploys)]
    /\ port \in [Nodes -> Ports \cup {None}]
    /\ pending \in [Nodes -> Nat] /\ starting \in [Nodes -> Nat]
    /\ cli \in [Clients -> {"none", "dialling", "waiting", "up", "reset", "stuck", "gone"}]
    /\ dials \in [Clients -> Ports \cup {None}]
    /\ srv \in [Clients -> {"none", "backlog", "accepted", "open"}]
    /\ caught \in [Nodes -> Nat] /\ failed \in [Nodes -> Nat]
    /\ faults \in 0 .. MaxFaults

Init ==
    /\ gen = [n \in Nodes |-> 0] /\ conf = [n \in Nodes |-> None]
    /\ step = [n \in Nodes |-> "idle"] /\ held = [n \in Nodes |-> {}]
    /\ started = [n \in Nodes |-> {}]
    /\ port = [n \in Nodes |-> None]
    /\ pending = [n \in Nodes |-> 0] /\ starting = [n \in Nodes |-> 0]
    /\ cli = [c \in Clients |-> "none"] /\ dials = [c \in Clients |-> None]
    /\ srv = [c \in Clients |-> "none"]
    /\ caught = [n \in Nodes |-> 0] /\ failed = [n \in Nodes |-> 0]
    /\ faults = 0

-----------------------------------------------------------------------------
(* Deployment *)

Held(c) == c.gen \in held[c.of]
Advances(n, from, to) == step[n] = from /\ step' = [step EXCEPT ![n] = to]

\* A new router takes the place of router_, and its clients dial (async_connect).
\* One deployment at a time: a node has one terminal.
Deploy(n, k) ==
    /\ gen[n] < MaxDeploys
    /\ Advances(n, "idle", "close")
    /\ gen' = [gen EXCEPT ![n] = @ + 1]
    /\ conf' = [conf EXCEPT ![n] = k]
    /\ held' = [held EXCEPT ![n] = @ \cup {gen'[n]}]
    /\ LET made == {c \in Clients : c.of = n /\ c.gen = gen'[n] /\ <<n, c.to>> \in k.routes}
       IN  /\ cli' = [c \in Clients |-> IF c \in made THEN "dialling" ELSE cli[c]]
           /\ dials' = [c \in Clients |-> IF c \in made THEN k.port[c.to] ELSE dials[c]]
    /\ UNCHANGED <<started, serverVars, srv, histVars>>

\* Connections in the backlog are reset; a client that was destroyed does not care.
Resets(n) ==
    LET lost == {c \in Clients : c.to = n /\ srv[c] = "backlog"}
    IN  /\ srv' = [c \in Clients |-> IF c \in lost THEN "none" ELSE srv[c]]
        /\ cli' = [c \in Clients |-> IF c \in lost /\ cli[c] = "up" THEN "reset" ELSE cli[c]]

\* Wrong: an accept that was aborted goes on accepting.
CloseGoesOn(n) ==
    /\ Advances(n, "close", "open")
    /\ port' = [port EXCEPT ![n] = None]
    /\ pending' = [pending EXCEPT ![n] = 0]
    /\ starting' = [starting EXCEPT ![n] = @ + pending[n]]
    /\ Resets(n)
    /\ caught' = [caught EXCEPT ![n] = @ + starting[n] + Cardinality(AcceptedAt(n))]
    /\ failed' = [failed EXCEPT ![n] = 0]
    /\ UNCHANGED <<gen, conf, held, started, dials, faults>>

\* listen(): acceptor_.close() if it was open.  Waiting accepts are aborted, and the
\* handler returns at that error.  A connection that was accepted before stays.
Close(n) ==
    /\ Advances(n, "close", "open")
    /\ port' = [port EXCEPT ![n] = None]
    /\ pending' = [pending EXCEPT ![n] = 0]
    /\ Resets(n)
    /\ caught' = [caught EXCEPT ![n] = @ + starting[n] + Cardinality(AcceptedAt(n))]
    /\ failed' = [failed EXCEPT ![n] = 0]
    /\ UNCHANGED <<gen, conf, held, started, starting, dials, faults>>

\* open(), bind() and listen() of the acceptor
Open(n) ==
    /\ Advances(n, "open", "accept")
    /\ port' = [port EXCEPT ![n] = conf[n].port[n]]
    /\ UNCHANGED <<gen, conf, held, started, pending, starting, linkVars, histVars>>

\* The do_accept_connection() of listen()
Accept(n) ==
    /\ Advances(n, "accept", "stop")
    /\ pending' = [pending EXCEPT ![n] = @ + 1]
    /\ UNCHANGED <<gen, conf, held, started, port, starting, linkVars, histVars>>

\* The new router is started if the old one was, old_router->stop(), and the response
Stop(n) ==
    /\ Advances(n, "stop", "idle")
    /\ started' = [started EXCEPT ![n] = IF @ = {} THEN {} ELSE {gen[n]}]
    /\ UNCHANGED <<gen, conf, held, serverVars, linkVars, histVars>>

\* A terminal's Start or Stop: router_->start(), stop().
Command(n, on) ==
    /\ step[n] = "idle"
    /\ started' = [started EXCEPT ![n] = IF on THEN {gen[n]} ELSE {}]
    /\ UNCHANGED <<gen, conf, step, held, serverVars, linkVars, histVars>>

\* Wrong: the clients of a router that goes are left connected.
FreeLeaves(n, g) ==
    /\ g \in held[n] /\ g # gen[n]
    /\ step[n] = "idle" \/ g # gen[n] - 1
    /\ held' = [held EXCEPT ![n] = @ \ {g}]
    /\ UNCHANGED <<gen, conf, step, started, serverVars, linkVars, histVars>>

\* The last reference to a replaced router goes, that of the deployment or of a posted
\* do_route, and with it its clients and their sockets; those that dial or wait are
\* held by that handler.
Free(n, g) ==
    /\ g \in held[n] /\ g # gen[n]
    /\ step[n] = "idle" \/ g # gen[n] - 1
    /\ held' = [held EXCEPT ![n] = @ \ {g}]
    /\ cli' = [c \in Clients |-> IF c.of = n /\ c.gen = g /\ cli[c] \in {"up", "reset", "stuck"}
                                 THEN "gone" ELSE cli[c]]
    /\ UNCHANGED <<gen, conf, step, started, serverVars, dials, srv, histVars>>

-----------------------------------------------------------------------------
(* A client *)

\* on_connect without an error: nobody waits for anything, so a client whose router
\* is gone goes too, after the connection was made.
Connects(c) ==
    /\ cli[c] = "dialling" /\ port[c.to] = dials[c]
    /\ cli' = [cli EXCEPT ![c] = IF Held(c) THEN "up" ELSE "gone"]
    /\ srv' = [srv EXCEPT ![c] = "backlog"]
    /\ UNCHANGED <<nodeVars, serverVars, dials, histVars>>

\* on_connect with an error arms the timer, whoever still wants the client.
Refused(c) ==
    /\ cli[c] = "dialling" /\ port[c.to] # dials[c]
    /\ cli' = [cli EXCEPT ![c] = "waiting"]
    /\ UNCHANGED <<nodeVars, serverVars, dials, srv, histVars>>

Redials(c) ==
    /\ cli[c] = "waiting"
    /\ cli' = [cli EXCEPT ![c] = "dialling"]
    /\ UNCHANGED <<nodeVars, serverVars, dials, srv, histVars>>

\* Wrong: a write that fails is not looked at.
SendsBlindly(c) ==
    /\ cli[c] = "reset" /\ Held(c) /\ c.gen \in started[c.of]
    /\ UNCHANGED vars

\* A router that is started sends a packet through the client: the write fails with
\* connection_reset, the packet is lost and the client dials again; nothing but a
\* packet makes it.  (do_route, on_packet_sent)
Sends(c) ==
    /\ cli[c] = "reset" /\ Held(c) /\ c.gen \in started[c.of]
    /\ cli' = [cli EXCEPT ![c] = "dialling"]
    /\ UNCHANGED <<nodeVars, serverVars, dials, srv, histVars>>

-----------------------------------------------------------------------------
(* The server *)

\* An accept operation completes: its handler is queued.
Accepted(c) ==
    /\ srv[c] = "backlog" /\ pending[c.to] > 0
    /\ srv' = [srv EXCEPT ![c] = "accepted"]
    /\ pending' = [pending EXCEPT ![c.to] = @ - 1]
    /\ UNCHANGED <<nodeVars, port, starting, cli, dials, histVars>>

\* An accept operation fails, for want of descriptors say: "TODO: handle error".
AcceptFails(n) ==
    /\ pending[n] > 0 /\ faults < MaxFaults
    /\ pending' = [pending EXCEPT ![n] = @ - 1]
    /\ faults' = faults + 1
    /\ failed' = [failed EXCEPT ![n] = @ + 1]
    /\ UNCHANGED <<nodeVars, port, starting, linkVars, caught>>

\* Wrong: the server accepts once.
OnAcceptedOnce(c) ==
    /\ srv[c] = "accepted"
    /\ srv' = [srv EXCEPT ![c] = "open"]
    /\ UNCHANGED <<nodeVars, serverVars, cli, dials, histVars>>

\* on_connection_accepted: the connection is started ...
OnAccepted(c) ==
    /\ srv[c] = "accepted"
    /\ srv' = [srv EXCEPT ![c] = "open"]
    /\ starting' = [starting EXCEPT ![c.to] = @ + 1]
    /\ UNCHANGED <<nodeVars, port, pending, cli, dials, histVars>>

\* Wrong: a handler that was aborted goes on to the next one too.
AcceptsAfterError(n) ==
    /\ starting' = [starting EXCEPT ![n] = @ - 1]
    /\ pending' = IF port[n] = None THEN pending ELSE [pending EXCEPT ![n] = @ + 1]
    /\ UNCHANGED <<nodeVars, port, linkVars, histVars>>

\* ... and the next one is accepted: on an acceptor that listen() has just closed, an
\* error that ends this loop.
AcceptsNext(n) ==
    /\ starting[n] > 0
    /\ starting' = [starting EXCEPT ![n] = @ - 1]
    /\ pending' = IF port[n] = None THEN pending ELSE [pending EXCEPT ![n] = @ + 1]
    /\ UNCHANGED <<nodeVars, port, linkVars, histVars>>

\* The connection reads the end of the stream and is destroyed.
ReadsEnd(c) ==
    /\ srv[c] = "open" /\ cli[c] = "gone"
    /\ srv' = [srv EXCEPT ![c] = "none"]
    /\ UNCHANGED <<nodeVars, serverVars, cli, dials, histVars>>

\* A node dies.  Its clients are closed; those of others are reset if their connection
\* was in the backlog or held something unread, and get the end of the stream if not:
\* their next write succeeds and the ones after it fail with a broken pipe, at which
\* a client does not dial again.
Dies(n) ==
    /\ faults < MaxFaults /\ faults' = faults + 1
    /\ conf[n] # None
    /\ conf' = [conf EXCEPT ![n] = None] /\ step' = [step EXCEPT ![n] = "idle"]
    /\ held' = [held EXCEPT ![n] = {}] /\ started' = [started EXCEPT ![n] = {}]
    /\ port' = [port EXCEPT ![n] = None]
    /\ pending' = [pending EXCEPT ![n] = 0] /\ starting' = [starting EXCEPT ![n] = 0]
    /\ srv' = [c \in Clients |-> IF c.to = n THEN "none" ELSE srv[c]]
    /\ LET mine == {c \in Clients : c.of = n /\ cli[c] # "none"}
           theirs == {c \in Clients : c.to = n /\ cli[c] = "up"} \ mine
       IN  \E R \in SUBSET theirs :
            /\ {c \in theirs : srv[c] # "open"} \subseteq R
            /\ cli' = [c \in Clients |-> CASE c \in mine -> "gone"
                                           [] c \in R -> "reset"
                                           [] c \in theirs \ R -> "stuck"
                                           [] OTHER -> cli[c]]
    /\ caught' = [caught EXCEPT ![n] = 0] /\ failed' = [failed EXCEPT ![n] = 0]
    /\ UNCHANGED <<gen, dials>>

-----------------------------------------------------------------------------
DeployStep(n) == Close(n) \/ Open(n) \/ Accept(n) \/ Stop(n)
Dials(c) == Connects(c) \/ Refused(c) \/ Redials(c)

Next ==
    \/ \E n \in Nodes :
        \/ \E k \in Configs : Deploy(n, k)
        \/ \E on \in BOOLEAN : Command(n, on)
        \/ DeployStep(n) \/ AcceptsNext(n) \/ AcceptFails(n) \/ Dies(n)
        \/ \E g \in Gens : Free(n, g)
    \/ \E c \in Clients : Dials(c) \/ Sends(c) \/ Accepted(c) \/ OnAccepted(c) \/ ReadsEnd(c)

Spec == Init /\ [][Next]_vars

\* Handlers and kernels go on, timers expire and replaced routers are freed.  Nobody
\* makes a terminal speak, a component send, an accept fail, or a node die.
Fairness ==
    /\ \A n \in Nodes :
        /\ WF_vars(DeployStep(n)) /\ WF_vars(AcceptsNext(n))
        /\ \A g \in Gens : WF_vars(Free(n, g))
    /\ \A c \in Clients :
        /\ WF_vars(Dials(c)) /\ WF_vars(ReadsEnd(c))
        /\ WF_vars(Accepted(c)) /\ WF_vars(OnAccepted(c))

FairSpec == Spec /\ Fairness

-----------------------------------------------------------------------------
(* Properties *)

\* A node that was deployed goes on accepting unless an accept failed: whatever a
\* handler finds while listen() closes and opens the acceptor under it, one loop is
\* left.  (server::listen, on_connection_accepted)
NeverDeaf ==
    \A n \in Nodes :
        conf[n] # None /\ step[n] \in {"idle", "stop"} /\ failed[n] = 0 => Loops(n) > 0

\* Deployments do not pile up accept loops: beyond the one, there are at most as
\* many as connections were caught between their accept and their start by a
\* listen().
LoopsBounded == \A n \in Nodes : Loops(n) <= 1 + caught[n]

Current(n, m) == [of |-> n, gen |-> gen[n], to |-> m]

Agreed(n, m) ==
    /\ conf[n] # None /\ conf[n] = conf[m] /\ <<n, m>> \in conf[n].routes
    /\ failed[m] = 0 /\ cli[Current(n, m)] # "stuck"

\* If it stays started, the router of c sends something through it in the end.
UsesRoute(c) == WF_vars(Sends(c))

\* Nodes that are left with the same configuration meet in the end, in whatever order
\* they were deployed, started and stopped, whatever their ports were before and whoever
\* died meanwhile: the client of a route is connected and served, unless its peer died
\* after this client had reached it.  This takes a router that is left started and has
\* something to send along the route: a client that was reset does not dial before.
PeersMeet ==
    \A n, m \in Nodes :
        /\ <>[](Agreed(n, m) /\ gen[n] \in started[n])
        /\ \A g \in Gens : UsesRoute([of |-> n, gen |-> g, to |-> m])
        => <>[](conf[n] # None /\ cli[Current(n, m)] = "up"
                               /\ srv[Current(n, m)] = "open")

Replaced(c) == cli[c] # "none" /\ c.gen < gen[c.of]
Wanted(c) == port[c.to] = dials[c]

\* The clients of a replaced router go, and their connections with them, unless they
\* dial where nobody listens any more: node.h never tells them to shut down.
ReplacedClientsGo ==
    \A c \in Clients :
        <>[](Replaced(c) /\ (cli[c] \in {"dialling", "waiting"} => Wanted(c)))
            => <>[](cli[c] = "gone" /\ srv[c] \in {"none", "backlog"})
=============================================================================
