----------------------------- MODULE DeployPlan -----------------------------
(***************************************************************************)
(* From the schemas to the nodes: the terminal reads the application and   *)
(* the deployment (parser/src/parser.h), sorts them by node                *)
(* (terminal/src/deployconfiguration.h), makes a message for every node    *)
(* (RemoteNode::async_deploy), and every node makes components and routes  *)
(* of the message it gets (node::deploy_from_packet, deploy_from_config).  *)
(*                                                                         *)
(* What each step writes is a sequence, because the next one lets the first*)
(* or the last of several entries win.  Ports, kinds and addresses are only*)
(* carried along: a connection is its place among those that were read, and*)
(* a node, whose address no other has, its name.                           *)
(***************************************************************************)
EXTENDS Integers, Sequences, FiniteSets, SequencesExt

CONSTANTS
    Comps,     \* names of components
    Bases,     \* names a deployment schema may give to nodes
    Cases,     \* pairs of an application and a deployment schema: tags in order
    None       \* the empty name

Names == [base : Bases, pair : BOOLEAN]
Plain(b) == [base |-> b, pair |-> FALSE]
Pair(b) == [base |-> b, pair |-> TRUE]     \* "pairnode." before the name

Connection == [tag : {"connection"}, source : Comps, dest : Comps]
AppTags == [tag : {"instance"}, comp : Comps] \cup Connection \cup [tag : {"other"}]
Tags == [tag : {"node"}, node : Bases, pair : BOOLEAN]
        \cup [tag : {"map"}, comp : Comps, node : Bases] \cup [tag : {"other"}]

Maps == [comp : Comps, node : Names]       \* what the deployment maps where

\* The elements of s that are in S, in their order: what is grouped under a key
Only(s, S) == FlattenSeq([i \in DOMAIN s |-> IF s[i] \in S THEN <<s[i]>> ELSE <<>>])

ASSUME DeployPlanAssumption ==
    /\ Cases \subseteq Seq(AppTags) \X Seq(Tags)
    /\ None \notin Names

VARIABLES
    app,       \* the connections that were read
    declared,  \* the components of map_components, those with a kind
    schema,    \* the deployment schema
    aborted,   \* the terminal has ended at an assertion
    nodes      \* what a node has made of its message, or None

vars == <<app, declared, schema, aborted, nodes>>

-----------------------------------------------------------------------------
(* parser: parse_app, parse_deploy *)

\* An unknown tag ends the parse; what came before it stays in the vectors, and
\* the terminal goes on with that.
Parsed(s) ==
    LET bad == {i \in DOMAIN s : s[i].tag = "other"} IN
    IF bad = {} THEN s ELSE SubSeq(s, 1, Min(bad) - 1)

Items(tag) == Only(Parsed(schema), {i \in Tags : i.tag = tag})

-----------------------------------------------------------------------------
(* deploy_configuration::parse_deploy *)

\* map_node[b]: the last description of a node counts.
Paired(b) ==
    LET its == Only(Items("node"), {i \in Tags : i.node = b})
    IN  its # <<>> /\ Last(its).pair

\* The keys of map_node
Known == UNION {{Plain(i.node)} \cup (IF i.pair THEN {Pair(i.node)} ELSE {}) :
                i \in Range(Items("node"))}

\* A mapping to a node that nobody described leaves an entry without an address in
\* map_node: RemoteNode::init throws at it and the terminal ends.
Loads == \A i \in Range(Items("map")) : Plain(i.node) \in Known

\* map(), for the reserve node first and then for the node itself.
Mapped ==
    LET both(i) == (IF Paired(i.node) THEN <<[comp |-> i.comp, node |-> Pair(i.node)]>>
                                         ELSE <<>>)
                   \o <<[comp |-> i.comp, node |-> Plain(i.node)]>>
        items == Items("map")
    IN  FlattenSeq([k \in DOMAIN items |-> both(items[k])])

\* Wrong: a mapping replaces the one before.
ComponentsOfLast(n) ==
    LET here == Only(Mapped, {m \in Maps : m.node = n})
    IN  IF here = <<>> THEN <<>> ELSE <<Last(here).comp>>

\* map_node_with_components
ComponentsOf(n) ==
    LET here == Only(Mapped, {m \in Maps : m.node = n})
    IN  [k \in DOMAIN here |-> here[k].comp]

\* Wrong: the first mapping of a component counts.
NodeOfFirst(c) ==
    LET its == Only(Mapped, {m \in Maps : m.comp = c})
    IN  IF its = <<>> THEN None ELSE Head(its).node

\* map_component_node: the last mapping counts; looking up a component that is not
\* mapped makes an empty entry, whose node has no name.
NodeOf(c) ==
    LET its == Only(Mapped, {m \in Maps : m.comp = c})
    IN  IF its = <<>> THEN None ELSE Last(its).node

-----------------------------------------------------------------------------
(* RemoteNode::async_deploy *)

\* map_component_with_connections
ConnectionsOf(c) == Only([k \in DOMAIN app |-> k], {k \in DOMAIN app : app[k].source = c})

\* Wrong: the current node is given for a destination elsewhere.
RemoteMapsHere(n, c) ==
    LET away == Only(ConnectionsOf(c), {k \in DOMAIN app : NodeOf(app[k].dest) # n})
    IN  [k \in DOMAIN away |-> [comp |-> app[away[k]].dest, node |-> n]]

\* Maps for the destinations of c on other nodes.  added_maps and added_nodes
\* leave out repetitions, of which the node would use the first anyway.
RemoteMaps(n, c) ==
    LET away == Only(ConnectionsOf(c), {k \in DOMAIN app : NodeOf(app[k].dest) # n})
    IN  [k \in DOMAIN away |-> [comp |-> app[away[k]].dest,
                                node |-> NodeOf(app[away[k]].dest)]]

Message(n) ==
    LET comps == ComponentsOf(n)
        maps(c) == <<[comp |-> c, node |-> n]>> \o RemoteMaps(n, c)
    IN  [instances   |-> comps,
         connections |-> FlattenSeq([k \in DOMAIN comps |-> ConnectionsOf(comps[k])]),
         maps        |-> FlattenSeq([k \in DOMAIN comps |-> maps(comps[k])])]

-----------------------------------------------------------------------------
(* node::deploy_from_config *)

\* comp_to_node: the first mapping counts.
Place(msg, c) ==
    LET its == {k \in DOMAIN msg.maps : msg.maps[k].comp = c}
    IN  IF its = {} THEN None ELSE msg.maps[Min(its)].node

\* The components made here
Created(n, msg) == {c \in Range(msg.instances) : Place(msg, c) = n}

Routes(n, msg) ==
    LET mine == Only(msg.connections, {k \in DOMAIN app : app[k].source \in Created(n, msg)})
        to(k) == Place(msg, app[k].dest)
        away == Only(mine, {k \in DOMAIN app : to(k) # n})
    IN  [local  |-> Only(mine, {k \in DOMAIN app : to(k) = n}),
         remote |-> [j \in DOMAIN away |-> [conn |-> away[j], to |-> to(away[j])]]]

\* Wrong: a route is made without an address.
DeployedAnyway(n, msg) ==
    LET r == Routes(n, msg)
    IN  [comps |-> Created(n, msg), local |-> r.local, remote |-> r.remote,
         ended |-> FALSE]

\* A destination without an address makes from_string throw, and nothing catches it
\* on the way out of the thread: the node ends.
Deployed(n, msg) ==
    LET r == Routes(n, msg)
    IN  IF \E j \in DOMAIN r.remote : r.remote[j].to = None
        THEN [comps |-> {}, local |-> <<>>, remote |-> <<>>, ended |-> TRUE]
        ELSE [comps |-> Created(n, msg), local |-> r.local, remote |-> r.remote,
              ended |-> FALSE]

-----------------------------------------------------------------------------
Init ==
    /\ \E case \in Cases :
        /\ app = Only(Parsed(case[1]), Connection)
        /\ declared = {c \in Comps : \E i \in Range(Parsed(case[1])) :
                                       i.tag = "instance" /\ i.comp = c}
        /\ schema = case[2]
    /\ aborted = FALSE
    /\ nodes = [n \in Names |-> None]

\* async_deploy for node n comes to its end: get_component_kind knows the kind of
\* every component mapped to n.
Sendable(n) == Loads /\ n \in Known /\ Range(ComponentsOf(n)) \subseteq declared

\* The messages reach the nodes in any order.
Deploy(n) ==
    /\ ~aborted /\ Sendable(n)
    /\ nodes[n] = None
    /\ nodes' = [nodes EXCEPT ![n] = Deployed(n, Message(n))]
    /\ UNCHANGED <<app, declared, schema, aborted>>

\* get_component_kind of the empty kind: the assertion at its end fails, and no
\* message follows.
Abort(n) ==
    /\ ~aborted /\ Loads /\ n \in Known /\ ~Sendable(n)
    /\ aborted' = TRUE
    /\ UNCHANGED <<app, declared, schema, nodes>>

Next == \E n \in Names : Deploy(n) \/ Abort(n)

Spec == Init /\ [][Next]_vars

-----------------------------------------------------------------------------
(* Properties *)

Here(n) == nodes[n] # None

\* Every node has what a message can give it.
TypeOK ==
    /\ app \in Seq(Connection) /\ declared \subseteq Comps /\ schema \in Seq(Tags)
    /\ aborted \in BOOLEAN
    /\ nodes \in [Names -> [comps : SUBSET Comps, local : Seq(Nat),
                            remote : Seq([conn : Nat, to : Names]),
                            ended : BOOLEAN] \cup {None}]

\* Whatever the schemas say, a local route leads to a component that was made:
\* the table has no entry that is a name only, whose null component the next
\* packet would call.  (components_[conn.dest] in deploy_from_config)
NoNullRoute ==
    \A n \in Names : Here(n) =>
        \A k \in Range(nodes[n].local) : app[k].dest \in nodes[n].comps

\* Whatever the schemas say, a remote route leads to a node that has the
\* component, once that node is deployed too: the two ends of a connection, planned
\* from different maps, agree.
RoutesArrive ==
    \A n \in Names : Here(n) =>
        \A r \in Range(nodes[n].remote) :
            Here(r.to) /\ ~nodes[r.to].ended => app[r.conn].dest \in nodes[r.to].comps

\* Schemas that declare every component, describe every node they name and map
\* every component once
WellFormed ==
    /\ declared = Comps
    /\ \A i \in DOMAIN schema : schema[i].tag # "other"
    /\ Loads
    /\ \A c \in Comps : \E i \in DOMAIN Items("map") :
        \A j \in DOMAIN Items("map") : Items("map")[j].comp = c <=> j = i

Home(c) == Plain((CHOOSE i \in Range(Items("map")) : i.comp = c).node)

Once(s, S) == Range(s) = S /\ Len(s) = Cardinality(S)

\* With such schemas the terminal gets through its messages and a node has exactly the components mapped to it and every
\* connection has exactly one route, at its source, of the right kind and to the
\* right node, whatever reserve nodes there are and in whatever order the schemas
\* list things.
AsDesigned ==
    WellFormed => ~aborted /\ \A b \in Bases : Here(Plain(b)) =>
        LET n == Plain(b)
            from == {k \in DOMAIN app : Home(app[k].source) = n}
            near == {k \in from : Home(app[k].dest) = n}
        IN  /\ nodes[n].comps = {c \in Comps : Home(c) = n}
            /\ Once(nodes[n].local, near)
            /\ Once(nodes[n].remote,
                    {[conn |-> k, to |-> Home(app[k].dest)] : k \in from \ near})
            /\ ~nodes[n].ended

\* No kind is unknown to get_component_kind: assert(false) at its end.
KindsKnown == ~aborted

\* A reserve node makes the components of its message: async_deploy "indicates
\* that the component belongs to the current node".
InstancesCreated ==
    \A n \in Names : Here(n) /\ ~nodes[n].ended => nodes[n].comps = Range(ComponentsOf(n))
=============================================================================
