---------------------------- MODULE NetworkProofs ----------------------------
(***************************************************************************)
(* Proof that deployed nodes go on accepting, and with how many loops, for *)
(* any nodes, ports, configurations and bounds.                            *)
(***************************************************************************)
EXTENDS Network, FiniteSetTheorems, TLAPS

USE NetworkAssumption DEF NetworkAssumption

\* Clients of deployments to come do not exist.
Fresh == \A c \in Clients : c.gen > gen[c.of] => cli[c] = "none"

\* A connection has a client that is connected, or was until it was destroyed.
Linked == \A c \in Clients : srv[c] # "none" => cli[c] \in {"up", "gone"}

\* Only a deployment closes the acceptor, and it knows what it deploys.
Prepared(n) ==
    /\ step[n] # "idle" => conf[n] # None
    /\ port[n] = None => step[n] \in {"close", "open"} \/ conf[n] = None

\* Between its close and its accept a deployment has taken one loop away.
Counted(n) ==
    Loops(n) <= caught[n] + (IF step[n] \in {"open", "accept"} THEN 0 ELSE 1)

Listens(n) ==
    conf[n] # None /\ step[n] \in {"idle", "stop"} /\ failed[n] = 0 => Loops(n) > 0

NodeInv(n) == Prepared(n) /\ Counted(n) /\ Listens(n)

NetInv == TypeOK /\ Fresh /\ Linked /\ \A n \in Nodes : NodeInv(n)

-----------------------------------------------------------------------------
(* Loops are counted in finite sets *)

LEMMA ClientsFinite == IsFiniteSet(Clients)
<1> DEFINE P == (Nodes \X Gens) \X Nodes
           f == [c \in Clients |-> << <<c.of, c.gen>>, c.to >>]
<1>1. IsFiniteSet(Gens)
  BY FS_Interval DEF Gens
<1>2. IsFiniteSet(P)
  BY <1>1, FS_Product
<1>3. f \in [Clients -> P]
  BY DEF Clients
<1>4. ASSUME NEW c \in Clients, NEW d \in Clients, f[c] = f[d] PROVE c = d
  <2>1. c.of = d.of /\ c.gen = d.gen /\ c.to = d.to
    BY <1>4
  <2> QED BY <2>1 DEF Clients
<1>5. f \in Injection(Clients, P)
  BY <1>3, <1>4 DEF Injection, IsInjective
<1> QED BY <1>2, <1>5, FS_Injection

LEMMA LoopsType ==
  ASSUME TypeOK, NEW n \in Nodes
  PROVE  /\ IsFiniteSet(AcceptedAt(n)) /\ Cardinality(AcceptedAt(n)) \in Nat
         /\ pending[n] \in Nat /\ starting[n] \in Nat /\ caught[n] \in Nat
         /\ Loops(n) \in Nat
<1>1. AcceptedAt(n) \in SUBSET Clients
  BY DEF AcceptedAt
<1>2. IsFiniteSet(AcceptedAt(n))
  BY <1>1, ClientsFinite, FS_Subset
<1>3. Cardinality(AcceptedAt(n)) \in Nat
  BY <1>2, FS_CardinalityType
<1> QED BY <1>2, <1>3 DEF TypeOK, Loops

\* A node of which nothing changes that counts
LEMMA NodeKept ==
  ASSUME NetInv, NEW n \in Nodes, AcceptedAt(n)' = AcceptedAt(n),
         pending'[n] = pending[n], starting'[n] = starting[n], step'[n] = step[n],
         conf'[n] = conf[n], port'[n] = port[n], caught'[n] = caught[n],
         failed'[n] = failed[n]
  PROVE  NodeInv(n)'
<1>1. Loops(n)' = Loops(n)
  BY DEF Loops
<1> QED BY <1>1 DEF NetInv, NodeInv, Prepared, Counted, Listens

-----------------------------------------------------------------------------
(* The steps of a deployment *)

LEMMA DeployKeeps ==
  ASSUME NetInv, NEW n \in Nodes, NEW k \in Configs, Deploy(n, k)
  PROVE  NetInv'
<1> DEFINE g == gen[n] + 1
           made == {c \in Clients : c.of = n /\ c.gen = g /\ <<n, c.to>> \in k.routes}
<1>1. /\ gen[n] < MaxDeploys /\ gen' = [gen EXCEPT ![n] = g] /\ g \in Gens
      /\ step[n] = "idle" /\ step' = [step EXCEPT ![n] = "close"]
      /\ conf' = [conf EXCEPT ![n] = k] /\ k # None
      /\ held' = [held EXCEPT ![n] = @ \cup {g}]
      /\ cli' = [c \in Clients |-> IF c \in made THEN "dialling" ELSE cli[c]]
      /\ dials' = [c \in Clients |-> IF c \in made THEN k.port[c.to] ELSE dials[c]]
      /\ UNCHANGED <<started, port, pending, starting, srv, caught, failed, faults>>
  <2>1. gen' = [gen EXCEPT ![n] = g] /\ gen[n] < MaxDeploys
    BY DEF Deploy
  <2>2. gen'[n] = g /\ g \in Gens
    BY <2>1 DEF NetInv, TypeOK, Gens
  <2>3. /\ step[n] = "idle" /\ step' = [step EXCEPT ![n] = "close"]
        /\ conf' = [conf EXCEPT ![n] = k] /\ k # None
        /\ UNCHANGED <<started, port, pending, starting, srv, caught, failed, faults>>
    BY DEF Deploy, Advances, serverVars, histVars
  <2>4. held' = [held EXCEPT ![n] = @ \cup {g}]
    BY <2>2 DEF Deploy
  <2>5. /\ cli' = [c \in Clients |-> IF c \in made THEN "dialling" ELSE cli[c]]
        /\ dials' = [c \in Clients |-> IF c \in made THEN k.port[c.to] ELSE dials[c]]
    BY <2>2 DEF Deploy
  <2> QED BY <2>1, <2>2, <2>3, <2>4, <2>5
<1>2. \A c \in Clients : k.port[c.to] \in Ports
  BY DEF Clients
<1>3. TypeOK'
  BY <1>1, <1>2 DEF NetInv, TypeOK, Gens
<1>4. Fresh'
  BY <1>1 DEF NetInv, Fresh, TypeOK, Clients, Gens
<1>5. \A c \in made : cli[c] = "none"
  <2>1. g > gen[n]
    BY DEF NetInv, TypeOK
  <2> QED BY <2>1 DEF NetInv, Fresh
<1>6. Linked'
  BY <1>1, <1>5 DEF NetInv, Linked
<1>7. ASSUME NEW m \in Nodes PROVE NodeInv(m)'
  <2>1. AcceptedAt(m)' = AcceptedAt(m)
    BY <1>1 DEF AcceptedAt
  <2>2. CASE m # n
    BY <1>1, <2>1, <2>2, NodeKept DEF NetInv, TypeOK
  <2>3. CASE m = n
    <3>1. step'[n] = "close" /\ conf'[n] = k
      BY <1>1 DEF NetInv, TypeOK
    <3>2. Loops(n)' = Loops(n)
      BY <1>1, <2>1, <2>3 DEF Loops
    <3> QED BY <1>1, <2>3, <3>1, <3>2 DEF NetInv, NodeInv, Prepared, Counted, Listens
  <2> QED BY <2>2, <2>3
<1> QED BY <1>3, <1>4, <1>6, <1>7 DEF NetInv

LEMMA CloseKeeps ==
  ASSUME NetInv, NEW n \in Nodes, Close(n)
  PROVE  NetInv'
<1> DEFINE lost == {c \in Clients : c.to = n /\ srv[c] = "backlog"}
<1>1. /\ step[n] = "close" /\ step' = [step EXCEPT ![n] = "open"]
      /\ port' = [port EXCEPT ![n] = None]
      /\ pending' = [pending EXCEPT ![n] = 0]
      /\ srv' = [c \in Clients |-> IF c \in lost THEN "none" ELSE srv[c]]
      /\ cli' = [c \in Clients |-> IF c \in lost /\ cli[c] = "up" THEN "reset" ELSE cli[c]]
      /\ caught' = [caught EXCEPT ![n] = @ + starting[n] + Cardinality(AcceptedAt(n))]
      /\ failed' = [failed EXCEPT ![n] = 0]
      /\ UNCHANGED <<gen, conf, held, started, starting, dials, faults>>
  BY DEF Close, Advances, Resets
<1>2. \A m \in Nodes : AcceptedAt(m)' = AcceptedAt(m)
  BY <1>1 DEF AcceptedAt, NetInv, TypeOK
<1>3. caught'[n] = caught[n] + starting[n] + Cardinality(AcceptedAt(n))
  BY <1>1 DEF NetInv, TypeOK
<1>4. TypeOK'
  <2>1. caught[n] + starting[n] + Cardinality(AcceptedAt(n)) \in Nat
    BY LoopsType DEF NetInv
  <2> HIDE DEF lost
  <2> QED BY <1>1, <2>1 DEF NetInv, TypeOK
<1>5. Fresh'
  BY <1>1 DEF NetInv, Fresh
<1>6. Linked'
  BY <1>1 DEF NetInv, Linked, TypeOK
<1>7. ASSUME NEW m \in Nodes PROVE NodeInv(m)'
  <2>1. CASE m # n
    BY <1>1, <1>2, <2>1, NodeKept DEF NetInv, TypeOK
  <2>2. CASE m = n
    <3>1. /\ step'[n] = "open" /\ pending'[n] = 0 /\ starting'[n] = starting[n]
          /\ conf'[n] = conf[n]
      BY <1>1 DEF NetInv, TypeOK
    <3>2. Loops(n)' = starting[n] + Cardinality(AcceptedAt(n))
      BY <1>2, <3>1, LoopsType DEF Loops, NetInv
    <3>3. Loops(n)' <= caught'[n]
      BY <1>3, <3>2, LoopsType DEF NetInv
    <3>4. Counted(n)'
      BY <1>3, <3>1, <3>3, LoopsType DEF Counted, NetInv
    <3> QED BY <1>1, <2>2, <3>1, <3>4 DEF NetInv, NodeInv, Prepared, Listens
  <2> QED BY <2>1, <2>2
<1> QED BY <1>4, <1>5, <1>6, <1>7 DEF NetInv

LEMMA OpenKeeps ==
  ASSUME NetInv, NEW n \in Nodes, Open(n)
  PROVE  NetInv'
<1>1. /\ step[n] = "open" /\ step' = [step EXCEPT ![n] = "accept"]
      /\ port' = [port EXCEPT ![n] = conf[n].port[n]]
      /\ UNCHANGED <<gen, conf, held, started, pending, starting, linkVars, histVars>>
  BY DEF Open, Advances
<1>2. conf[n] \in Configs /\ conf[n].port[n] \in Ports
  <2>1. conf[n] \in Configs
    BY <1>1 DEF NetInv, NodeInv, Prepared, TypeOK
  <2> QED BY <2>1
<1>3. TypeOK'
  BY <1>1, <1>2 DEF NetInv, TypeOK, linkVars, histVars
<1>4. Fresh' /\ Linked'
  BY <1>1 DEF NetInv, Fresh, Linked, linkVars
<1>5. ASSUME NEW m \in Nodes PROVE NodeInv(m)'
  <2>1. AcceptedAt(m)' = AcceptedAt(m)
    BY <1>1 DEF AcceptedAt, linkVars
  <2>2. CASE m # n
    BY <1>1, <2>1, <2>2, NodeKept DEF NetInv, TypeOK, histVars
  <2>3. CASE m = n
    <3>1. step'[n] = "accept" /\ port'[n] # None
      BY <1>1, <1>2 DEF NetInv, TypeOK
    <3>2. Loops(n)' = Loops(n) /\ caught' = caught
      BY <1>1, <2>1, <2>3 DEF Loops, histVars
    <3>3. conf[n] # None
      BY <1>2
    <3> QED BY <1>1, <2>3, <3>1, <3>2, <3>3 DEF NetInv, NodeInv, Prepared, Counted, Listens
  <2> QED BY <2>2, <2>3
<1> QED BY <1>3, <1>4, <1>5 DEF NetInv

LEMMA AcceptKeeps ==
  ASSUME NetInv, NEW n \in Nodes, Accept(n)
  PROVE  NetInv'
<1>1. /\ step[n] = "accept" /\ step' = [step EXCEPT ![n] = "stop"]
      /\ pending' = [pending EXCEPT ![n] = @ + 1]
      /\ UNCHANGED <<gen, conf, held, started, port, starting, linkVars, histVars>>
  BY DEF Accept, Advances
<1>2. TypeOK'
  BY <1>1 DEF NetInv, TypeOK, linkVars, histVars
<1>3. Fresh' /\ Linked'
  BY <1>1 DEF NetInv, Fresh, Linked, linkVars
<1>4. ASSUME NEW m \in Nodes PROVE NodeInv(m)'
  <2>1. AcceptedAt(m)' = AcceptedAt(m)
    BY <1>1 DEF AcceptedAt, linkVars
  <2>2. CASE m # n
    BY <1>1, <2>1, <2>2, NodeKept DEF NetInv, TypeOK, histVars
  <2>3. CASE m = n
    <3>1. step'[n] = "stop" /\ pending'[n] = pending[n] + 1 /\ caught' = caught
      BY <1>1 DEF NetInv, TypeOK, histVars
    <3>2. Loops(n)' = Loops(n) + 1
      BY <1>1, <2>1, <2>3, <3>1, LoopsType DEF Loops, NetInv
    <3> QED BY <1>1, <2>3, <3>1, <3>2, LoopsType
            DEF NetInv, NodeInv, Prepared, Counted, Listens
  <2> QED BY <2>2, <2>3
<1> QED BY <1>2, <1>3, <1>4 DEF NetInv

LEMMA StopKeeps ==
  ASSUME NetInv, NEW n \in Nodes, Stop(n)
  PROVE  NetInv'
<1>1. /\ step[n] = "stop" /\ step' = [step EXCEPT ![n] = "idle"]
      /\ UNCHANGED <<gen, conf, held, serverVars, linkVars, histVars>>
  BY DEF Stop, Advances
<1>2. started' \in [Nodes -> SUBSET (0 .. MaxDeploys)]
  BY DEF Stop, NetInv, TypeOK
<1>3. TypeOK'
  BY <1>1, <1>2 DEF NetInv, TypeOK, serverVars, linkVars, histVars
<1>4. Fresh' /\ Linked'
  BY <1>1 DEF NetInv, Fresh, Linked, linkVars
<1>5. ASSUME NEW m \in Nodes PROVE NodeInv(m)'
  <2>1. AcceptedAt(m)' = AcceptedAt(m)
    BY <1>1 DEF AcceptedAt, linkVars
  <2>2. CASE m # n
    BY <1>1, <2>1, <2>2, NodeKept DEF NetInv, TypeOK, serverVars, histVars
  <2>3. CASE m = n
    <3>1. step'[n] = "idle" /\ UNCHANGED <<serverVars, histVars, conf>>
      BY <1>1 DEF NetInv, TypeOK
    <3>2. Loops(n)' = Loops(n)
      BY <2>1, <2>3, <3>1 DEF Loops, serverVars
    <3> QED BY <1>1, <2>3, <3>1, <3>2
            DEF NetInv, NodeInv, Prepared, Counted, Listens, serverVars, histVars
  <2> QED BY <2>2, <2>3
<1> QED BY <1>3, <1>4, <1>5 DEF NetInv

-----------------------------------------------------------------------------
(* Steps of the clients, and those that leave the acceptor alone *)

\* No node's server changes.
LEMMA ServersKept ==
  ASSUME NetInv, UNCHANGED <<conf, step, serverVars, caught, failed>>,
         \A c \in Clients : srv'[c] = "accepted" <=> srv[c] = "accepted"
  PROVE  \A n \in Nodes : NodeInv(n)'
<1> SUFFICES ASSUME NEW n \in Nodes PROVE NodeInv(n)'
  OBVIOUS
<1>1. AcceptedAt(n)' = AcceptedAt(n)
  BY DEF AcceptedAt
<1> QED BY <1>1, NodeKept DEF serverVars

LEMMA FreeKeeps ==
  ASSUME NetInv, NEW n \in Nodes, NEW g \in Gens, Free(n, g)
  PROVE  NetInv'
<1>1. /\ held' = [held EXCEPT ![n] = @ \ {g}]
      /\ cli' = [c \in Clients |-> IF c.of = n /\ c.gen = g
                                       /\ cli[c] \in {"up", "reset", "stuck"}
                                   THEN "gone" ELSE cli[c]]
      /\ UNCHANGED <<gen, conf, step, started, serverVars, dials, srv, histVars>>
  BY DEF Free
<1>2. TypeOK'
  BY <1>1 DEF NetInv, TypeOK, serverVars, histVars
<1>3. Fresh' /\ Linked'
  BY <1>1 DEF NetInv, Fresh, Linked
<1> QED BY <1>1, <1>2, <1>3, ServersKept DEF NetInv, histVars

LEMMA CommandKeeps ==
  ASSUME NetInv, NEW n \in Nodes, NEW on \in BOOLEAN, Command(n, on)
  PROVE  NetInv'
<1>1. /\ started' = [started EXCEPT ![n] = IF on THEN {gen[n]} ELSE {}]
      /\ UNCHANGED <<gen, conf, step, held, serverVars, linkVars, histVars>>
  BY DEF Command
<1>2. started' \in [Nodes -> SUBSET (0 .. MaxDeploys)]
  BY <1>1 DEF NetInv, TypeOK
<1>3. TypeOK'
  BY <1>1, <1>2 DEF NetInv, TypeOK, serverVars, linkVars, histVars
<1>4. Fresh' /\ Linked'
  BY <1>1 DEF NetInv, Fresh, Linked, linkVars
<1> QED BY <1>1, <1>3, <1>4, ServersKept DEF NetInv, linkVars, histVars

LEMMA DialsKeep ==
  ASSUME NetInv, NEW c \in Clients, Dials(c) \/ Sends(c) \/ ReadsEnd(c)
  PROVE  NetInv'
<1>1. /\ UNCHANGED <<nodeVars, serverVars, dials, histVars>>
      /\ \/ /\ cli[c] \in {"dialling", "waiting", "reset"}
            /\ \/ \E s \in {"waiting", "dialling"} :
                    cli' = [cli EXCEPT ![c] = s] /\ srv' = srv
               \/ \E s \in {"up", "gone"} :
                    /\ cli' = [cli EXCEPT ![c] = s]
                    /\ srv' = [srv EXCEPT ![c] = "backlog"]
         \/ cli' = cli /\ srv[c] = "open" /\ srv' = [srv EXCEPT ![c] = "none"]
  BY DEF Dials, Connects, Refused, Redials, Sends, ReadsEnd
<1>2. srv[c] # "accepted" \/ srv' = srv
  BY <1>1 DEF NetInv, Linked
<1>3. TypeOK'
  BY <1>1 DEF NetInv, TypeOK, nodeVars, serverVars, histVars
<1>4. Fresh' /\ Linked'
  BY <1>1 DEF NetInv, Fresh, Linked, TypeOK, nodeVars
<1>5. \A d \in Clients : srv'[d] = "accepted" <=> srv[d] = "accepted"
  BY <1>1, <1>2 DEF NetInv, TypeOK
<1> QED BY <1>1, <1>3, <1>4, <1>5, ServersKept DEF NetInv, nodeVars, histVars

-----------------------------------------------------------------------------
(* Steps of the accept loops *)

LEMMA AcceptedKeeps ==
  ASSUME NetInv, NEW c \in Clients, Accepted(c)
  PROVE  NetInv'
<1> DEFINE n == c.to
<1>1. /\ srv[c] = "backlog" /\ pending[n] > 0 /\ n \in Nodes
      /\ srv' = [srv EXCEPT ![c] = "accepted"]
      /\ pending' = [pending EXCEPT ![n] = @ - 1]
      /\ UNCHANGED <<nodeVars, port, starting, cli, dials, histVars>>
  BY DEF Accepted, Clients
<1>2. TypeOK'
  BY <1>1 DEF NetInv, TypeOK, nodeVars, histVars
<1>3. Fresh' /\ Linked'
  BY <1>1 DEF NetInv, Fresh, Linked, TypeOK, nodeVars
<1>4. ASSUME NEW m \in Nodes PROVE NodeInv(m)'
  <2>1. CASE m # n
    <3>1. AcceptedAt(m)' = AcceptedAt(m)
      BY <1>1, <2>1 DEF AcceptedAt, NetInv, TypeOK
    <3> QED BY <1>1, <2>1, <3>1, NodeKept DEF NetInv, TypeOK, nodeVars, histVars
  <2>2. CASE m = n
    <3>1. AcceptedAt(n)' = AcceptedAt(n) \cup {c} /\ c \notin AcceptedAt(n)
      BY <1>1 DEF AcceptedAt, NetInv, TypeOK
    <3>2. Cardinality(AcceptedAt(n)') = Cardinality(AcceptedAt(n)) + 1
      <4>1. IsFiniteSet(AcceptedAt(n))
        BY <1>1, LoopsType DEF NetInv
      <4> HIDE DEF n
      <4> QED BY <3>1, <4>1, FS_AddElement
    <3>3. pending'[n] = pending[n] - 1 /\ starting' = starting
      BY <1>1 DEF NetInv, TypeOK
    <3>4. Loops(n)' = Loops(n)
      <4>1. /\ Cardinality(AcceptedAt(n)) \in Nat
            /\ pending[n] \in Nat /\ starting[n] \in Nat
        BY <1>1, LoopsType DEF NetInv
      <4> HIDE DEF n
      <4> QED BY <3>2, <3>3, <4>1 DEF Loops
    <3> QED BY <1>1, <2>2, <3>4
            DEF NetInv, NodeInv, Prepared, Counted, Listens, nodeVars, histVars
  <2> QED BY <2>1, <2>2
<1> QED BY <1>2, <1>3, <1>4 DEF NetInv

LEMMA OnAcceptedKeeps ==
  ASSUME NetInv, NEW c \in Clients, OnAccepted(c)
  PROVE  NetInv'
<1> DEFINE n == c.to
<1>1. /\ srv[c] = "accepted" /\ n \in Nodes
      /\ srv' = [srv EXCEPT ![c] = "open"]
      /\ starting' = [starting EXCEPT ![n] = @ + 1]
      /\ UNCHANGED <<nodeVars, port, pending, cli, dials, histVars>>
  BY DEF OnAccepted, Clients
<1>2. TypeOK'
  BY <1>1 DEF NetInv, TypeOK, nodeVars, histVars
<1>3. Fresh' /\ Linked'
  BY <1>1 DEF NetInv, Fresh, Linked, TypeOK, nodeVars
<1>4. ASSUME NEW m \in Nodes PROVE NodeInv(m)'
  <2>1. CASE m # n
    <3>1. AcceptedAt(m)' = AcceptedAt(m)
      BY <1>1, <2>1 DEF AcceptedAt, NetInv, TypeOK
    <3> QED BY <1>1, <2>1, <3>1, NodeKept DEF NetInv, TypeOK, nodeVars, histVars
  <2>2. CASE m = n
    <3>1. AcceptedAt(n)' = AcceptedAt(n) \ {c} /\ c \in AcceptedAt(n)
      BY <1>1 DEF AcceptedAt, NetInv, TypeOK
    <3>2. Cardinality(AcceptedAt(n)') = Cardinality(AcceptedAt(n)) - 1
      <4>1. IsFiniteSet(AcceptedAt(n))
        BY <1>1, LoopsType DEF NetInv
      <4> HIDE DEF n
      <4> QED BY <3>1, <4>1, FS_RemoveElement
    <3>3. starting'[n] = starting[n] + 1 /\ pending' = pending
      BY <1>1 DEF NetInv, TypeOK
    <3>4. Loops(n)' = Loops(n)
      <4>1. /\ Cardinality(AcceptedAt(n)) \in Nat
            /\ pending[n] \in Nat /\ starting[n] \in Nat
        BY <1>1, LoopsType DEF NetInv
      <4> HIDE DEF n
      <4> QED BY <3>2, <3>3, <4>1 DEF Loops
    <3> QED BY <1>1, <2>2, <3>4
            DEF NetInv, NodeInv, Prepared, Counted, Listens, nodeVars, histVars
  <2> QED BY <2>1, <2>2
<1> QED BY <1>2, <1>3, <1>4 DEF NetInv

\* A loop ends only at an error: that of an accept, or that of an acceptor that a
\* deployment has closed and not yet opened.
LEMMA AcceptsNextKeeps ==
  ASSUME NetInv, NEW n \in Nodes, AcceptsNext(n)
  PROVE  NetInv'
<1>1. /\ starting[n] > 0 /\ starting' = [starting EXCEPT ![n] = @ - 1]
      /\ pending' = IF port[n] = None THEN pending ELSE [pending EXCEPT ![n] = @ + 1]
      /\ UNCHANGED <<nodeVars, port, linkVars, histVars>>
  BY DEF AcceptsNext
<1>2. TypeOK'
  BY <1>1 DEF NetInv, TypeOK, nodeVars, linkVars, histVars
<1>3. Fresh' /\ Linked'
  BY <1>1 DEF NetInv, Fresh, Linked, nodeVars, linkVars
<1>4. ASSUME NEW m \in Nodes PROVE NodeInv(m)'
  <2>1. AcceptedAt(m)' = AcceptedAt(m)
    BY <1>1 DEF AcceptedAt, linkVars
  <2>2. CASE m # n
    BY <1>1, <2>1, <2>2, NodeKept DEF NetInv, TypeOK, nodeVars, histVars
  <2>3. CASE m = n
    <3>1. /\ starting'[n] = starting[n] - 1
          /\ pending'[n] = IF port[n] = None THEN pending[n] ELSE pending[n] + 1
      BY <1>1 DEF NetInv, TypeOK
    <3>2. Loops(n)' = IF port[n] = None THEN Loops(n) - 1 ELSE Loops(n)
      BY <2>1, <2>3, <3>1, LoopsType DEF Loops, NetInv
    <3>3. CASE port[n] # None
      BY <1>1, <2>3, <3>2, <3>3
      DEF NetInv, NodeInv, Prepared, Counted, Listens, nodeVars, histVars
    <3>4. CASE port[n] = None
      <4>1. Listens(n)' /\ Prepared(n)'
        BY <1>1, <3>4 DEF NetInv, NodeInv, Prepared, Listens, nodeVars, histVars
      <4>2. Counted(n)'
        BY <1>1, <3>2, <3>4, LoopsType
        DEF NetInv, NodeInv, Counted, nodeVars, histVars
      <4> QED BY <2>3, <4>1, <4>2 DEF NodeInv
    <3> QED BY <3>3, <3>4
  <2> QED BY <2>2, <2>3
<1> QED BY <1>2, <1>3, <1>4 DEF NetInv

LEMMA AcceptFailsKeeps ==
  ASSUME NetInv, NEW n \in Nodes, AcceptFails(n)
  PROVE  NetInv'
<1>1. /\ pending[n] > 0 /\ pending' = [pending EXCEPT ![n] = @ - 1]
      /\ faults < MaxFaults /\ faults' = faults + 1
      /\ failed' = [failed EXCEPT ![n] = @ + 1]
      /\ UNCHANGED <<nodeVars, port, starting, linkVars, caught>>
  BY DEF AcceptFails
<1>2. TypeOK'
  BY <1>1 DEF NetInv, TypeOK, nodeVars, linkVars
<1>3. Fresh' /\ Linked'
  BY <1>1 DEF NetInv, Fresh, Linked, nodeVars, linkVars
<1>4. ASSUME NEW m \in Nodes PROVE NodeInv(m)'
  <2>1. AcceptedAt(m)' = AcceptedAt(m)
    BY <1>1 DEF AcceptedAt, linkVars
  <2>2. CASE m # n
    BY <1>1, <2>1, <2>2, NodeKept DEF NetInv, TypeOK, nodeVars
  <2>3. CASE m = n
    <3>1. /\ pending'[n] = pending[n] - 1 /\ starting' = starting
          /\ failed'[n] = failed[n] + 1 /\ failed[n] \in Nat
      BY <1>1 DEF NetInv, TypeOK
    <3>2. Loops(n)' = Loops(n) - 1
      BY <2>1, <2>3, <3>1, LoopsType DEF Loops, NetInv
    <3>3. Prepared(n)' /\ Listens(n)'
      BY <1>1, <3>1 DEF NetInv, NodeInv, Prepared, Listens, nodeVars
    <3>4. Counted(n)'
      BY <1>1, <3>2, LoopsType DEF NetInv, NodeInv, Counted, nodeVars
    <3> QED BY <2>3, <3>3, <3>4 DEF NodeInv
  <2> QED BY <2>2, <2>3
<1> QED BY <1>2, <1>3, <1>4 DEF NetInv

-----------------------------------------------------------------------------
(* A death *)

LEMMA DiesKeeps ==
  ASSUME NetInv, NEW n \in Nodes, Dies(n)
  PROVE  NetInv'
<1> DEFINE mine == {c \in Clients : c.of = n /\ cli[c] # "none"}
           theirs == {c \in Clients : c.to = n /\ cli[c] = "up"} \ mine
<1>1. PICK R \in SUBSET theirs :
        cli' = [c \in Clients |-> CASE c \in mine -> "gone"
                                    [] c \in R -> "reset"
                                    [] c \in theirs \ R -> "stuck"
                                    [] OTHER -> cli[c]]
  BY DEF Dies
<1>2. \A c \in Clients : \/ c.of = n /\ cli[c] # "none" /\ cli'[c] = "gone"
                         \/ c.to = n /\ cli[c] = "up" /\ cli'[c] \in {"reset", "stuck"}
                         \/ cli'[c] = cli[c]
  <2> SUFFICES ASSUME NEW c \in Clients
               PROVE  \/ c.of = n /\ cli[c] # "none" /\ cli'[c] = "gone"
                      \/ c.to = n /\ cli[c] = "up" /\ cli'[c] \in {"reset", "stuck"}
                      \/ cli'[c] = cli[c]
    OBVIOUS
  <2>1. CASE c \in mine
    BY <1>1, <2>1
  <2>2. CASE c \in R
    BY <1>1, <2>2
  <2>3. CASE c \in theirs \ R
    BY <1>1, <2>3
  <2>4. CASE c \notin mine /\ c \notin theirs
    BY <1>1, <2>4
  <2> QED BY <2>1, <2>2, <2>3, <2>4
<1>3. DOMAIN cli' = Clients /\ cli' = [c \in Clients |-> cli'[c]]
  BY <1>1
<1>4. /\ faults < MaxFaults /\ faults' = faults + 1
      /\ conf' = [conf EXCEPT ![n] = None] /\ step' = [step EXCEPT ![n] = "idle"]
      /\ held' = [held EXCEPT ![n] = {}] /\ started' = [started EXCEPT ![n] = {}]
      /\ port' = [port EXCEPT ![n] = None]
      /\ pending' = [pending EXCEPT ![n] = 0] /\ starting' = [starting EXCEPT ![n] = 0]
      /\ srv' = [c \in Clients |-> IF c.to = n THEN "none" ELSE srv[c]]
      /\ caught' = [caught EXCEPT ![n] = 0] /\ failed' = [failed EXCEPT ![n] = 0]
      /\ UNCHANGED <<gen, dials>>
  BY DEF Dies
<1> HIDE DEF mine, theirs
<1>5. TypeOK'
  <2>1. cli' \in [Clients -> {"none", "dialling", "waiting", "up", "reset", "stuck", "gone"}]
    BY <1>2, <1>3 DEF NetInv, TypeOK
  <2> QED BY <1>4, <2>1 DEF NetInv, TypeOK
<1>6. Fresh'
  BY <1>2, <1>4 DEF NetInv, Fresh
<1>7. Linked'
  BY <1>2, <1>4 DEF NetInv, Linked
<1>8. ASSUME NEW m \in Nodes PROVE NodeInv(m)'
  <2>1. CASE m # n
    <3>1. AcceptedAt(m)' = AcceptedAt(m)
      BY <1>4, <2>1 DEF AcceptedAt
    <3> QED BY <1>4, <2>1, <3>1, NodeKept DEF NetInv, TypeOK
  <2>2. CASE m = n
    <3>1. AcceptedAt(n)' = {}
      BY <1>4 DEF AcceptedAt
    <3>2. /\ pending'[n] = 0 /\ starting'[n] = 0 /\ caught'[n] = 0
          /\ step'[n] = "idle" /\ conf'[n] = None
      BY <1>4 DEF NetInv, TypeOK
    <3>3. Loops(n)' = 0
      BY <3>1, <3>2, FS_EmptySet DEF Loops
    <3> QED BY <2>2, <3>2, <3>3 DEF NodeInv, Prepared, Counted, Listens
  <2> QED BY <2>1, <2>2
<1> QED BY <1>5, <1>6, <1>7, <1>8 DEF NetInv

-----------------------------------------------------------------------------
(* The theorems *)

LEMMA NetInit == Init => NetInv
<1> SUFFICES ASSUME Init PROVE NetInv
  OBVIOUS
<1>1. TypeOK
  BY DEF Init, TypeOK
<1>2. Fresh /\ Linked
  BY DEF Init, Fresh, Linked
<1>3. ASSUME NEW n \in Nodes PROVE NodeInv(n)
  <2>1. AcceptedAt(n) = {}
    BY DEF Init, AcceptedAt
  <2>2. Loops(n) = 0
    BY <2>1, FS_EmptySet DEF Init, Loops
  <2> QED BY <2>2 DEF Init, NodeInv, Prepared, Counted, Listens
<1> QED BY <1>1, <1>2, <1>3 DEF NetInv

LEMMA NetNext == NetInv /\ [Next]_vars => NetInv'
<1> SUFFICES ASSUME NetInv, [Next]_vars PROVE NetInv'
  OBVIOUS
<1>1. CASE Next
  BY <1>1, DeployKeeps, CloseKeeps, OpenKeeps, AcceptKeeps, StopKeeps, CommandKeeps,
    FreeKeeps, DialsKeep, AcceptedKeeps, OnAcceptedKeeps, AcceptsNextKeeps, AcceptFailsKeeps,
    DiesKeeps DEF Next, DeployStep
<1>2. CASE UNCHANGED vars
  <2>1. TypeOK' /\ Fresh' /\ Linked'
    BY <1>2 DEF NetInv, TypeOK, Fresh, Linked, vars, nodeVars, serverVars, linkVars,
      histVars
  <2>2. \A n \in Nodes : NodeInv(n)'
    BY <1>2, ServersKept DEF vars, nodeVars, linkVars, histVars
  <2> QED BY <2>1, <2>2 DEF NetInv
<1> QED BY <1>1, <1>2

LEMMA NetAlways == Spec => []NetInv
BY NetInit, NetNext, PTL DEF Spec

\* State variables of the network keep to their domains: a deployment under way has a
\* configuration to open the port of.
THEOREM NetworkTypeCorrect == Spec => []TypeOK
<1>1. NetInv => TypeOK
  BY DEF NetInv
<1> QED BY <1>1, NetAlways, PTL

\* A deployed node goes on accepting unless an accept failed, for any number of
\* nodes, any configurations and any number of deployments, connections and deaths.
THEOREM DeployedNodesListen == Spec => []NeverDeaf
<1>1. NetInv => NeverDeaf
  BY DEF NetInv, NodeInv, Listens, NeverDeaf
<1> QED BY <1>1, NetAlways, PTL

\* Accept loops do not pile up: at most one beside those of the connections that a
\* deployment caught between their accept and their start.
THEOREM LoopsStayBounded == Spec => []LoopsBounded
<1>1. NetInv => LoopsBounded
  BY LoopsType DEF NetInv, NodeInv, Counted, LoopsBounded
<1> QED BY <1>1, NetAlways, PTL
=============================================================================
