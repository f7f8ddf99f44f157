---------------------------- MODULE TerminalProofs ----------------------------
(***************************************************************************)
(* What the terminal keeps to, for any users, schemas and nodes: proofs.   *)
(***************************************************************************)
EXTENDS Terminal, SequenceTheorems, TLAPS

-----------------------------------------------------------------------------
(* The invariants *)

\* Before the first load there are no RemoteNodes.
TypeInv == TypeOK /\ (loads = 0 => DOMAIN plan = {})

\* The TreeModel made for a deployment keeps the RemoteNodes it asked.
DeployKept ==
    /\ \A r \in Remotes : \A s \in {asked[r], answers[r]} :
           \A i \in DOMAIN s : s[i].kind = "deploy" => r \in pinned
    /\ \A i \in DOMAIN events : events[i].kind = "deploy" => events[i].of \in pinned

\* What a patient user waits for concerns the RemoteNodes of the window, which stay
\* connected once they were.
Attended ==
    /\ Sane /\ deployed <= loads
    /\ \A r \in Remotes : Awaits(r) => r \in Current /\ link[r] = "up"
    /\ \A r \in Remotes \ Current : link[r] \in {"none", "gone"}
    /\ \A i \in DOMAIN events : events[i].of \in Current
    /\ deployed = loads => \A r \in Current : link[r] = "up"

\* Requests, answers and signals of a deployment are about the schema that was loaded.
DeployAnswered ==
    /\ \A r \in Remotes : \A s \in {asked[r], answers[r]} :
           \A i \in DOMAIN s : s[i].kind = "deploy" => deployed = loads
    /\ \A i \in DOMAIN events : events[i].kind = "deploy" => deployed = loads
    /\ ~deploying => deployed = loads

\* The node of r has what the schema says.
Made(r) == size[NodeOf(r)] = plan[NodeOf(r)]

\* A deployment comes before the i-th request.
DeployBefore(s, i) == \E j \in DOMAIN s : j < i /\ s[j].kind = "deploy"

Sized ==
    \A r \in Current :
        /\ \A i \in DOMAIN asked[r] :
            /\ asked[r][i].kind = "deploy" => asked[r][i].count = plan[NodeOf(r)]
            /\ asked[r][i].kind = "status" => Made(r) \/ DeployBefore(asked[r], i)
        /\ deployed = loads => Made(r) \/ DeployBefore(asked[r], Len(asked[r]) + 1)
        /\ \A i \in DOMAIN answers[r] :
               answers[r][i].kind = "status" => answers[r][i].count = plan[NodeOf(r)]
        /\ \A i \in DOMAIN events :
               events[i].kind = "status" /\ events[i].of = r =>
                   events[i].count = plan[NodeOf(r)]
        /\ rows[r] \in {0, plan[NodeOf(r)]}

Unseen == \A r \in Remotes : r[1] > loads => rows[r] = 0

PatientInv == user.patient => Attended /\ DeployAnswered /\ Sized /\ Unseen

\* The node of a RemoteNode does, or will do, what the buttons tell.
Obeys ==
    \A r \in Current :
        /\ \A i \in DOMAIN asked[r] :
            /\ asked[r][i].kind = "start" => "stop" \in buttons
            /\ asked[r][i].kind = "stop" => "stop" \notin buttons
        /\ (\A i \in DOMAIN asked[r] : asked[r][i].kind \notin {"start", "stop"}) =>
               (on[NodeOf(r)] <=> "stop" \in buttons)

ButtonInv ==
    user.patient =>
        /\ Obeys
        /\ loads = 0 => buttons = {} /\ \A n \in Nodes : ~on[n]
        /\ loads # 0 => plan \in user.plans

-----------------------------------------------------------------------------
(* Sequences and types *)

\* t is s with e behind it.
Extended(s, e, t) ==
    /\ Len(t) = Len(s) + 1 /\ DOMAIN t = 1 .. Len(s) + 1
    /\ t[Len(s) + 1] = e /\ \A i \in 1 .. Len(s) : t[i] = s[i]

\* t is s without its first element.
Shortened(s, t) ==
    /\ Len(s) \in Nat \ {0} /\ Len(t) = Len(s) - 1 /\ DOMAIN t = 1 .. Len(s) - 1
    /\ Head(s) = s[1] /\ \A i \in 1 .. Len(s) - 1 : t[i] = s[i + 1]

\* What Append does.
LEMMA Appends ==
    ASSUME NEW S, NEW s \in Seq(S), NEW e \in S
    PROVE  Append(s, e) \in Seq(S) /\ Extended(s, e, Append(s, e))
<1>1. /\ Append(s, e) \in Seq(S) /\ Len(Append(s, e)) = Len(s) + 1
      /\ \A i \in 1 .. Len(s) : Append(s, e)[i] = s[i]
      /\ Append(s, e)[Len(s) + 1] = e
    BY AppendProperties
<1>2. DOMAIN Append(s, e) = 1 .. Len(s) + 1 BY <1>1, LenProperties
<1>. QED BY <1>1, <1>2, Zenon DEF Extended

\* What Tail does.
LEMMA Tails ==
    ASSUME NEW S, NEW s \in Seq(S), s # <<>>
    PROVE  /\ Head(s) \in S /\ Tail(s) \in Seq(S) /\ Shortened(s, Tail(s))
<1>1. /\ Head(s) \in S /\ Head(s) = s[1]
      /\ Tail(s) \in Seq(S) /\ Len(Tail(s)) = Len(s) - 1
      /\ \A i \in 1 .. Len(Tail(s)) : Tail(s)[i] = s[i + 1]
    BY HeadTailProperties
<1>2. Len(s) \in Nat \ {0} BY EmptySeq, LenProperties
<1>3. DOMAIN Tail(s) = 1 .. Len(s) - 1 BY <1>1, LenProperties
<1>4. \A i \in 1 .. Len(s) - 1 : Tail(s)[i] = s[i + 1] BY <1>1
<1>. QED BY <1>1, <1>2, <1>3, <1>4, Zenon DEF Shortened

\* The RemoteNodes of the window are RemoteNodes, one for each node of the schema.
LEMMA CurrentRemotes ==
    ASSUME TypeInv
    PROVE  /\ Current \subseteq Remotes
           /\ \A r \in Current : /\ r = <<loads, NodeOf(r)>> /\ NodeOf(r) \in DOMAIN plan
                                 /\ NodeOf(r) \in Nodes /\ plan[NodeOf(r)] \in 0 .. MaxSize
<1>1. DOMAIN plan # {} => loads \in Loads
    BY TerminalAssumption DEF TypeInv, TypeOK, Loads
<1>2. DOMAIN plan \subseteq Nodes /\ \A n \in DOMAIN plan : plan[n] \in 0 .. MaxSize
    BY DEF TypeInv, TypeOK
<1>. QED BY <1>1, <1>2 DEF Current, Remotes, NodeOf

LEMMA RemoteNodes == \A r \in Remotes : r[1] \in Loads /\ NodeOf(r) \in Nodes
BY DEF Remotes, NodeOf

\* What one click sends.
LEMMA AsksSends ==
    ASSUME TypeInv, NEW kind \in Commands, NEW S \in SUBSET Current, Asks(kind, S)
    PROVE  /\ asked' \in [Remotes -> Seq(Messages)]
           /\ \A r \in Remotes :
                \/ asked'[r] = asked[r] /\ ~(r \in S /\ link[r] \in {"dialling", "up"})
                \/ /\ r \in S /\ link[r] \in {"dialling", "up"}
                   /\ Extended(asked[r], Ask(r, kind), asked'[r])
                   /\ asked'[r] # <<>>
<1>1. \A r \in Current : Ask(r, kind) \in Messages
    BY CurrentRemotes, TerminalAssumption DEF Ask, Messages
<1>2. \A r \in Remotes : asked[r] \in Seq(Messages) BY DEF TypeInv, TypeOK
<1>3. \A r \in Remotes : r \in S /\ link[r] \in {"dialling", "up"} =>
          /\ asked'[r] = Append(asked[r], Ask(r, kind))
          /\ asked'[r] \in Seq(Messages) /\ Extended(asked[r], Ask(r, kind), asked'[r])
          /\ asked'[r] # <<>>
    <2>. SUFFICES ASSUME NEW r \in Remotes, r \in S, link[r] \in {"dialling", "up"}
                  PROVE  /\ asked'[r] = Append(asked[r], Ask(r, kind))
                         /\ asked'[r] \in Seq(Messages)
                         /\ Extended(asked[r], Ask(r, kind), asked'[r])
                         /\ asked'[r] # <<>>
        OBVIOUS
    <2>1. asked'[r] = Append(asked[r], Ask(r, kind)) BY DEF Asks
    <2>2. Ask(r, kind) \in Messages /\ asked[r] \in Seq(Messages) BY <1>1, <1>2
    <2>3. asked'[r] \in Seq(Messages) /\ Extended(asked[r], Ask(r, kind), asked'[r])
        BY <2>1, <2>2, Appends, Zenon
    <2>4. Append(asked[r], Ask(r, kind)) # <<>> BY <2>2, AppendProperties
    <2>. QED BY <2>1, <2>3, <2>4
<1>4. \A r \in Remotes : ~(r \in S /\ link[r] \in {"dialling", "up"}) => asked'[r] = asked[r]
    BY DEF Asks
<1>5. asked' = [r \in Remotes |-> asked'[r]] BY DEF Asks
<1>6. \A r \in Remotes : asked'[r] \in Seq(Messages) BY <1>2, <1>3, <1>4
<1>7. asked' \in [Remotes -> Seq(Messages)] BY <1>5, <1>6, Zenon
<1>. QED BY <1>3, <1>4, <1>7

\* What a report queues.
LEMMA EmitQueues ==
    ASSUME TypeInv, NEW r \in Remotes, NEW kind \in Commands \cup {"connected", "failed"},
           NEW count \in 0 .. MaxSize, Emit(r, kind, count)
    PROVE  /\ events' \in Seq(Events)
           /\ Extended(events, [of |-> r, kind |-> kind, count |-> count], events')
           /\ events' # <<>>
<1>1. [of |-> r, kind |-> kind, count |-> count] \in Events BY DEF Events
<1>2. events \in Seq(Events) BY DEF TypeInv, TypeOK
<1>3. events' = Append(events, [of |-> r, kind |-> kind, count |-> count]) BY DEF Emit
<1>4. events' # <<>> BY <1>1, <1>2, <1>3, AppendProperties
<1>. QED BY <1>1, <1>2, <1>3, <1>4, Appends

\* What a handled signal leaves.
LEMMA SignalTakes ==
    ASSUME TypeInv, NEW K, Signal(K)
    PROVE  /\ events' \in Seq(Events) /\ Shortened(events, events')
           /\ Head(events) \in Events /\ Head(events) = events[1]
           /\ events[1].kind \in K /\ 1 \in DOMAIN events
           /\ events[1].of \in Remotes /\ events[1].count \in 0 .. MaxSize
<1>1. events \in Seq(Events) /\ events # <<>> /\ events' = Tail(events)
    BY DEF TypeInv, TypeOK, Signal
<1>2. events' \in Seq(Events) /\ Shortened(events, events') /\ Head(events) \in Events
    BY <1>1, Tails
<1>3. Head(events) = events[1] BY <1>2 DEF Shortened
<1>4. 1 \in DOMAIN events BY <1>1, EmptySeq, LenProperties
<1>5. events[1].of \in Remotes /\ events[1].count \in 0 .. MaxSize
    BY <1>2, <1>3 DEF Events
<1>. QED BY <1>2, <1>3, <1>4, <1>5 DEF Signal

-----------------------------------------------------------------------------
(* Types *)

LEMMA TypeInit == Init => TypeInv
<1>. SUFFICES ASSUME Init PROVE TypeInv OBVIOUS
<1>1. <<>> \in Seq(Events) /\ <<>> \in Seq(Messages) BY EmptySeq
<1>2. DOMAIN plan = {} /\ plan \in [DOMAIN plan -> 0 .. MaxSize] BY DEF Init
<1>3. /\ user \in Users /\ loads \in 0 .. MaxLoads /\ deployed \in 0 .. MaxLoads
      /\ clicks \in 0 .. MaxClicks /\ fails \in 0 .. MaxFails
    BY TerminalAssumption DEF Init
<1>4. /\ asked \in [Remotes -> Seq(Messages)] /\ answers \in [Remotes -> Seq(Messages)]
      /\ rows \in [Remotes -> 0 .. MaxSize] /\ size \in [Nodes -> 0 .. MaxSize]
      /\ on \in [Nodes -> BOOLEAN]
      /\ link \in [Remotes -> {"none", "dialling", "waiting", "up", "gone"}]
    BY <1>1, TerminalAssumption DEF Init
<1>5. events \in Seq(Events) /\ deploying \in BOOLEAN /\ buttons = {} /\ pinned = {} /\ fault = "none"
    BY <1>1 DEF Init
<1>. QED BY <1>2, <1>3, <1>4, <1>5 DEF TypeInv, TypeOK

LEMMA TypeLoad ==
    ASSUME TypeInv, NEW p \in user.plans, Load(p) PROVE TypeInv'
<1>1. user \in Users BY DEF TypeInv, TypeOK
<1>2. DOMAIN p \subseteq Nodes /\ p \in [DOMAIN p -> 0 .. MaxSize] /\ user.loads \in 0 .. MaxLoads
    BY <1>1, TerminalAssumption
<1>3. loads' \in 0 .. MaxLoads /\ loads' # 0
    BY <1>2, TerminalAssumption DEF Load, TypeInv, TypeOK
<1>4. link' \in [Remotes -> {"none", "dialling", "waiting", "up", "gone"}]
    BY DEF Load, TypeInv, TypeOK, ShutDown
<1>5. /\ DOMAIN plan' \subseteq Nodes /\ plan' \in [DOMAIN plan' -> 0 .. MaxSize]
      /\ deploying' \in BOOLEAN
    BY <1>2 DEF Load
<1>. QED BY <1>3, <1>4, <1>5 DEF Load, TypeInv, TypeOK, nodeVars, bounds

LEMMA TypeClicks ==
    ASSUME TypeInv, NEW button, Clicks(button) PROVE clicks' \in 0 .. MaxClicks
<1>1. user.clicks \in 0 .. MaxClicks BY TerminalAssumption DEF TypeInv, TypeOK
<1>. QED BY <1>1, TerminalAssumption DEF Clicks, TypeInv, TypeOK

LEMMA TypeDeploy == ASSUME TypeInv, Deploy PROVE TypeInv'
<1>1. asked' \in [Remotes -> Seq(Messages)]
    BY AsksSends DEF Deploy, Commands
<1>2. clicks' \in 0 .. MaxClicks BY TypeClicks DEF Deploy
<1>3. pinned' \subseteq Remotes BY CurrentRemotes DEF Deploy, TypeInv, TypeOK
<1>4. buttons' \subseteq {"deploy", "start", "stop"} /\ deployed' \in 0 .. MaxLoads
    BY DEF Deploy, TypeInv, TypeOK
<1>. QED BY <1>1, <1>2, <1>3, <1>4 DEF Deploy, TypeInv, TypeOK, nodeVars

LEMMA TypeStart == ASSUME TypeInv, Start PROVE TypeInv'
<1>1. asked' \in [Remotes -> Seq(Messages)] BY AsksSends DEF Start, Commands
<1>2. clicks' \in 0 .. MaxClicks BY TypeClicks DEF Start
<1>3. buttons' \subseteq {"deploy", "start", "stop"} BY DEF Start, TypeInv, TypeOK
<1>. QED BY <1>1, <1>2, <1>3 DEF Start, TypeInv, TypeOK, nodeVars

LEMMA TypeStop == ASSUME TypeInv, Stop PROVE TypeInv'
<1>1. asked' \in [Remotes -> Seq(Messages)] BY AsksSends DEF Stop, Commands
<1>2. clicks' \in 0 .. MaxClicks BY TypeClicks DEF Stop
<1>3. buttons' \subseteq {"deploy", "start", "stop"} BY DEF Stop, TypeInv, TypeOK
<1>. QED BY <1>1, <1>2, <1>3 DEF Stop, TypeInv, TypeOK, nodeVars

LEMMA TypePoll == ASSUME TypeInv, Poll PROVE TypeInv'
<1>1. asked' \in [Remotes -> Seq(Messages)]
    <2>1. {r \in Current : ~Polled(r)} \in SUBSET Current OBVIOUS
    <2>. QED BY <2>1, AsksSends DEF Poll, Commands
<1>. QED BY <1>1 DEF Poll, TypeInv, TypeOK, nodeVars, window, bounds

LEMMA TypeConnects ==
    ASSUME TypeInv, NEW r \in Remotes, Connects(r) PROVE TypeInv'
<1>1. events' \in Seq(Events)
    <2>1. 0 \in 0 .. MaxSize BY TerminalAssumption
    <2>. QED BY <2>1, EmitQueues DEF Connects, TypeInv, TypeOK
<1>2. link' \in [Remotes -> {"none", "dialling", "waiting", "up", "gone"}]
    BY DEF Connects, TypeInv, TypeOK
<1>. QED BY <1>1, <1>2 DEF Connects, TypeInv, TypeOK, nodeVars, window, bounds

LEMMA TypeConnectFails ==
    ASSUME TypeInv, NEW r \in Remotes, ConnectFails(r) PROVE TypeInv'
<1>1. events' \in Seq(Events)
    <2>1. 0 \in 0 .. MaxSize BY TerminalAssumption
    <2>. QED BY <2>1, EmitQueues DEF ConnectFails, TypeInv, TypeOK
<1>2. link' \in [Remotes -> {"none", "dialling", "waiting", "up", "gone"}]
    BY DEF ConnectFails, TypeInv, TypeOK
<1>3. fails' \in 0 .. MaxFails BY TerminalAssumption DEF ConnectFails, TypeInv, TypeOK
<1>4. asked' \in [Remotes -> Seq(Messages)]
    <2>1. <<>> \in Seq(Messages) BY EmptySeq
    <2>. QED BY <2>1 DEF ConnectFails, TypeInv, TypeOK
<1>. QED BY <1>1, <1>2, <1>3, <1>4 DEF ConnectFails, TypeInv, TypeOK, nodeVars, window

LEMMA TypeRedials ==
    ASSUME TypeInv, NEW r \in Remotes, Redials(r) PROVE TypeInv'
<1>2. link' \in [Remotes -> {"none", "dialling", "waiting", "up", "gone"}]
    BY DEF Redials, TypeInv, TypeOK
<1>. QED BY <1>2 DEF Redials, TypeInv, TypeOK, nodeVars, window, bounds

\* What a node does to a request.
LEMMA Serves ==
    ASSUME TypeInv, NEW r \in Remotes, Serve(r)
    PROVE  /\ asked[r][1] \in Messages /\ 1 \in DOMAIN asked[r] /\ Head(asked[r]) = asked[r][1]
           /\ Shortened(asked[r], asked'[r]) /\ asked' \in [Remotes -> Seq(Messages)]
           /\ \A q \in Remotes \ {r} : asked'[q] = asked[q] /\ answers'[q] = answers[q]
           /\ size' \in [Nodes -> 0 .. MaxSize] /\ on' \in [Nodes -> BOOLEAN]
           /\ answers' \in [Remotes -> Seq(Messages)] /\ answers'[r] # <<>>
           /\ Extended(answers[r], [kind |-> asked[r][1].kind, count |-> size'[NodeOf(r)]],
                       answers'[r])
<1>1. asked[r] \in Seq(Messages) /\ asked[r] # <<>> /\ answers[r] \in Seq(Messages)
    BY DEF TypeInv, TypeOK, Serve
<1>2. Shortened(asked[r], Tail(asked[r])) /\ Tail(asked[r]) \in Seq(Messages)
      /\ Head(asked[r]) \in Messages
    BY <1>1, Tails
<1>3. asked'[r] = Tail(asked[r]) /\ asked' = [asked EXCEPT ![r] = Tail(@)]
    BY DEF Serve, TypeInv, TypeOK
<1>4. Head(asked[r]) = asked[r][1] BY <1>2 DEF Shortened
<1>5. 1 \in DOMAIN asked[r] BY <1>1, EmptySeq, LenProperties
<1>6. asked' \in [Remotes -> Seq(Messages)] BY <1>2, <1>3 DEF TypeInv, TypeOK
<1>7. NodeOf(r) \in Nodes BY RemoteNodes
<1>8. size' \in [Nodes -> 0 .. MaxSize]
    BY <1>2, <1>7 DEF Serve, TypeInv, TypeOK, Messages
<1>9. on' \in [Nodes -> BOOLEAN] BY DEF Serve, TypeInv, TypeOK
<1>10. DEFINE a == [kind |-> asked[r][1].kind, count |-> size'[NodeOf(r)]]
<1>11. a \in Messages BY <1>2, <1>4, <1>7, <1>8 DEF Messages
<1>12. [Head(asked[r]) EXCEPT !.count = size'[NodeOf(r)]] = a BY <1>2, <1>4 DEF Messages
<1>13. answers' = [answers EXCEPT ![r] = Append(@, [Head(asked[r]) EXCEPT !.count = size'[NodeOf(r)]])]
    BY DEF Serve
<1>14. answers'[r] = Append(answers[r], a)
    BY <1>12, <1>13 DEF TypeInv, TypeOK
<1>. HIDE DEF a
<1>15. /\ answers'[r] \in Seq(Messages) /\ Extended(answers[r], a, answers'[r])
      /\ answers'[r] # <<>>
    <2>1. Append(answers[r], a) # <<>> BY <1>1, <1>11, AppendProperties
    <2>. QED BY <1>1, <1>11, <1>14, <2>1, Appends
<1>16. answers' \in [Remotes -> Seq(Messages)]
    <2>1. answers' = [answers EXCEPT ![r] = answers'[r]] BY <1>13 DEF TypeInv, TypeOK
    <2>. QED BY <2>1, <1>15 DEF TypeInv, TypeOK
<1>17. \A q \in Remotes \ {r} : asked'[q] = asked[q] /\ answers'[q] = answers[q]
    BY <1>3, <1>13 DEF TypeInv, TypeOK
<1>18. asked[r][1] \in Messages /\ Shortened(asked[r], asked'[r]) BY <1>2, <1>3, <1>4
<1>. QED BY <1>4, <1>5, <1>6, <1>8, <1>9, <1>15, <1>16, <1>17, <1>18 DEF a

LEMMA TypeServe ==
    ASSUME TypeInv, NEW r \in Remotes, Serve(r) PROVE TypeInv'
<1>1. /\ asked' \in [Remotes -> Seq(Messages)] /\ answers' \in [Remotes -> Seq(Messages)]
      /\ size' \in [Nodes -> 0 .. MaxSize] /\ on' \in [Nodes -> BOOLEAN]
    BY Serves
<1>2. UNCHANGED <<window, events, link, rows, bounds, deployed, fault>> BY DEF Serve
<1>. QED BY <1>1, <1>2 DEF TypeInv, TypeOK, window, bounds

\* What a response does.
LEMMA Finishes ==
    ASSUME TypeInv, NEW r \in Remotes, Finish(r)
    PROVE  /\ answers[r][1] \in Messages /\ 1 \in DOMAIN answers[r]
           /\ Shortened(answers[r], answers'[r]) /\ answers' \in [Remotes -> Seq(Messages)]
           /\ \A q \in Remotes \ {r} : answers'[q] = answers[q]
           /\ events' \in Seq(Events) /\ events' # <<>>
           /\ Extended(events, [of |-> r, kind |-> answers[r][1].kind,
                                count |-> answers[r][1].count], events')
<1>1. answers[r] \in Seq(Messages) /\ answers[r] # <<>>
    BY DEF TypeInv, TypeOK, Finish
<1>2. Shortened(answers[r], Tail(answers[r])) /\ Tail(answers[r]) \in Seq(Messages)
      /\ Head(answers[r]) \in Messages
    BY <1>1, Tails
<1>3. answers'[r] = Tail(answers[r]) /\ answers' = [answers EXCEPT ![r] = Tail(@)]
    BY DEF Finish, TypeInv, TypeOK
<1>4. Head(answers[r]) = answers[r][1] BY <1>2 DEF Shortened
<1>5. 1 \in DOMAIN answers[r] BY <1>1, EmptySeq, LenProperties
<1>6. answers' \in [Remotes -> Seq(Messages)] BY <1>2, <1>3 DEF TypeInv, TypeOK
<1>7. answers[r][1].kind \in Commands /\ answers[r][1].count \in 0 .. MaxSize
    BY <1>2, <1>4 DEF Messages
<1>8. Emit(r, answers[r][1].kind, answers[r][1].count) BY <1>4 DEF Finish
<1>9. /\ events' \in Seq(Events) /\ events' # <<>>
      /\ Extended(events, [of |-> r, kind |-> answers[r][1].kind,
                           count |-> answers[r][1].count], events')
    BY <1>7, <1>8, EmitQueues
<1>10. \A q \in Remotes \ {r} : answers'[q] = answers[q] BY <1>3 DEF TypeInv, TypeOK
<1>. QED BY <1>2, <1>3, <1>4, <1>5, <1>6, <1>9, <1>10

LEMMA TypeFinish ==
    ASSUME TypeInv, NEW r \in Remotes, Finish(r) PROVE TypeInv'
<1>1. answers' \in [Remotes -> Seq(Messages)] /\ events' \in Seq(Events) BY Finishes
<1>2. link' \in [Remotes -> {"none", "dialling", "waiting", "up", "gone"}]
    BY DEF Finish, TypeInv, TypeOK
<1>3. UNCHANGED <<window, asked, rows, nodeVars, bounds, deployed, fault>> BY DEF Finish
<1>. QED BY <1>1, <1>2, <1>3 DEF TypeInv, TypeOK, window, nodeVars, bounds

LEMMA TypeGui == ASSUME TypeInv, Gui PROVE TypeInv'
<1>1. CASE OnConnected
    <2>1. events' \in Seq(Events) BY <1>1, SignalTakes DEF OnConnected
    <2>. QED BY <2>1, <1>1 DEF OnConnected, TypeInv, TypeOK, nodeVars, bounds, Shown
<1>2. CASE OnDeployed
    <2>1. events' \in Seq(Events) BY <1>2, SignalTakes DEF OnDeployed
    <2>. QED BY <2>1, <1>2 DEF OnDeployed, TypeInv, TypeOK, nodeVars, bounds, Logged
<1>3. CASE OnCommanded
    <2>1. events' \in Seq(Events) BY <1>3, SignalTakes DEF OnCommanded
    <2>. QED BY <2>1, <1>3 DEF OnCommanded, TypeInv, TypeOK, nodeVars, bounds, Logged, window
<1>4. CASE OnStatus
    <2>1. events' \in Seq(Events) /\ Head(events) \in Events
        BY <1>4, SignalTakes DEF OnStatus
    <2>2. rows' \in [Remotes -> 0 .. MaxSize] /\ fault' \in {"none", "row", "index", "sender"}
        BY <2>1, <1>4 DEF OnStatus, TypeInv, TypeOK, Events, Shown
    <2>. QED BY <2>1, <2>2, <1>4 DEF OnStatus, TypeInv, TypeOK, nodeVars, bounds, window
<1>. QED BY <1>1, <1>2, <1>3, <1>4 DEF Gui

LEMMA TypeStep == TypeInv /\ [Next]_vars => TypeInv'
<1>. SUFFICES ASSUME TypeInv, [Next]_vars PROVE TypeInv' OBVIOUS
<1>1. ASSUME NEW p \in user.plans, Load(p) PROVE TypeInv' BY <1>1, TypeLoad
<1>2. CASE Deploy BY <1>2, TypeDeploy
<1>3. CASE Start BY <1>3, TypeStart
<1>4. CASE Stop BY <1>4, TypeStop
<1>5. CASE Poll BY <1>5, TypePoll
<1>6. ASSUME NEW r \in Remotes, Connects(r) PROVE TypeInv' BY <1>6, TypeConnects
<1>7. ASSUME NEW r \in Remotes, ConnectFails(r) PROVE TypeInv' BY <1>7, TypeConnectFails
<1>8. ASSUME NEW r \in Remotes, Redials(r) PROVE TypeInv' BY <1>8, TypeRedials
<1>9. ASSUME NEW r \in Remotes, Serve(r) PROVE TypeInv' BY <1>9, TypeServe
<1>10. ASSUME NEW r \in Remotes, Finish(r) PROVE TypeInv' BY <1>10, TypeFinish
<1>11. CASE Gui BY <1>11, TypeGui
<1>12. CASE UNCHANGED vars
    BY <1>12 DEF vars, window, nodeVars, bounds, TypeInv, TypeOK
<1>. QED BY <1>1, <1>2, <1>3, <1>4, <1>5, <1>6, <1>7, <1>8, <1>9, <1>10, <1>11, <1>12 DEF Next

\* The variables keep their types, whoever sits at the terminal and however many nodes
\* and components the schemas have.
THEOREM TypeCorrect == Spec => []TypeOK
<1>1. TypeInv => TypeOK BY DEF TypeInv
<1>. QED BY <1>1, TypeInit, TypeStep, PTL DEF Spec

-----------------------------------------------------------------------------
(* The answer to a deployment finds its RemoteNode *)

LEMMA Lengths ==
    ASSUME TypeInv
    PROVE  /\ \A r \in Remotes :
               /\ Len(asked[r]) \in Nat /\ DOMAIN asked[r] = 1 .. Len(asked[r])
               /\ Len(answers[r]) \in Nat /\ DOMAIN answers[r] = 1 .. Len(answers[r])
           /\ Len(events) \in Nat /\ DOMAIN events = 1 .. Len(events)
<1>1. events \in Seq(Events)
      /\ \A r \in Remotes : asked[r] \in Seq(Messages) /\ answers[r] \in Seq(Messages)
    BY DEF TypeInv, TypeOK
<1>. QED BY <1>1, LenProperties

\* What is in a longer or shorter sequence was in the old one, or is new.
LEMMA ExtendedHas ==
    ASSUME NEW s, NEW e, NEW t, Extended(s, e, t), Len(s) \in Nat, DOMAIN s = 1 .. Len(s)
    PROVE  \A i \in DOMAIN t : t[i] = e \/ \E j \in DOMAIN s : t[i] = s[j]
BY DEF Extended

LEMMA ShortenedHas ==
    ASSUME NEW s, NEW t, Shortened(s, t), DOMAIN s = 1 .. Len(s)
    PROVE  \A i \in DOMAIN t : \E j \in DOMAIN s : t[i] = s[j]
<1>. SUFFICES ASSUME NEW i \in DOMAIN t PROVE \E j \in DOMAIN s : t[i] = s[j] OBVIOUS
<1>1. i + 1 \in DOMAIN s /\ t[i] = s[i + 1] BY DEF Shortened
<1>. QED BY <1>1

\* Requests after a click or a poll.
LEMMA AsksHas ==
    ASSUME TypeInv, NEW kind \in Commands, NEW S \in SUBSET Current, Asks(kind, S)
    PROVE  \A r \in Remotes : \A i \in DOMAIN asked'[r] :
               \/ r \in S /\ asked'[r][i] = Ask(r, kind)
               \/ \E j \in DOMAIN asked[r] : asked'[r][i] = asked[r][j]
<1>. SUFFICES ASSUME NEW r \in Remotes, NEW i \in DOMAIN asked'[r],
                     ~(r \in S /\ asked'[r][i] = Ask(r, kind))
              PROVE  \E j \in DOMAIN asked[r] : asked'[r][i] = asked[r][j]
    OBVIOUS
<1>1. asked'[r] = asked[r] \/ (r \in S /\ Extended(asked[r], Ask(r, kind), asked'[r]))
    BY AsksSends
<1>2. Len(asked[r]) \in Nat /\ DOMAIN asked[r] = 1 .. Len(asked[r]) BY Lengths
<1>3. CASE asked'[r] = asked[r] BY <1>3
<1>4. CASE r \in S /\ Extended(asked[r], Ask(r, kind), asked'[r])
    <2>. DEFINE e == Ask(r, kind)
                t == asked'[r]
                s == asked[r]
    <2>1. Extended(s, e, t) /\ Len(s) \in Nat /\ DOMAIN s = 1 .. Len(s) BY <1>2, <1>4
    <2>2. i \in DOMAIN t /\ t[i] # e BY <1>4
    <2>. HIDE DEF e, t, s
    <2>3. \E j \in DOMAIN s : t[i] = s[j] BY <2>1, <2>2, ExtendedHas
    <2>. QED BY <2>3 DEF s, t
<1>. QED BY <1>1, <1>3, <1>4

LEMMA EventsHave ==
    ASSUME TypeInv, NEW e, Extended(events, e, events')
    PROVE  \A i \in DOMAIN events' : events'[i] = e \/ \E j \in DOMAIN events : events'[i] = events[j]
<1>1. Len(events) \in Nat /\ DOMAIN events = 1 .. Len(events) BY Lengths
<1>. QED BY <1>1, ExtendedHas

LEMMA EventsLeft ==
    ASSUME TypeInv, Shortened(events, events')
    PROVE  \A i \in DOMAIN events' : \E j \in DOMAIN events : events'[i] = events[j]
<1>1. DOMAIN events = 1 .. Len(events) BY Lengths
<1>. QED BY <1>1, ShortenedHas

\* What Connects and ConnectFails report is about the window's RemoteNode.
LEMMA Dialled ==
    ASSUME TypeInv, NEW r \in Remotes, Connects(r) \/ ConnectFails(r)
    PROVE  \/ r \notin Current /\ events' = events
           \/ /\ r \in Current
              /\ \A i \in DOMAIN events' :
                    \/ events'[i].of = r /\ events'[i].kind \in {"connected", "failed"}
                    \/ \E j \in DOMAIN events : events'[i] = events[j]
<1>1. CASE r \in Current
    <2>. PICK kind \in {"connected", "failed"} : Emit(r, kind, 0)
        BY <1>1 DEF Connects, ConnectFails
    <2>. DEFINE e == [of |-> r, kind |-> kind, count |-> 0]
    <2>1. 0 \in 0 .. MaxSize BY TerminalAssumption
    <2>2. Extended(events, e, events') BY <2>1, EmitQueues
    <2>3. e.of = r /\ e.kind \in {"connected", "failed"} OBVIOUS
    <2>. HIDE DEF e
    <2>. QED BY <1>1, <2>2, <2>3, EventsHave
<1>2. CASE r \notin Current BY <1>2 DEF Connects, ConnectFails
<1>. QED BY <1>1, <1>2

LEMMA Served ==
    ASSUME TypeInv, NEW r \in Remotes, Serve(r)
    PROVE  /\ \A i \in DOMAIN asked'[r] : \E j \in DOMAIN asked[r] : asked'[r][i] = asked[r][j]
           /\ \A i \in DOMAIN answers'[r] :
                \/ \E j \in DOMAIN asked[r] :
                       answers'[r][i] = [kind |-> asked[r][j].kind, count |-> size'[NodeOf(r)]]
                \/ \E j \in DOMAIN answers[r] : answers'[r][i] = answers[r][j]
<1>1. /\ DOMAIN asked[r] = 1 .. Len(asked[r])
      /\ Len(answers[r]) \in Nat /\ DOMAIN answers[r] = 1 .. Len(answers[r])
    BY Lengths
<1>. DEFINE e == [kind |-> asked[r][1].kind, count |-> size'[NodeOf(r)]]
            s == answers[r]
            t == answers'[r]
            u == asked[r]
            v == asked'[r]
<1>2. Shortened(u, v) /\ Extended(s, e, t) /\ 1 \in DOMAIN u BY Serves
<1>3. \A i \in DOMAIN v : \E j \in DOMAIN u : v[i] = u[j]
    <2>. HIDE DEF u, v
    <2>. QED BY <1>1, <1>2, ShortenedHas DEF u
<1>4. \A i \in DOMAIN t : t[i] = e \/ \E j \in DOMAIN s : t[i] = s[j]
    <2>1. Len(s) \in Nat /\ DOMAIN s = 1 .. Len(s) BY <1>1
    <2>. HIDE DEF e, s, t
    <2>. QED BY <2>1, <1>2, ExtendedHas
<1>. QED BY <1>2, <1>3, <1>4

LEMMA Finished ==
    ASSUME TypeInv, NEW r \in Remotes, Finish(r)
    PROVE  /\ \A i \in DOMAIN answers'[r] :
                  \E j \in DOMAIN answers[r] : answers'[r][i] = answers[r][j]
           /\ \A i \in DOMAIN events' :
                \/ \E j \in DOMAIN answers[r] :
                      events'[i] = [of |-> r, kind |-> answers[r][j].kind,
                                    count |-> answers[r][j].count]
                \/ \E j \in DOMAIN events : events'[i] = events[j]
<1>1. DOMAIN answers[r] = 1 .. Len(answers[r]) BY Lengths
<1>. DEFINE e == [of |-> r, kind |-> answers[r][1].kind, count |-> answers[r][1].count]
            s == answers[r]
            t == answers'[r]
<1>2. Shortened(s, t) /\ Extended(events, e, events') /\ 1 \in DOMAIN s BY Finishes
<1>3. \A i \in DOMAIN t : \E j \in DOMAIN s : t[i] = s[j]
    <2>. HIDE DEF s, t
    <2>. QED BY <1>1, <1>2, ShortenedHas DEF s
<1>4. \A i \in DOMAIN events' : events'[i] = e \/ \E j \in DOMAIN events : events'[i] = events[j]
    <2>. HIDE DEF e
    <2>. QED BY <1>2, EventsHave
<1>. QED BY <1>2, <1>3, <1>4

\* The same, spelled out.
LEMMA KeptMeans ==
    DeployKept <=>
        /\ \A r \in Remotes : \A i \in DOMAIN asked[r] :
               asked[r][i].kind = "deploy" => r \in pinned
        /\ \A r \in Remotes : \A i \in DOMAIN answers[r] :
               answers[r][i].kind = "deploy" => r \in pinned
        /\ \A i \in DOMAIN events : events[i].kind = "deploy" => events[i].of \in pinned
BY Zenon DEF DeployKept

LEMMA KeptMeansNext ==
    DeployKept' <=>
        /\ \A r \in Remotes : \A i \in DOMAIN asked'[r] :
               asked'[r][i].kind = "deploy" => r \in pinned'
        /\ \A r \in Remotes : \A i \in DOMAIN answers'[r] :
               answers'[r][i].kind = "deploy" => r \in pinned'
        /\ \A i \in DOMAIN events' : events'[i].kind = "deploy" => events'[i].of \in pinned'
BY Zenon DEF DeployKept

LEMMA KeptInit == Init => DeployKept
<1>. SUFFICES ASSUME Init PROVE DeployKept OBVIOUS
<1>1. \A r \in Remotes : asked[r] = <<>> /\ answers[r] = <<>> BY DEF Init
<1>2. events = <<>> BY DEF Init
<1>. QED BY <1>1, <1>2 DEF DeployKept

LEMMA KeptAsks ==
    ASSUME TypeInv, DeployKept, NEW kind \in Commands, NEW S \in SUBSET Current,
           Asks(kind, S), pinned \subseteq pinned', kind = "deploy" => S \subseteq pinned',
           UNCHANGED <<events, answers>>
    PROVE  DeployKept'
<1>1. \A r \in Remotes : \A i \in DOMAIN asked'[r] :
          asked'[r][i].kind = "deploy" => r \in pinned'
    <2>. SUFFICES ASSUME NEW r \in Remotes, NEW i \in DOMAIN asked'[r],
                         asked'[r][i].kind = "deploy"
                  PROVE  r \in pinned'
        OBVIOUS
    <2>1. CASE r \in S /\ asked'[r][i] = Ask(r, kind) BY <2>1 DEF Ask
    <2>2. CASE \E j \in DOMAIN asked[r] : asked'[r][i] = asked[r][j]
        BY <2>2, KeptMeans
    <2>. QED BY <2>1, <2>2, AsksHas
<1>. QED BY <1>1, KeptMeans, KeptMeansNext

LEMMA KeptServe ==
    ASSUME TypeInv, DeployKept, NEW r \in Remotes, Serve(r) PROVE DeployKept'
<1>1. pinned' = pinned /\ events' = events BY DEF Serve, window
<1>2. \A q \in Remotes \ {r} : asked'[q] = asked[q] /\ answers'[q] = answers[q] BY Serves
<1>3. \A i \in DOMAIN asked'[r] : asked'[r][i].kind = "deploy" => r \in pinned
    BY Served, KeptMeans
<1>4. \A i \in DOMAIN answers'[r] : answers'[r][i].kind = "deploy" => r \in pinned
    <2>. SUFFICES ASSUME NEW i \in DOMAIN answers'[r], answers'[r][i].kind = "deploy"
                  PROVE  r \in pinned
        OBVIOUS
    <2>1. CASE \E j \in DOMAIN asked[r] :
                  answers'[r][i] = [kind |-> asked[r][j].kind, count |-> size'[NodeOf(r)]]
        BY <2>1, KeptMeans
    <2>2. CASE \E j \in DOMAIN answers[r] : answers'[r][i] = answers[r][j]
        BY <2>2, KeptMeans
    <2>. QED BY <2>1, <2>2, Served
<1>. QED BY <1>1, <1>2, <1>3, <1>4, KeptMeans, KeptMeansNext

LEMMA KeptFinish ==
    ASSUME TypeInv, DeployKept, NEW r \in Remotes, Finish(r) PROVE DeployKept'
<1>1. pinned' = pinned /\ asked' = asked BY DEF Finish, window
<1>2. \A q \in Remotes \ {r} : answers'[q] = answers[q] BY Finishes
<1>3. \A i \in DOMAIN answers'[r] : answers'[r][i].kind = "deploy" => r \in pinned
    BY Finished, KeptMeans
<1>4. \A i \in DOMAIN events' : events'[i].kind = "deploy" => events'[i].of \in pinned
    <2>. SUFFICES ASSUME NEW i \in DOMAIN events', events'[i].kind = "deploy"
                  PROVE  events'[i].of \in pinned
        OBVIOUS
    <2>1. CASE \E j \in DOMAIN answers[r] :
                  events'[i] = [of |-> r, kind |-> answers[r][j].kind,
                                count |-> answers[r][j].count]
        BY <2>1, KeptMeans
    <2>2. CASE \E j \in DOMAIN events : events'[i] = events[j] BY <2>2, KeptMeans
    <2>. QED BY <2>1, <2>2, Finished
<1>. QED BY <1>1, <1>2, <1>3, <1>4, KeptMeans, KeptMeansNext

LEMMA KeptConnects ==
    ASSUME TypeInv, DeployKept, NEW r \in Remotes, Connects(r) \/ ConnectFails(r)
    PROVE  DeployKept'
<1>1. pinned' = pinned /\ answers' = answers BY DEF Connects, ConnectFails, window
<1>2. \A q \in Remotes : asked'[q] = asked[q] \/ asked'[q] = <<>>
    BY DEF Connects, ConnectFails, TypeInv, TypeOK
<1>3. \A q \in Remotes : \A i \in DOMAIN asked'[q] : asked'[q][i].kind = "deploy" => q \in pinned
    BY <1>2, KeptMeans
<1>4. \A i \in DOMAIN events' : events'[i].kind = "deploy" => events'[i].of \in pinned
    <2>. SUFFICES ASSUME NEW i \in DOMAIN events', events'[i].kind = "deploy"
                  PROVE  events'[i].of \in pinned
        OBVIOUS
    <2>1. events'[i].kind \in {"connected", "failed"} \/ \E j \in DOMAIN events : events'[i] = events[j]
        BY Dialled
    <2>. QED BY <2>1, KeptMeans
<1>. QED BY <1>1, <1>3, <1>4, KeptMeans, KeptMeansNext

LEMMA KeptGui == ASSUME TypeInv, DeployKept, Gui PROVE DeployKept'
<1>1. pinned' = pinned /\ answers' = answers /\ asked' = asked
    BY DEF Gui, OnConnected, OnDeployed, OnCommanded, OnStatus, window
<1>2. PICK K : Signal(K)
    BY DEF Gui, OnConnected, OnDeployed, OnCommanded, OnStatus
<1>3. \A i \in DOMAIN events' : \E j \in DOMAIN events : events'[i] = events[j]
    BY <1>2, SignalTakes, EventsLeft
<1>. QED BY <1>1, <1>3, KeptMeans, KeptMeansNext

LEMMA KeptStep ==
    TypeInv /\ DeployKept /\ [Next]_vars => DeployKept'
<1>. SUFFICES ASSUME TypeInv, DeployKept, [Next]_vars PROVE DeployKept' OBVIOUS
<1>1. ASSUME NEW p \in user.plans, Load(p) PROVE DeployKept' BY <1>1 DEF Load, DeployKept
<1>2. CASE Deploy
    <2>1. Current \in SUBSET Current /\ "deploy" \in Commands BY DEF Commands
    <2>2. pinned \subseteq pinned' /\ Current \subseteq pinned' BY <1>2 DEF Deploy
    <2>. QED BY <1>2, <2>1, <2>2, KeptAsks DEF Deploy
<1>3. CASE Start
    <2>1. Current \in SUBSET Current /\ "start" \in Commands BY DEF Commands
    <2>. QED BY <1>3, <2>1, KeptAsks DEF Start
<1>4. CASE Stop
    <2>1. Current \in SUBSET Current /\ "stop" \in Commands BY DEF Commands
    <2>. QED BY <1>4, <2>1, KeptAsks DEF Stop
<1>5. CASE Poll
    <2>. DEFINE S == {r \in Current : ~Polled(r)}
    <2>1. S \in SUBSET Current /\ "status" \in Commands BY DEF Commands
    <2>2. Asks("status", S) /\ UNCHANGED <<events, answers, pinned>> BY <1>5 DEF Poll, window
    <2>. HIDE DEF S
    <2>. QED BY <2>1, <2>2, KeptAsks
<1>6. ASSUME NEW r \in Remotes, Connects(r) PROVE DeployKept' BY <1>6, KeptConnects
<1>7. ASSUME NEW r \in Remotes, ConnectFails(r) PROVE DeployKept' BY <1>7, KeptConnects
<1>8. ASSUME NEW r \in Remotes, Redials(r) PROVE DeployKept'
    BY <1>8 DEF Redials, window, DeployKept
<1>9. ASSUME NEW r \in Remotes, Serve(r) PROVE DeployKept' BY <1>9, KeptServe
<1>10. ASSUME NEW r \in Remotes, Finish(r) PROVE DeployKept' BY <1>10, KeptFinish
<1>11. CASE Gui BY <1>11, KeptGui
<1>12. CASE UNCHANGED vars BY <1>12 DEF vars, window, DeployKept
<1>. QED BY <1>1, <1>2, <1>3, <1>4, <1>5, <1>6, <1>7, <1>8, <1>9, <1>10, <1>11, <1>12 DEF Next

\* However hasty the user is, the answer to a deployment finds its RemoteNode, because
\* the TreeModel that deploy() leaks keeps it.
THEOREM AnswersFindTheirNode == Spec => []DeploymentReported
<1>1. DeployKept => DeploymentReported BY DEF DeployKept, DeploymentReported, Exists
<1>. QED BY <1>1, TypeInit, TypeStep, KeptInit, KeptStep, PTL DEF Spec

-----------------------------------------------------------------------------
(* The patient user *)

Waiting == /\ user.patient /\ TypeInv
           /\ Attended /\ DeployAnswered /\ Sized /\ Unseen

\* What is on its way concerns the window, and who still dials has nothing on its way.
LEMMA WaitingMeans ==
    ASSUME Waiting
    PROVE  /\ \A r \in Remotes : asked[r] # <<>> => r \in Current /\ link[r] = "up"
           /\ \A r \in Remotes : answers[r] # <<>> => r \in Current /\ link[r] = "up"
           /\ \A r \in Remotes : link[r] \in {"dialling", "waiting"} =>
                  /\ r \in Current /\ asked[r] = <<>> /\ answers[r] = <<>>
                  /\ deployed # loads /\ deploying
           /\ \A r \in Remotes \ Current : asked[r] = <<>> /\ answers[r] = <<>>
           /\ \A i \in DOMAIN events : events[i].of \in Current
           /\ Sane /\ deployed <= loads
<1>1. \A r \in Remotes : asked[r] # <<>> \/ answers[r] # <<>> => r \in Current /\ link[r] = "up"
    BY DEF Waiting, Attended, Awaits
<1>2. \A r \in Remotes : link[r] \in {"dialling", "waiting"} => r \in Current /\ deployed # loads
    BY DEF Waiting, Attended
<1>3. deployed # loads => deploying BY DEF Waiting, DeployAnswered, TypeInv, TypeOK
<1>. QED BY <1>1, <1>2, <1>3 DEF Waiting, Attended

\* When all is calm, nothing is on its way.
LEMMA CalmMeans ==
    ASSUME Waiting, Calm
    PROVE  /\ \A r \in Current : link[r] = "up"
           /\ \A r \in Remotes : asked[r] = <<>> /\ answers[r] = <<>>
           /\ events = <<>>
BY DEF Waiting, Calm, Awaits

\* The invariants by their parts, and after a step.
LEMMA Parts ==
    ASSUME Waiting, NEW r \in Current
    PROVE  /\ r \in Remotes
           /\ \A i \in DOMAIN asked[r] :
                /\ asked[r][i].kind = "deploy" => deployed = loads
                /\ asked[r][i].kind = "deploy" => asked[r][i].count = plan[NodeOf(r)]
                /\ asked[r][i].kind = "status" => Made(r) \/ DeployBefore(asked[r], i)
           /\ deployed = loads => Made(r) \/ DeployBefore(asked[r], Len(asked[r]) + 1)
           /\ \A i \in DOMAIN answers[r] :
                /\ answers[r][i].kind = "deploy" => deployed = loads
                /\ answers[r][i].kind = "status" => answers[r][i].count = plan[NodeOf(r)]
           /\ rows[r] \in {0, plan[NodeOf(r)]}
<1>1. r \in Remotes BY CurrentRemotes DEF Waiting
<1>2. \A i \in DOMAIN asked[r] : asked[r][i].kind = "deploy" => deployed = loads
    BY <1>1, Zenon DEF Waiting, DeployAnswered
<1>3. \A i \in DOMAIN answers[r] : answers[r][i].kind = "deploy" => deployed = loads
    BY <1>1, Zenon DEF Waiting, DeployAnswered
<1>. QED BY <1>1, <1>2, <1>3 DEF Waiting, Sized

LEMMA AnsweredNext ==
    ASSUME Waiting,
           \A r \in Remotes : \A i \in DOMAIN asked'[r] :
               asked'[r][i].kind = "deploy" => deployed' = loads',
           \A r \in Remotes : \A i \in DOMAIN answers'[r] :
               answers'[r][i].kind = "deploy" => deployed' = loads',
           \A i \in DOMAIN events' : events'[i].kind = "deploy" => deployed' = loads',
           ~deploying' => deployed' = loads'
    PROVE  DeployAnswered'
BY Zenon DEF DeployAnswered

LEMMA AnsweredMeans ==
    ASSUME Waiting
    PROVE  /\ \A r \in Remotes : \A i \in DOMAIN asked[r] :
                  asked[r][i].kind = "deploy" => deployed = loads
           /\ \A r \in Remotes : \A i \in DOMAIN answers[r] :
                  answers[r][i].kind = "deploy" => deployed = loads
           /\ \A i \in DOMAIN events : events[i].kind = "deploy" => deployed = loads
           /\ ~deploying => deployed = loads
BY Zenon DEF Waiting, DeployAnswered

LEMMA PatientLoad ==
    ASSUME Waiting, NEW p \in user.plans, Load(p)
    PROVE  Attended' /\ DeployAnswered' /\ Sized' /\ Unseen'
<1>1. /\ \A r \in Current : link[r] = "up"
      /\ \A r \in Remotes : asked[r] = <<>> /\ answers[r] = <<>>
      /\ events = <<>>
    BY CalmMeans DEF Load
<1>2. /\ loads' = loads + 1 /\ plan' = p /\ deploying'
      /\ asked' = asked /\ answers' = answers /\ events' = events /\ rows' = rows
      /\ deployed' = deployed /\ fault' = fault /\ size' = size
    BY DEF Load, nodeVars
<1>3. deployed <= loads /\ loads \in Nat /\ deployed \in Nat /\ Sane
    BY WaitingMeans DEF Waiting, TypeInv, TypeOK
<1>4. deployed' # loads' /\ deployed' <= loads' BY <1>2, <1>3
<1>5. \A r \in Remotes \ Current' : link'[r] \in {"none", "gone"}
    <2>. SUFFICES ASSUME NEW r \in Remotes, r \notin Current' PROVE link'[r] \in {"none", "gone"}
        OBVIOUS
    <2>1. r \notin {loads + 1} \X DOMAIN p BY <1>2 DEF Current
    <2>2. CASE r \in Current
        BY <2>2, <1>1 DEF Load, ShutDown, Awaits
    <2>3. CASE r \notin Current BY <2>1, <2>3 DEF Load, Waiting, Attended
    <2>. QED BY <2>2, <2>3
<1>6. Attended'
    BY <1>1, <1>2, <1>3, <1>4, <1>5 DEF Attended, Sane, Awaits
<1>7. DeployAnswered' BY <1>1, <1>2, <1>4 DEF DeployAnswered
<1>8. \A r \in Current' : r \in Remotes /\ rows'[r] = 0
    <2>. SUFFICES ASSUME NEW r \in Current' PROVE r \in Remotes /\ rows'[r] = 0 OBVIOUS
    <2>0. loads' \in Loads /\ DOMAIN plan' \subseteq Nodes
        <3>1. loads' \in 0 .. MaxLoads /\ loads' \in Nat \ {0}
            <4>1. TypeInv' BY TypeLoad DEF Waiting
            <4>2. loads' \in 0 .. MaxLoads BY <4>1 DEF TypeInv, TypeOK
            <4>. QED BY <1>2, <1>3, <4>2
        <3>2. DOMAIN plan' \subseteq Nodes
            BY TypeLoad, TerminalAssumption DEF Waiting, TypeInv, TypeOK
        <3>. QED BY <3>1, <3>2, TerminalAssumption DEF Loads
    <2>1. r \in Remotes BY <2>0 DEF Current, Remotes
    <2>2. r[1] = loads + 1 BY <1>2 DEF Current
    <2>3. r[1] > loads BY <2>2, <1>3
    <2>. QED BY <1>2, <2>1, <2>3 DEF Waiting, Unseen
<1>9. Sized' BY <1>1, <1>2, <1>4, <1>8 DEF Sized
<1>10. Unseen'
    <2>1. \A n \in Loads : n > loads + 1 => n > loads BY <1>3 DEF Loads
    <2>. QED BY <1>2, <2>1, RemoteNodes DEF Waiting, Unseen
<1>. QED BY <1>6, <1>7, <1>9, <1>10

\* A deployment that came before still does when a request is added, and the added one
\* comes before what is next.
LEMMA ExtendedDeploys ==
    ASSUME NEW s, NEW t, NEW e, NEW n \in Nat, DOMAIN s = 1 .. n, DOMAIN t = 1 .. n + 1,
           t[n + 1] = e, \A i \in 1 .. n : t[i] = s[i]
    PROVE  /\ \A i \in Int : DeployBefore(s, i) => DeployBefore(t, i)
           /\ DeployBefore(s, n + 1) => DeployBefore(t, n + 2)
           /\ t[n + 1].kind = "deploy" => DeployBefore(t, n + 2)
BY DEF DeployBefore

\* A click or a poll: of the RemoteNodes of the window each that is asked gets the
\* request behind the others.
LEMMA PatientAsks ==
    ASSUME Waiting, NEW kind \in Commands, NEW S \in SUBSET Current, Asks(kind, S),
           \A r \in Current : link[r] = "up",
           UNCHANGED <<user, loads, plan, deploying, events, link, answers, rows, size, fault>>,
           deployed' \in {deployed, loads}, kind = "deploy" => deployed' = loads,
           deployed' = deployed \/ (kind = "deploy" /\ S = Current),
           kind = "status" => deployed = loads
    PROVE  Attended' /\ DeployAnswered' /\ Sized' /\ Unseen'
<1>1. Current' = Current BY DEF Current
<1>2. \A r \in Remotes \ Current : asked'[r] = asked[r] BY AsksSends DEF Waiting
<1>3. Attended'
    <2>1. Sane' /\ deployed' <= loads' BY WaitingMeans DEF Sane, Waiting, TypeInv, TypeOK
    <2>2. \A r \in Remotes : Awaits(r)' => r \in Current /\ link[r] = "up"
        BY <1>2, WaitingMeans DEF Awaits
    <2>. QED BY <1>1, <2>1, <2>2 DEF Waiting, Attended
<1>4. DeployAnswered'
    <2>1. \A r \in Remotes : \A i \in DOMAIN asked'[r] :
              asked'[r][i].kind = "deploy" => deployed' = loads'
        <3>. SUFFICES ASSUME NEW r \in Remotes, NEW i \in DOMAIN asked'[r],
                             asked'[r][i].kind = "deploy"
                      PROVE  deployed' = loads
            OBVIOUS
        <3>1. CASE r \in S /\ asked'[r][i] = Ask(r, kind) BY <3>1 DEF Ask
        <3>2. CASE \E j \in DOMAIN asked[r] : asked'[r][i] = asked[r][j]
            BY <3>2, AnsweredMeans
        <3>. QED BY <3>1, <3>2, AsksHas DEF Waiting
    <2>2. deployed = loads => deployed' = loads' OBVIOUS
    <2>. QED BY <2>1, <2>2, AnsweredMeans, AnsweredNext
<1>5. \A r \in Current :
        /\ \A i \in DOMAIN asked'[r] :
            /\ asked'[r][i].kind = "deploy" => asked'[r][i].count = plan[NodeOf(r)]
            /\ asked'[r][i].kind = "status" => Made(r)' \/ DeployBefore(asked'[r], i)
        /\ deployed' = loads => Made(r)' \/ DeployBefore(asked'[r], Len(asked'[r]) + 1)
    <2>. SUFFICES ASSUME NEW r \in Current
                  PROVE  /\ \A i \in DOMAIN asked'[r] :
                            /\ asked'[r][i].kind = "deploy" => asked'[r][i].count = plan[NodeOf(r)]
                            /\ asked'[r][i].kind = "status" => Made(r)' \/ DeployBefore(asked'[r], i)
                         /\ deployed' = loads => Made(r)' \/ DeployBefore(asked'[r], Len(asked'[r]) + 1)
        OBVIOUS
    <2>1. r \in Remotes BY Parts
    <2>2. Len(asked[r]) \in Nat /\ DOMAIN asked[r] = 1 .. Len(asked[r])
        BY <2>1, Lengths DEF Waiting
    <2>0. Made(r)' <=> Made(r) BY DEF Made
    <2>3. CASE asked'[r] = asked[r] /\ r \notin S
        <3>1. deployed' = deployed BY <2>3
        <3>. QED BY <2>0, <2>3, <3>1, Parts
    <2>4. CASE r \in S /\ Extended(asked[r], Ask(r, kind), asked'[r])
        <3>. DEFINE s == asked[r]
                    t == asked'[r]
                    n == Len(s)
        <3>1. /\ n \in Nat /\ DOMAIN s = 1 .. n /\ Len(t) = n + 1 /\ DOMAIN t = 1 .. n + 1
              /\ t[n + 1] = Ask(r, kind) /\ \A i \in 1 .. n : t[i] = s[i]
            BY <2>2, <2>4 DEF Extended
        <3>2. /\ t[n + 1].kind = kind
              /\ kind = "deploy" => t[n + 1].count = plan[NodeOf(r)]
            BY <3>1 DEF Ask
        <3>3. /\ \A i \in DOMAIN s :
                   /\ s[i].kind = "deploy" => s[i].count = plan[NodeOf(r)]
                   /\ s[i].kind = "status" => Made(r) \/ DeployBefore(s, i)
              /\ deployed = loads => Made(r) \/ DeployBefore(s, n + 1)
            BY Parts
        <3>. HIDE DEF s, t, n
        <3>4. /\ \A i \in Int : DeployBefore(s, i) => DeployBefore(t, i)
              /\ DeployBefore(s, n + 1) => DeployBefore(t, n + 2)
              /\ t[n + 1].kind = "deploy" => DeployBefore(t, n + 2)
            BY <3>1, ExtendedDeploys
        <3>5. \A i \in 1 .. n : t[i].kind = "deploy" => t[i].count = plan[NodeOf(r)]
            BY <3>1, <3>3
        <3>6. \A i \in 1 .. n : t[i].kind = "status" => Made(r)' \/ DeployBefore(t, i)
            <4>. SUFFICES ASSUME NEW i \in 1 .. n, t[i].kind = "status"
                          PROVE  Made(r)' \/ DeployBefore(t, i)
                OBVIOUS
            <4>1. i \in DOMAIN s /\ s[i].kind = "status" /\ i \in Int BY <3>1
            <4>. QED BY <4>1, <3>3, <3>4, <2>0
        <3>7. kind = "status" => Made(r)' \/ DeployBefore(t, n + 1)
            <4>1. n + 1 \in Int BY <3>1
            <4>. QED BY <4>1, <3>3, <3>4, <2>0
        <3>8. deployed' = loads => Made(r)' \/ DeployBefore(t, n + 2)
            BY <3>2, <3>3, <3>4, <2>0
        <3>10. Len(t) + 1 = n + 2 BY <3>1
        <3>11. \A i \in DOMAIN t : i \in 1 .. n \/ i = n + 1 BY <3>1
        <3>12. ASSUME NEW i \in DOMAIN t
               PROVE  /\ t[i].kind = "deploy" => t[i].count = plan[NodeOf(r)]
                      /\ t[i].kind = "status" => Made(r)' \/ DeployBefore(t, i)
            <4>1. CASE i \in 1 .. n BY <4>1, <3>5, <3>6
            <4>2. CASE i = n + 1 BY <4>2, <3>2, <3>7
            <4>. QED BY <4>1, <4>2, <3>11
        <3>13. deployed' = loads => Made(r)' \/ DeployBefore(t, Len(t) + 1) BY <3>8, <3>10
        <3>. QED BY <3>12, <3>13, Zenon DEF t
    <2>5. link[r] = "up" OBVIOUS
    <2>. QED BY <2>1, <2>3, <2>4, <2>5, AsksSends DEF Waiting
<1>6. Sized' BY <1>1, <1>5 DEF Waiting, Sized
<1>7. Unseen' BY DEF Waiting, Unseen
<1>. QED BY <1>3, <1>4, <1>6, <1>7

\* A request that is served: what came before a later one still does, unless it was
\* this one.
LEMMA ShortenedDeploys ==
    ASSUME NEW s, NEW t, NEW n \in Nat, DOMAIN s = 1 .. n, DOMAIN t = 1 .. n - 1,
           \A i \in 1 .. n - 1 : t[i] = s[i + 1]
    PROVE  /\ ~DeployBefore(s, 1)
           /\ \A i \in Int : DeployBefore(s, i + 1) =>
                  DeployBefore(t, i) \/ s[1].kind = "deploy"
<1>1. ~DeployBefore(s, 1) BY DEF DeployBefore
<1>2. ASSUME NEW i \in Int, DeployBefore(s, i + 1), s[1].kind # "deploy"
      PROVE  DeployBefore(t, i)
    <2>1. PICK j \in 1 .. n : j < i + 1 /\ s[j].kind = "deploy" BY <1>2 DEF DeployBefore
    <2>2. j # 1 BY <1>2, <2>1
    <2>3. j - 1 \in DOMAIN t /\ j - 1 < i /\ t[j - 1] = s[j] BY <2>1, <2>2
    <2>. QED BY <2>1, <2>3 DEF DeployBefore
<1>. QED BY <1>1, <1>2

\* Only the node that is asked changes, and it is the node of no other RemoteNode of
\* the window.
LEMMA ServeMakes ==
    ASSUME Waiting, NEW r \in Remotes, Serve(r), r \in Current
    PROVE  /\ \A q \in Current \ {r} : size'[NodeOf(q)] = size[NodeOf(q)]
           /\ asked[r][1].kind = "deploy" =>
                  size'[NodeOf(r)] = asked[r][1].count
           /\ asked[r][1].kind # "deploy" => size'[NodeOf(r)] = size[NodeOf(r)]
<1>1. \A q \in Current : q = <<loads, NodeOf(q)>> /\ NodeOf(q) \in Nodes
    BY CurrentRemotes DEF Waiting
<1>2. \A q \in Current \ {r} : NodeOf(q) # NodeOf(r) BY <1>1
<1>3. size \in [Nodes -> 0 .. MaxSize] BY DEF Waiting, TypeInv, TypeOK
<1>4. Head(asked[r]) = asked[r][1] BY Serves DEF Waiting
<1>5. size' = IF asked[r][1].kind = "deploy"
              THEN [size EXCEPT ![NodeOf(r)] = asked[r][1].count] ELSE size
    BY <1>4 DEF Serve
<1>. QED BY <1>1, <1>2, <1>3, <1>5

LEMMA PatientServe ==
    ASSUME Waiting, NEW r \in Remotes, Serve(r)
    PROVE  Attended' /\ DeployAnswered' /\ Sized' /\ Unseen'
<1>1. /\ loads' = loads /\ plan' = plan /\ deploying' = deploying /\ events' = events
      /\ link' = link /\ rows' = rows /\ deployed' = deployed /\ fault' = fault
    BY DEF Serve, window
<1>2. Current' = Current BY <1>1 DEF Current
<1>3. r \in Current /\ link[r] = "up" BY WaitingMeans DEF Serve
<1>4. \A q \in Remotes \ {r} : asked'[q] = asked[q] /\ answers'[q] = answers[q]
    BY Serves DEF Waiting
<1>5. Attended'
    <2>1. Sane' /\ deployed' <= loads' BY <1>1, WaitingMeans DEF Sane
    <2>2. \A q \in Remotes : Awaits(q)' => q \in Current /\ link[q] = "up"
        BY <1>3, <1>4, WaitingMeans DEF Awaits
    <2>. QED BY <1>1, <1>2, <2>1, <2>2 DEF Waiting, Attended
<1>6. DeployAnswered'
    <2>1. \A i \in DOMAIN asked'[r] : asked'[r][i].kind = "deploy" => deployed = loads
        BY Served, AnsweredMeans DEF Waiting
    <2>2. \A i \in DOMAIN answers'[r] : answers'[r][i].kind = "deploy" => deployed = loads
        <3>. SUFFICES ASSUME NEW i \in DOMAIN answers'[r], answers'[r][i].kind = "deploy"
                      PROVE  deployed = loads
            OBVIOUS
        <3>1. CASE \E j \in DOMAIN asked[r] :
                answers'[r][i] = [kind |-> asked[r][j].kind, count |-> size'[NodeOf(r)]]
            BY <3>1, AnsweredMeans
        <3>2. CASE \E j \in DOMAIN answers[r] : answers'[r][i] = answers[r][j]
            BY <3>2, AnsweredMeans
        <3>. QED BY <3>1, <3>2, Served DEF Waiting
    <2>3. \A q \in Remotes : \A i \in DOMAIN asked'[q] :
              asked'[q][i].kind = "deploy" => deployed = loads
        BY <1>4, <2>1, AnsweredMeans
    <2>4. \A q \in Remotes : \A i \in DOMAIN answers'[q] :
              answers'[q][i].kind = "deploy" => deployed = loads
        BY <1>4, <2>2, AnsweredMeans
    <2>. QED BY <1>1, <2>3, <2>4, AnsweredMeans, AnsweredNext
<1>7. Unseen' BY <1>1 DEF Waiting, Unseen
<1>. DEFINE s == asked[r]
            t == asked'[r]
            n == Len(s)
<1>8. /\ n \in Nat /\ n # 0 /\ DOMAIN s = 1 .. n /\ Len(t) = n - 1 /\ DOMAIN t = 1 .. n - 1
      /\ \A i \in 1 .. n - 1 : t[i] = s[i + 1]
    <2>1. DOMAIN s = 1 .. n BY Lengths DEF Waiting
    <2>2. Shortened(s, t) BY Serves DEF Waiting
    <2>. QED BY <2>1, <2>2 DEF Shortened
<1>9. /\ \A i \in DOMAIN s :
           /\ s[i].kind = "deploy" => s[i].count = plan[NodeOf(r)]
           /\ s[i].kind = "status" => Made(r) \/ DeployBefore(s, i)
      /\ deployed = loads => Made(r) \/ DeployBefore(s, n + 1)
    BY <1>3, Parts
<1>10. /\ s[1].kind = "deploy" => Made(r)'
       /\ s[1].kind # "deploy" => (Made(r)' <=> Made(r))
       /\ s[1].kind # "deploy" => size'[NodeOf(r)] = size[NodeOf(r)]
    <2>1. s[1].kind = "deploy" => s[1].count = plan[NodeOf(r)] BY <1>8, <1>9
    <2>. QED BY <1>1, <1>3, <2>1, ServeMakes DEF Made
<1>11. \A q \in Current \ {r} : Made(q)' <=> Made(q) BY <1>1, <1>3, ServeMakes DEF Made
<1>12. /\ \A i \in DOMAIN t :
            /\ t[i].kind = "deploy" => t[i].count = plan[NodeOf(r)]
            /\ t[i].kind = "status" => Made(r)' \/ DeployBefore(t, i)
       /\ deployed = loads => Made(r)' \/ DeployBefore(t, Len(t) + 1)
    <2>. HIDE DEF s, t, n
    <2>1. \A i \in Int : DeployBefore(s, i + 1) => DeployBefore(t, i) \/ s[1].kind = "deploy"
        BY <1>8, ShortenedDeploys
    <2>2. ASSUME NEW i \in DOMAIN t
          PROVE  /\ t[i].kind = "deploy" => t[i].count = plan[NodeOf(r)]
                 /\ t[i].kind = "status" => Made(r)' \/ DeployBefore(t, i)
        <3>1. i \in Int /\ i + 1 \in DOMAIN s /\ t[i] = s[i + 1] BY <1>8, <2>2
        <3>2. t[i].kind = "status" => Made(r) \/ DeployBefore(s, i + 1) BY <1>9, <3>1
        <3>. QED BY <3>1, <3>2, <1>9, <1>10, <2>1
    <2>3. deployed = loads => Made(r)' \/ DeployBefore(t, Len(t) + 1)
        <3>1. n \in Int /\ Len(t) + 1 = n BY <1>8
        <3>. QED BY <3>1, <1>9, <1>10, <2>1
    <2>. QED BY <2>2, <2>3
<1>13. \A i \in DOMAIN answers'[r] :
          answers'[r][i].kind = "status" => answers'[r][i].count = plan[NodeOf(r)]
    <2>. DEFINE e == [kind |-> s[1].kind, count |-> size'[NodeOf(r)]]
                u == answers[r]
                v == answers'[r]
    <2>1. Extended(u, e, v) BY Serves DEF Waiting
    <2>2. Len(u) \in Nat /\ DOMAIN u = 1 .. Len(u) BY Lengths DEF Waiting
    <2>3. \A i \in DOMAIN u : u[i].kind = "status" => u[i].count = plan[NodeOf(r)]
        BY <1>3, Parts
    <2>4. ~DeployBefore(s, 1)
        <3>. HIDE DEF s, t, n
        <3>. QED BY <1>8, ShortenedDeploys
    <2>5. 1 \in DOMAIN s BY <1>8
    <2>6. s[1].kind = "status" => Made(r)
        BY <1>9, <2>4, <2>5
    <2>7. e.kind = "status" => e.count = plan[NodeOf(r)] BY <1>10, <2>6 DEF Made
    <2>8. \A i \in DOMAIN v : v[i] = e \/ \E j \in DOMAIN u : v[i] = u[j]
        <3>. HIDE DEF e, u, v
        <3>. QED BY <2>1, <2>2, ExtendedHas
    <2>. HIDE DEF e, u
    <2>. QED BY <2>3, <2>7, <2>8
<1>14. Sized'
    <2>1. ASSUME NEW q \in Current
          PROVE  /\ \A i \in DOMAIN asked'[q] :
                      /\ asked'[q][i].kind = "deploy" => asked'[q][i].count = plan[NodeOf(q)]
                      /\ asked'[q][i].kind = "status" => Made(q)' \/ DeployBefore(asked'[q], i)
                 /\ deployed = loads => Made(q)' \/ DeployBefore(asked'[q], Len(asked'[q]) + 1)
                 /\ \A i \in DOMAIN answers'[q] :
                       answers'[q][i].kind = "status" => answers'[q][i].count = plan[NodeOf(q)]
        <3>1. CASE q = r
            <4>. HIDE DEF n
            <4>. QED BY <3>1, <1>12, <1>13
        <3>2. CASE q # r
            <4>1. q \in Remotes BY Parts
            <4>2. asked'[q] = asked[q] /\ answers'[q] = answers[q] BY <1>4, <3>2, <4>1
            <4>3. Made(q)' <=> Made(q) BY <1>11, <3>2
            <4>. QED BY <4>2, <4>3, Parts
        <3>. QED BY <3>1, <3>2
    <2>. HIDE DEF s, t, n
    <2>2. \A q \in Current : \A i \in DOMAIN events :
              events[i].kind = "status" /\ events[i].of = q => events[i].count = plan[NodeOf(q)]
        BY DEF Waiting, Sized
    <2>3. \A q \in Current : rows[q] \in {0, plan[NodeOf(q)]} BY Parts
    <2>. QED BY <1>1, <1>2, <2>1, <2>2, <2>3 DEF Sized
<1>. QED BY <1>5, <1>6, <1>7, <1>14

\* The part of Sized that speaks of requests, when these and the nodes stay.
LEMMA SizedNext ==
    ASSUME Waiting,
           UNCHANGED <<loads, plan, size, deployed, asked>>,
           \A r \in Current : \A i \in DOMAIN answers'[r] :
               answers'[r][i].kind = "status" => answers'[r][i].count = plan[NodeOf(r)],
           \A i \in DOMAIN events' : events'[i].kind = "status" =>
               events'[i].count = plan[NodeOf(events'[i].of)],
           \A r \in Current : rows'[r] \in {0, plan[NodeOf(r)]}
    PROVE  Sized'
<1>1. Current' = Current BY DEF Current
<1>2. \A r \in Current : Made(r)' <=> Made(r) BY DEF Made
<1>3. \A r \in Current :
        /\ \A i \in DOMAIN asked[r] :
            /\ asked[r][i].kind = "deploy" => asked[r][i].count = plan[NodeOf(r)]
            /\ asked[r][i].kind = "status" => Made(r)' \/ DeployBefore(asked[r], i)
        /\ deployed = loads => Made(r)' \/ DeployBefore(asked[r], Len(asked[r]) + 1)
    BY <1>2, Parts
<1>. QED BY <1>1, <1>3, Zenon DEF Sized

LEMMA EventsSized ==
    ASSUME Waiting, NEW i \in DOMAIN events, events[i].kind = "status"
    PROVE  events[i].count = plan[NodeOf(events[i].of)]
<1>1. events[i].of \in Current BY WaitingMeans
<1>. QED BY <1>1 DEF Waiting, Sized

LEMMA PatientFinish ==
    ASSUME Waiting, NEW r \in Remotes, Finish(r)
    PROVE  Attended' /\ DeployAnswered' /\ Sized' /\ Unseen'
<1>1. r \in Current /\ link[r] = "up" BY WaitingMeans DEF Finish
<1>2. /\ loads' = loads /\ plan' = plan /\ deploying' = deploying /\ asked' = asked
      /\ link' = link /\ rows' = rows /\ deployed' = deployed /\ fault' = fault /\ size' = size
    BY <1>1 DEF Finish, window, nodeVars
<1>3. Current' = Current BY <1>2 DEF Current
<1>4. \A q \in Remotes \ {r} : answers'[q] = answers[q] BY Finishes DEF Waiting
<1>5. Attended'
    <2>1. Sane' /\ deployed' <= loads' BY <1>2, WaitingMeans DEF Sane
    <2>2. \A q \in Remotes : Awaits(q)' => q \in Current /\ link[q] = "up"
        BY <1>1, <1>2, <1>4, WaitingMeans DEF Awaits
    <2>3. \A i \in DOMAIN events' : events'[i].of \in Current
        <3>. SUFFICES ASSUME NEW i \in DOMAIN events' PROVE events'[i].of \in Current OBVIOUS
        <3>1. events'[i].of = r \/ \E j \in DOMAIN events : events'[i] = events[j]
            BY Finished DEF Waiting
        <3>. QED BY <1>1, <3>1, WaitingMeans
    <2>. QED BY <1>2, <1>3, <2>1, <2>2, <2>3 DEF Waiting, Attended
<1>6. DeployAnswered'
    <2>1. \A i \in DOMAIN answers'[r] : answers'[r][i].kind = "deploy" => deployed = loads
        BY Finished, AnsweredMeans DEF Waiting
    <2>2. \A i \in DOMAIN events' : events'[i].kind = "deploy" => deployed = loads
        <3>. SUFFICES ASSUME NEW i \in DOMAIN events', events'[i].kind = "deploy"
                      PROVE  deployed = loads
            OBVIOUS
        <3>1. CASE \E j \in DOMAIN answers[r] :
                events'[i] = [of |-> r, kind |-> answers[r][j].kind, count |-> answers[r][j].count]
            BY <3>1, AnsweredMeans
        <3>2. CASE \E j \in DOMAIN events : events'[i] = events[j] BY <3>2, AnsweredMeans
        <3>. QED BY <3>1, <3>2, Finished DEF Waiting
    <2>3. \A q \in Remotes : \A i \in DOMAIN answers'[q] :
              answers'[q][i].kind = "deploy" => deployed = loads
        BY <1>4, <2>1, AnsweredMeans
    <2>. QED BY <1>2, <2>2, <2>3, AnsweredMeans, AnsweredNext
<1>7. Unseen' BY <1>2 DEF Waiting, Unseen
<1>8. Sized'
    <2>1. \A i \in DOMAIN answers'[r] :
              answers'[r][i].kind = "status" => answers'[r][i].count = plan[NodeOf(r)]
        BY <1>1, Finished, Parts DEF Waiting
    <2>2. \A q \in Current : \A i \in DOMAIN answers'[q] :
              answers'[q][i].kind = "status" => answers'[q][i].count = plan[NodeOf(q)]
        BY <1>4, <2>1, Parts
    <2>3. \A i \in DOMAIN events' : events'[i].kind = "status" =>
              events'[i].count = plan[NodeOf(events'[i].of)]
        <3>. SUFFICES ASSUME NEW i \in DOMAIN events', events'[i].kind = "status"
                      PROVE  events'[i].count = plan[NodeOf(events'[i].of)]
            OBVIOUS
        <3>1. CASE \E j \in DOMAIN answers[r] :
                events'[i] = [of |-> r, kind |-> answers[r][j].kind, count |-> answers[r][j].count]
            BY <1>1, <3>1, Parts
        <3>2. CASE \E j \in DOMAIN events : events'[i] = events[j] BY <3>2, EventsSized
        <3>. QED BY <3>1, <3>2, Finished DEF Waiting
    <2>4. \A q \in Current : rows'[q] \in {0, plan[NodeOf(q)]} BY <1>2, Parts
    <2>. QED BY <1>2, <2>2, <2>3, <2>4, SizedNext
<1>. QED BY <1>5, <1>6, <1>7, <1>8

\* While a RemoteNode dials, the schema has not been deployed and nothing was asked.
LEMMA PatientDials ==
    ASSUME Waiting, NEW r \in Remotes, Connects(r) \/ ConnectFails(r) \/ Redials(r)
    PROVE  Attended' /\ DeployAnswered' /\ Sized' /\ Unseen'
<1>1. /\ r \in Current /\ asked[r] = <<>> /\ answers[r] = <<>>
      /\ deployed # loads /\ deploying /\ Sane /\ deployed <= loads
    BY WaitingMeans DEF Connects, ConnectFails, Redials
<1>2. asked' = asked
    BY <1>1 DEF Connects, ConnectFails, Redials, Waiting, TypeInv, TypeOK
<1>3. /\ loads' = loads /\ plan' = plan /\ deploying' = deploying /\ answers' = answers
      /\ rows' = rows /\ deployed' = deployed /\ fault' = fault /\ size' = size
    BY DEF Connects, ConnectFails, Redials, window, nodeVars
<1>4. Current' = Current BY <1>3 DEF Current
<1>5. \A q \in Remotes \ {r} : link'[q] = link[q]
    BY DEF Connects, ConnectFails, Redials, Waiting, TypeInv, TypeOK
<1>6. \A i \in DOMAIN events' :
          \/ events'[i].of = r /\ events'[i].kind \in {"connected", "failed"}
          \/ \E j \in DOMAIN events : events'[i] = events[j]
    <2>1. CASE Connects(r) \/ ConnectFails(r) BY <1>1, <2>1, Dialled DEF Waiting
    <2>2. CASE Redials(r)
        <3>1. events' = events BY <2>2 DEF Redials
        <3>. QED BY <3>1
    <2>. QED BY <2>1, <2>2
<1>7. Attended'
    <2>1. \A q \in Remotes : Awaits(q)' => q \in Current /\ link'[q] = "up"
        BY <1>1, <1>2, <1>3, <1>5, WaitingMeans DEF Awaits
    <2>2. \A q \in Remotes \ Current : link'[q] \in {"none", "gone"}
        BY <1>1, <1>5 DEF Waiting, Attended
    <2>3. \A i \in DOMAIN events' : events'[i].of \in Current
        BY <1>1, <1>6, WaitingMeans
    <2>. QED BY <1>1, <1>3, <1>4, <2>1, <2>2, <2>3 DEF Attended, Sane
<1>8. DeployAnswered'
    <2>1. \A i \in DOMAIN events' : events'[i].kind = "deploy" => deployed = loads
        BY <1>6, AnsweredMeans
    <2>. QED BY <1>2, <1>3, <2>1, AnsweredMeans, AnsweredNext
<1>9. Unseen' BY <1>3 DEF Waiting, Unseen
<1>10. Sized'
    <2>1. \A i \in DOMAIN events' : events'[i].kind = "status" =>
              events'[i].count = plan[NodeOf(events'[i].of)]
        BY <1>6, EventsSized
    <2>2. \A q \in Current : rows'[q] \in {0, plan[NodeOf(q)]} BY <1>3, Parts
    <2>3. \A q \in Current : \A i \in DOMAIN answers'[q] :
              answers'[q][i].kind = "status" => answers'[q][i].count = plan[NodeOf(q)]
        BY <1>3, Parts
    <2>. QED BY <1>2, <1>3, <2>1, <2>2, <2>3, SizedNext
<1>. QED BY <1>7, <1>8, <1>9, <1>10

\* The signal at hand is about the window, so that nothing goes wrong.
LEMMA PatientSignal ==
    ASSUME Waiting, Gui
    PROVE  /\ Sane' /\ events[1].of \in Current /\ 1 \in DOMAIN events
           /\ \A i \in DOMAIN events' : \E j \in DOMAIN events : events'[i] = events[j]
           /\ UNCHANGED <<loads, plan, asked, answers, link, size, deployed>>
           /\ (deploying' = deploying) \/ events[1].kind = "deploy"
           /\ \A r \in Remotes : rows'[r] = rows[r] \/ /\ r = events[1].of
                                                       /\ events[1].kind = "status"
                                                       /\ rows'[r] = events[1].count
<1>1. PICK K : Signal(K) BY DEF Gui, OnConnected, OnDeployed, OnCommanded, OnStatus
<1>2. /\ Shortened(events, events') /\ Head(events) = events[1] /\ 1 \in DOMAIN events
      /\ events[1].of \in Remotes /\ events[1].count \in 0 .. MaxSize
    BY <1>1, SignalTakes DEF Waiting
<1>3. events[1].of \in Current BY <1>2, WaitingMeans
<1>4. Exists(events[1].of) /\ Shown(events[1].of) = "none" /\ Logged(events[1].of) = "none"
    BY <1>3 DEF Exists, Shown, Logged
<1>5. \A i \in DOMAIN events' : \E j \in DOMAIN events : events'[i] = events[j]
    BY <1>2, EventsLeft DEF Waiting
<1>6. UNCHANGED <<loads, plan, asked, answers, link, size, deployed>>
    BY DEF Gui, OnConnected, OnDeployed, OnCommanded, OnStatus, window, nodeVars
<1>7. Sane /\ rows \in [Remotes -> 0 .. MaxSize] BY WaitingMeans DEF Waiting, TypeInv, TypeOK
<1>8. CASE OnConnected
    <2>1. Sane' BY <1>2, <1>4, <1>8 DEF OnConnected, Sane
    <2>2. deploying' = deploying /\ rows' = rows BY <1>8 DEF OnConnected
    <2>. QED BY <1>2, <1>3, <1>5, <1>6, <2>1, <2>2
<1>9. CASE OnDeployed
    <2>1. Sane' BY <1>2, <1>4, <1>9 DEF OnDeployed, Sane
    <2>2. deploying' = FALSE /\ rows' = rows BY <1>9 DEF OnDeployed
    <2>3. events[1].kind = "deploy" BY <1>2, <1>9 DEF OnDeployed, Signal
    <2>. QED BY <1>2, <1>3, <1>5, <1>6, <2>1, <2>2, <2>3
<1>10. CASE OnCommanded
    <2>1. Sane' BY <1>2, <1>4, <1>10 DEF OnCommanded, Sane
    <2>2. deploying' = deploying /\ rows' = rows BY <1>10 DEF OnCommanded, window
    <2>. QED BY <1>2, <1>3, <1>5, <1>6, <2>1, <2>2
<1>11. CASE OnStatus
    <2>. DEFINE r == events[1].of
                c == events[1].count
    <2>1. events[1].kind = "status" BY <1>2, <1>11 DEF OnStatus, Signal
    <2>2. /\ rows' = IF rows[r] = 0 THEN [rows EXCEPT ![r] = c] ELSE rows
          /\ fault' = IF c > rows'[r] THEN "row" ELSE "none"
        BY <1>2, <1>4, <1>11 DEF OnStatus
    <2>3. c = plan[NodeOf(r)] /\ rows[r] \in {0, c}
        BY <1>2, <1>3, <2>1, EventsSized, Parts
    <2>4. r \in Remotes /\ c \in Int BY <1>2
    <2>. HIDE DEF r, c
    <2>5. rows'[r] = c BY <1>7, <2>2, <2>3, <2>4
    <2>6. Sane' BY <2>2, <2>4, <2>5 DEF Sane
    <2>7. \A q \in Remotes : rows'[q] = rows[q] \/ (q = r /\ rows'[q] = c)
        BY <1>7, <2>2, <2>4
    <2>8. deploying' = deploying BY <1>11 DEF OnStatus, window
    <2>. QED BY <1>2, <1>3, <1>5, <1>6, <2>1, <2>6, <2>7, <2>8 DEF r, c
<1>. QED BY <1>8, <1>9, <1>10, <1>11 DEF Gui

LEMMA PatientGui ==
    ASSUME Waiting, Gui
    PROVE  Attended' /\ DeployAnswered' /\ Sized' /\ Unseen'
<1>1. Current' = Current BY PatientSignal DEF Current
<1>2. \A i \in DOMAIN events' : \E j \in DOMAIN events : events'[i] = events[j]
    BY PatientSignal
<1>3. /\ loads' = loads /\ plan' = plan /\ asked' = asked /\ answers' = answers
      /\ link' = link /\ size' = size /\ deployed' = deployed
    BY PatientSignal
<1>4. Attended'
    <2>1. Sane' /\ deployed' <= loads' BY <1>3, PatientSignal, WaitingMeans
    <2>2. \A i \in DOMAIN events' : events'[i].of \in Current BY <1>2, WaitingMeans
    <2>. QED BY <1>1, <1>3, <2>1, <2>2 DEF Waiting, Attended, Awaits
<1>5. DeployAnswered'
    <2>1. \A i \in DOMAIN events' : events'[i].kind = "deploy" => deployed = loads
        BY <1>2, AnsweredMeans
    <2>2. ~deploying' => deployed = loads BY PatientSignal, AnsweredMeans
    <2>. QED BY <1>3, <2>1, <2>2, AnsweredMeans, AnsweredNext
<1>6. \A r \in Current : rows'[r] \in {0, plan[NodeOf(r)]}
    <2>. SUFFICES ASSUME NEW r \in Current PROVE rows'[r] \in {0, plan[NodeOf(r)]} OBVIOUS
    <2>1. r \in Remotes /\ rows[r] \in {0, plan[NodeOf(r)]} BY Parts
    <2>2. CASE rows'[r] = rows[r] BY <2>1, <2>2
    <2>3. CASE /\ r = events[1].of /\ events[1].kind = "status"
               /\ rows'[r] = events[1].count
        BY <2>3, PatientSignal, EventsSized
    <2>. QED BY <2>1, <2>2, <2>3, PatientSignal
<1>7. Sized'
    <2>1. \A i \in DOMAIN events' : events'[i].kind = "status" =>
              events'[i].count = plan[NodeOf(events'[i].of)]
        BY <1>2, EventsSized
    <2>2. \A r \in Current : \A i \in DOMAIN answers'[r] :
              answers'[r][i].kind = "status" => answers'[r][i].count = plan[NodeOf(r)]
        BY <1>3, Parts
    <2>. QED BY <1>3, <1>6, <2>1, <2>2, SizedNext
<1>8. Unseen'
    <2>. SUFFICES ASSUME NEW r \in Remotes, r[1] > loads' PROVE rows'[r] = 0 BY DEF Unseen
    <2>1. rows[r] = 0 BY <1>3 DEF Waiting, Unseen
    <2>2. r \notin Current
        <3>1. loads \in Nat BY DEF Waiting, TypeInv, TypeOK
        <3>. QED BY <1>3, <3>1 DEF Current
    <2>3. r # events[1].of BY <2>2, PatientSignal
    <2>. QED BY <2>1, <2>3, PatientSignal
<1>. QED BY <1>4, <1>5, <1>7, <1>8

\* Clicks and polls of the patient user.
LEMMA PatientClicks ==
    ASSUME Waiting, Deploy \/ Start \/ Stop \/ Poll
    PROVE  Attended' /\ DeployAnswered' /\ Sized' /\ Unseen'
<1>1. CASE Deploy
    <2>1. Current \in SUBSET Current /\ "deploy" \in Commands BY DEF Commands
    <2>2. \A r \in Current : link[r] = "up" BY <1>1, CalmMeans DEF Deploy, Clicks
    <2>3. /\ Asks("deploy", Current) /\ deployed' = loads
          /\ UNCHANGED <<user, loads, plan, deploying, events, link, answers, rows, size, fault>>
        BY <1>1 DEF Deploy, nodeVars
    <2>. QED BY <2>1, <2>2, <2>3, PatientAsks
<1>2. CASE Start
    <2>1. Current \in SUBSET Current /\ "start" \in Commands BY DEF Commands
    <2>2. \A r \in Current : link[r] = "up" BY <1>2, CalmMeans DEF Start, Clicks
    <2>3. /\ Asks("start", Current) /\ deployed' = deployed
          /\ UNCHANGED <<user, loads, plan, deploying, events, link, answers, rows, size, fault>>
        BY <1>2 DEF Start, nodeVars
    <2>. QED BY <2>1, <2>2, <2>3, PatientAsks
<1>3. CASE Stop
    <2>1. Current \in SUBSET Current /\ "stop" \in Commands BY DEF Commands
    <2>2. \A r \in Current : link[r] = "up" BY <1>3, CalmMeans DEF Stop, Clicks
    <2>3. /\ Asks("stop", Current) /\ deployed' = deployed
          /\ UNCHANGED <<user, loads, plan, deploying, events, link, answers, rows, size, fault>>
        BY <1>3 DEF Stop, nodeVars
    <2>. QED BY <2>1, <2>2, <2>3, PatientAsks
<1>4. CASE Poll
    <2>. DEFINE S == {r \in Current : ~Polled(r)}
    <2>1. S \in SUBSET Current /\ "status" \in Commands BY DEF Commands
    <2>2. /\ Asks("status", S) /\ deployed' = deployed /\ ~deploying
          /\ UNCHANGED <<user, loads, plan, deploying, events, link, answers, rows, size, fault>>
        BY <1>4 DEF Poll, nodeVars, window
    <2>3. deployed = loads BY <2>2, AnsweredMeans
    <2>4. \A r \in Current : link[r] = "up" BY <2>3 DEF Waiting, Attended
    <2>. HIDE DEF S
    <2>. QED BY <2>1, <2>2, <2>3, <2>4, PatientAsks
<1>. QED BY <1>1, <1>2, <1>3, <1>4

LEMMA PatientInit == Init => PatientInv
<1>. SUFFICES ASSUME Init PROVE Attended /\ DeployAnswered /\ Sized /\ Unseen BY DEF PatientInv
<1>1. /\ loads = 0 /\ deployed = 0 /\ events = <<>> /\ Sane
      /\ DOMAIN plan = {}
      /\ \A r \in Remotes : /\ asked[r] = <<>> /\ answers[r] = <<>>
                            /\ link[r] = "none" /\ rows[r] = 0
    BY DEF Init, Sane
<1>2. Current = {} BY <1>1 DEF Current
<1>. QED BY <1>1, <1>2 DEF Attended, DeployAnswered, Sized, Unseen, Awaits

LEMMA PatientStep ==
    TypeInv /\ PatientInv /\ [Next]_vars => PatientInv'
<1>. SUFFICES ASSUME TypeInv, PatientInv, [Next]_vars, user'.patient
              PROVE  Attended' /\ DeployAnswered' /\ Sized' /\ Unseen'
    BY DEF PatientInv
<1>1. user' = user
    BY DEF Next, vars, window, Load, Deploy, Start, Stop, Poll, Connects, ConnectFails, Redials,
           Serve, Finish, Gui, OnConnected, OnDeployed, OnCommanded, OnStatus
<1>2. Waiting BY <1>1 DEF Waiting, PatientInv
<1>3. ASSUME NEW p \in user.plans, Load(p)
      PROVE Attended' /\ DeployAnswered' /\ Sized' /\ Unseen'
    BY <1>2, <1>3, PatientLoad
<1>4. CASE Deploy \/ Start \/ Stop \/ Poll BY <1>2, <1>4, PatientClicks
<1>5. ASSUME NEW r \in Remotes, Connects(r) \/ ConnectFails(r) \/ Redials(r)
      PROVE Attended' /\ DeployAnswered' /\ Sized' /\ Unseen'
    BY <1>2, <1>5, PatientDials
<1>6. ASSUME NEW r \in Remotes, Serve(r)
      PROVE Attended' /\ DeployAnswered' /\ Sized' /\ Unseen'
    BY <1>2, <1>6, PatientServe
<1>7. ASSUME NEW r \in Remotes, Finish(r)
      PROVE Attended' /\ DeployAnswered' /\ Sized' /\ Unseen'
    BY <1>2, <1>7, PatientFinish
<1>8. CASE Gui BY <1>2, <1>8, PatientGui
<1>9. CASE UNCHANGED vars
    <2>1. /\ loads' = loads /\ plan' = plan /\ deploying' = deploying /\ events' = events
          /\ link' = link /\ asked' = asked /\ answers' = answers /\ rows' = rows
          /\ size' = size /\ deployed' = deployed /\ fault' = fault
        BY <1>9 DEF vars, window, nodeVars
    <2>2. Current' = Current BY <2>1 DEF Current
    <2>3. Attended' BY <1>2, <2>1, <2>2 DEF Waiting, Attended, Awaits, Sane
    <2>4. DeployAnswered' BY <1>2, <2>1 DEF Waiting, DeployAnswered
    <2>5. Sized' BY <1>2, <2>1, <2>2 DEF Waiting, Sized, Made
    <2>6. Unseen' BY <1>2, <2>1 DEF Waiting, Unseen
    <2>. QED BY <2>3, <2>4, <2>5, <2>6
<1>. QED BY <1>3, <1>4, <1>5, <1>6, <1>7, <1>8, <1>9 DEF Next

\* A patient user never brings the GUI thread to look up a RemoteNode it does not show,
\* to use a sender that is gone or to write beyond the rows.
THEOREM PatienceIsSafe == Spec => []PatientSafe
<1>1. PatientInv => PatientSafe BY DEF PatientInv, Attended, PatientSafe
<1>. QED BY <1>1, TypeInit, TypeStep, PatientInit, PatientStep, PTL DEF Spec

\* Once the answers are in, every node has the components of the schema that a patient
\* user deployed last.
THEOREM DeploymentsArrive == Spec => []LastDeployed
<1>1. TypeInv /\ PatientInv => LastDeployed
    <2>. SUFFICES ASSUME TypeInv, PatientInv, user.patient, Settled, deployed = loads,
                         NEW r \in Current
                  PROVE  size[NodeOf(r)] = plan[NodeOf(r)]
        BY DEF LastDeployed
    <2>1. Waiting BY DEF Waiting, PatientInv
    <2>2. r \in Remotes BY CurrentRemotes
    <2>3. \A i \in DOMAIN asked[r] : asked[r][i].kind = "status" BY <2>2 DEF Settled
    <2>4. ~DeployBefore(asked[r], Len(asked[r]) + 1) BY <2>3 DEF DeployBefore
    <2>. QED BY <2>1, <2>4, Parts DEF Made
<1>. QED BY <1>1, TypeInit, TypeStep, PatientInit, PatientStep, PTL DEF Spec

-----------------------------------------------------------------------------
(* What the buttons tell *)

\* The schemas that a patient user loads are about the same nodes.
SameNodes ==
    \A u \in Users : u.patient => \A p, q \in u.plans : DOMAIN p = DOMAIN q

Watching == Waiting /\ ButtonInv

LEMMA ObeyMeans ==
    ASSUME Watching, NEW r \in Current
    PROVE  /\ \A i \in DOMAIN asked[r] :
                /\ asked[r][i].kind = "start" => "stop" \in buttons
                /\ asked[r][i].kind = "stop" => "stop" \notin buttons
           /\ (\A i \in DOMAIN asked[r] : asked[r][i].kind \notin {"start", "stop"}) =>
                  (on[NodeOf(r)] <=> "stop" \in buttons)
           /\ loads # 0
<1>1. loads = 0 => Current = {} BY DEF Watching, Waiting, TypeInv, Current
<1>2. Obeys BY DEF Watching, Waiting, ButtonInv
<1>. QED BY <1>1, <1>2 DEF Obeys

LEMMA ObeysLoad ==
    ASSUME Watching, SameNodes, NEW p \in user.plans, Load(p) PROVE ButtonInv'
<1>1. \A r \in Remotes : asked[r] = <<>> BY CalmMeans DEF Watching, Load
<1>2. /\ loads' = loads + 1 /\ plan' = p /\ asked' = asked /\ buttons' = buttons
      /\ on' = on /\ user' = user
    BY DEF Load, nodeVars
<1>3. user \in Users /\ user.patient /\ loads' # 0
    BY <1>2 DEF Watching, Waiting, TypeInv, TypeOK
<1>4. DOMAIN p \subseteq Nodes BY <1>3, TerminalAssumption
<1>5. \A n \in DOMAIN p : on[n] <=> "stop" \in buttons
    <2>. SUFFICES ASSUME NEW n \in DOMAIN p PROVE on[n] <=> "stop" \in buttons OBVIOUS
    <2>1. CASE loads = 0
        <3>1. buttons = {} /\ ~on[n] BY <1>3, <1>4, <2>1 DEF Watching, ButtonInv
        <3>. QED BY <3>1
    <2>2. CASE loads # 0
        <3>1. plan \in user.plans BY <1>3, <2>2 DEF Watching, ButtonInv
        <3>2. DOMAIN plan = DOMAIN p BY <1>3, <3>1 DEF SameNodes
        <3>3. <<loads, n>> \in Current /\ NodeOf(<<loads, n>>) = n BY <3>2 DEF Current, NodeOf
        <3>4. <<loads, n>> \in Remotes BY <3>3, Parts DEF Watching
        <3>5. asked[<<loads, n>>] = <<>> BY <1>1, <3>4
        <3>6. \A i \in DOMAIN asked[<<loads, n>>] :
                  asked[<<loads, n>>][i].kind \notin {"start", "stop"}
            BY <3>5
        <3>. QED BY <3>3, <3>6, ObeyMeans
    <2>. QED BY <2>1, <2>2
<1>6. \A r \in Current' : r \in Remotes /\ NodeOf(r) \in DOMAIN p
    <2>1. loads' \in Loads
        BY <1>2, TypeLoad, TerminalAssumption DEF Watching, Waiting, TypeInv, TypeOK, Loads
    <2>. QED BY <1>2, <1>4, <2>1 DEF Current, Remotes, NodeOf
<1>7. Obeys' BY <1>1, <1>2, <1>5, <1>6 DEF Obeys
<1>. QED BY <1>2, <1>3, <1>7 DEF ButtonInv

\* A click or a poll, when it is told what became of the buttons.
LEMMA ObeysAsks ==
    ASSUME Watching, NEW kind \in Commands, NEW S \in SUBSET Current, Asks(kind, S),
           \A r \in Current : link[r] = "up", kind \in {"start", "stop"} => S = Current,
           kind \in {"start", "stop"} => \A r \in Remotes : asked[r] = <<>>,
           UNCHANGED <<user, loads, plan, on>>,
           CASE kind = "start" -> "stop" \in buttons'
             [] kind = "stop" -> "stop" \notin buttons'
             [] OTHER -> "stop" \in buttons' <=> "stop" \in buttons,
           loads = 0 => buttons' = {}
    PROVE  ButtonInv'
<1>1. Current' = Current BY DEF Current
<1>2. ASSUME NEW r \in Current
      PROVE  /\ \A i \in DOMAIN asked'[r] :
                /\ asked'[r][i].kind = "start" => "stop" \in buttons'
                /\ asked'[r][i].kind = "stop" => "stop" \notin buttons'
             /\ (\A i \in DOMAIN asked'[r] : asked'[r][i].kind \notin {"start", "stop"}) =>
                    (on[NodeOf(r)] <=> "stop" \in buttons')
    <2>1. r \in Remotes BY Parts DEF Watching
    <2>2. Len(asked[r]) \in Nat /\ DOMAIN asked[r] = 1 .. Len(asked[r])
        BY <2>1, Lengths DEF Watching, Waiting
    <2>3. \A i \in DOMAIN asked'[r] :
              \/ r \in S /\ asked'[r][i] = Ask(r, kind)
              \/ \E j \in DOMAIN asked[r] : asked'[r][i] = asked[r][j]
        BY <2>1, AsksHas DEF Watching, Waiting
    <2>4. /\ r \notin S => asked'[r] = asked[r]
          /\ r \in S => Extended(asked[r], Ask(r, kind), asked'[r])
        BY <2>1, AsksSends DEF Watching, Waiting
    <2>5. Ask(r, kind).kind = kind BY DEF Ask
    <2>6. CASE kind \in {"start", "stop"}
        <3>1. asked[r] = <<>> /\ r \in S BY <2>1, <2>6
        <3>2. DOMAIN asked[r] = {} BY <3>1
        <3>3. \A i \in DOMAIN asked'[r] : asked'[r][i].kind = kind BY <2>3, <2>5, <3>2
        <3>4. \E i \in DOMAIN asked'[r] : asked'[r][i].kind = kind
            BY <2>2, <2>4, <2>5, <3>1 DEF Extended
        <3>5. kind = "start" => "stop" \in buttons' OBVIOUS
        <3>6. kind = "stop" => "stop" \notin buttons' OBVIOUS
        <3>. QED BY <2>6, <3>3, <3>4, <3>5, <3>6
    <2>7. CASE kind \notin {"start", "stop"}
        <3>1. "stop" \in buttons' <=> "stop" \in buttons BY <2>7
        <3>2. ASSUME NEW i \in DOMAIN asked'[r], asked'[r][i].kind \in {"start", "stop"}
              PROVE  \E j \in DOMAIN asked[r] : asked'[r][i] = asked[r][j]
            BY <2>3, <2>5, <2>7, <3>2
        <3>3. ASSUME NEW j \in DOMAIN asked[r]
              PROVE  \E i \in DOMAIN asked'[r] : asked'[r][i] = asked[r][j]
            <4>1. CASE r \notin S BY <2>4, <4>1
            <4>2. CASE r \in S
                <5>1. j \in DOMAIN asked'[r] /\ asked'[r][j] = asked[r][j]
                    BY <2>2, <2>4, <4>2 DEF Extended
                <5>. QED BY <5>1
            <4>. QED BY <4>1, <4>2
        <3>4. (\A i \in DOMAIN asked'[r] : asked'[r][i].kind \notin {"start", "stop"}) =>
                  \A j \in DOMAIN asked[r] : asked[r][j].kind \notin {"start", "stop"}
            BY <3>3
        <3>5. \A i \in DOMAIN asked'[r] :
                  /\ asked'[r][i].kind = "start" => "stop" \in buttons
                  /\ asked'[r][i].kind = "stop" => "stop" \notin buttons
            BY <3>2, ObeyMeans
        <3>. QED BY <3>1, <3>4, <3>5, ObeyMeans
    <2>. QED BY <2>6, <2>7
<1>3. Obeys' BY <1>1, <1>2 DEF Obeys
<1>. QED BY <1>3 DEF ButtonInv, Watching, Waiting

LEMMA ObeysClicks ==
    ASSUME Watching, Deploy \/ Start \/ Stop \/ Poll PROVE ButtonInv'
<1>0. loads = 0 => buttons = {} BY DEF Watching, Waiting, ButtonInv
<1>1. CASE Deploy
    <2>1. Current \in SUBSET Current /\ "deploy" \in Commands BY DEF Commands
    <2>2. \A r \in Current : link[r] = "up" BY <1>1, CalmMeans DEF Deploy, Clicks, Watching
    <2>3. Asks("deploy", Current) /\ UNCHANGED <<user, loads, plan, on>>
        BY <1>1 DEF Deploy, nodeVars
    <2>4. "stop" \in buttons' <=> "stop" \in buttons BY <1>1 DEF Deploy
    <2>5. loads # 0 BY <1>0, <1>1 DEF Deploy, Clicks
    <2>. QED BY <2>1, <2>2, <2>3, <2>4, <2>5, ObeysAsks
<1>2. CASE Start
    <2>1. Current \in SUBSET Current /\ "start" \in Commands BY DEF Commands
    <2>2. /\ \A r \in Current : link[r] = "up"
          /\ \A r \in Remotes : asked[r] = <<>>
        BY <1>2, CalmMeans DEF Start, Clicks, Watching
    <2>3. Asks("start", Current) /\ UNCHANGED <<user, loads, plan, on>>
        BY <1>2 DEF Start, nodeVars
    <2>4. "stop" \in buttons' BY <1>2 DEF Start
    <2>5. loads # 0 BY <1>0, <1>2 DEF Start, Clicks
    <2>. QED BY <2>1, <2>2, <2>3, <2>4, <2>5, ObeysAsks
<1>3. CASE Stop
    <2>1. Current \in SUBSET Current /\ "stop" \in Commands BY DEF Commands
    <2>2. /\ \A r \in Current : link[r] = "up"
          /\ \A r \in Remotes : asked[r] = <<>>
        BY <1>3, CalmMeans DEF Stop, Clicks, Watching
    <2>3. Asks("stop", Current) /\ UNCHANGED <<user, loads, plan, on>>
        BY <1>3 DEF Stop, nodeVars
    <2>4. "stop" \notin buttons' BY <1>3 DEF Stop
    <2>5. loads # 0 BY <1>0, <1>3 DEF Stop, Clicks
    <2>. QED BY <2>1, <2>2, <2>3, <2>4, <2>5, ObeysAsks
<1>4. CASE Poll
    <2>. DEFINE S == {r \in Current : ~Polled(r)}
    <2>1. S \in SUBSET Current /\ "status" \in Commands BY DEF Commands
    <2>2. /\ Asks("status", S) /\ ~deploying
          /\ UNCHANGED <<user, loads, plan, on, buttons>>
        BY <1>4 DEF Poll, nodeVars, window
    <2>3. deployed = loads BY <2>2, AnsweredMeans DEF Watching
    <2>4. \A r \in Current : link[r] = "up" BY <2>3 DEF Watching, Waiting, Attended
    <2>5. "stop" \in buttons' <=> "stop" \in buttons BY <2>2
    <2>6. loads = 0 => buttons' = {} BY <1>0, <2>2
    <2>. HIDE DEF S
    <2>. QED BY <2>1, <2>2, <2>4, <2>5, <2>6, ObeysAsks
<1>. QED BY <1>1, <1>2, <1>3, <1>4

LEMMA ObeysServe ==
    ASSUME Watching, NEW r \in Remotes, Serve(r) PROVE ButtonInv'
<1>1. r \in Current BY WaitingMeans DEF Watching, Serve
<1>2. UNCHANGED <<user, loads, plan, buttons>> BY DEF Serve, window
<1>3. Current' = Current BY <1>2 DEF Current
<1>4. /\ 1 \in DOMAIN asked[r] /\ Head(asked[r]) = asked[r][1]
      /\ Shortened(asked[r], asked'[r]) /\ \A q \in Remotes \ {r} : asked'[q] = asked[q]
    BY Serves DEF Watching, Waiting
<1>5. \A q \in Current : q \in Remotes /\ q = <<loads, NodeOf(q)>> /\ NodeOf(q) \in Nodes
    BY CurrentRemotes DEF Watching, Waiting
<1>6. \A q \in Current \ {r} : NodeOf(q) # NodeOf(r) BY <1>1, <1>5
<1>. DEFINE k == asked[r][1].kind
<1>7. /\ on' = CASE k = "start" -> [on EXCEPT ![NodeOf(r)] = TRUE]
                 [] k = "stop" -> [on EXCEPT ![NodeOf(r)] = FALSE]
                 [] OTHER -> on
      /\ on \in [Nodes -> BOOLEAN]
    BY <1>4 DEF Serve, Watching, Waiting, TypeInv, TypeOK
<1>8. /\ k = "start" => on'[NodeOf(r)]
      /\ k = "stop" => ~on'[NodeOf(r)]
      /\ k \notin {"start", "stop"} => on' = on
      /\ \A q \in Current \ {r} : on'[NodeOf(q)] <=> on[NodeOf(q)]
    <2>1. NodeOf(r) \in Nodes BY <1>1, <1>5
    <2>. HIDE DEF k
    <2>2. k = "start" => on'[NodeOf(r)] BY <1>7, <2>1
    <2>3. k = "stop" => ~on'[NodeOf(r)] BY <1>7, <2>1
    <2>4. k \notin {"start", "stop"} => on' = on BY <1>7
    <2>5. \A q \in Current \ {r} : on'[NodeOf(q)] = on[NodeOf(q)] BY <1>5, <1>6, <1>7, <2>1
    <2>. QED BY <2>2, <2>3, <2>4, <2>5
<1>9. /\ k = "start" => "stop" \in buttons
      /\ k = "stop" => "stop" \notin buttons
    BY <1>1, <1>4, ObeyMeans
<1>10. \A i \in DOMAIN asked'[r] : \E j \in DOMAIN asked[r] : asked'[r][i] = asked[r][j]
    BY Served DEF Watching, Waiting
<1>11. \A i \in DOMAIN asked[r] : i = 1 \/ \E j \in DOMAIN asked'[r] : asked'[r][j] = asked[r][i]
    <2>. SUFFICES ASSUME NEW i \in DOMAIN asked[r], i # 1
                  PROVE  \E j \in DOMAIN asked'[r] : asked'[r][j] = asked[r][i]
        OBVIOUS
    <2>1. DOMAIN asked[r] = 1 .. Len(asked[r]) BY Lengths DEF Watching, Waiting
    <2>2. i - 1 \in DOMAIN asked'[r] /\ asked'[r][i - 1] = asked[r][i]
        BY <1>4, <2>1 DEF Shortened
    <2>. QED BY <2>2
<1>12. ASSUME NEW q \in Current
       PROVE  /\ \A i \in DOMAIN asked'[q] :
                 /\ asked'[q][i].kind = "start" => "stop" \in buttons
                 /\ asked'[q][i].kind = "stop" => "stop" \notin buttons
              /\ (\A i \in DOMAIN asked'[q] : asked'[q][i].kind \notin {"start", "stop"}) =>
                     (on'[NodeOf(q)] <=> "stop" \in buttons)
    <2>1. CASE q # r
        <3>1. asked'[q] = asked[q] BY <1>4, <1>5, <2>1
        <3>2. on'[NodeOf(q)] <=> on[NodeOf(q)] BY <1>8, <2>1
        <3>. QED BY <3>1, <3>2, ObeyMeans
    <2>2. CASE q = r
        <3>1. \A i \in DOMAIN asked'[r] :
                 /\ asked'[r][i].kind = "start" => "stop" \in buttons
                 /\ asked'[r][i].kind = "stop" => "stop" \notin buttons
            BY <1>1, <1>10, ObeyMeans
        <3>2. CASE k \in {"start", "stop"}
            <4>1. on'[NodeOf(r)] <=> "stop" \in buttons BY <1>8, <1>9, <3>2
            <4>. QED BY <2>2, <3>1, <4>1
        <3>3. CASE k \notin {"start", "stop"}
            <4>1. (\A i \in DOMAIN asked'[r] : asked'[r][i].kind \notin {"start", "stop"}) =>
                      \A i \in DOMAIN asked[r] : asked[r][i].kind \notin {"start", "stop"}
                BY <1>11, <3>3
            <4>2. on' = on BY <1>8, <3>3
            <4>. QED BY <1>1, <2>2, <3>1, <4>1, <4>2, ObeyMeans
        <3>. QED BY <3>2, <3>3
    <2>. QED BY <2>1, <2>2
<1>13. Obeys' BY <1>2, <1>3, <1>12 DEF Obeys
<1>14. loads # 0 BY <1>1, ObeyMeans
<1>. QED BY <1>2, <1>13, <1>14 DEF ButtonInv, Watching, Waiting

LEMMA ObeysGui ==
    ASSUME Watching, Gui PROVE ButtonInv'
<1>1. UNCHANGED <<loads, plan, asked>> /\ events[1].of \in Current
    BY PatientSignal DEF Watching
<1>2. UNCHANGED <<user, on>>
    BY DEF Gui, OnConnected, OnDeployed, OnCommanded, OnStatus, window, nodeVars
<1>3. "stop" \in buttons' <=> "stop" \in buttons
    BY DEF Gui, OnConnected, OnDeployed, OnCommanded, OnStatus, window
<1>4. loads # 0 BY <1>1, ObeyMeans
<1>5. Current' = Current BY <1>1 DEF Current
<1>6. Obeys' BY <1>1, <1>2, <1>3, <1>5 DEF Watching, Waiting, ButtonInv, Obeys
<1>. QED BY <1>1, <1>2, <1>4, <1>6 DEF ButtonInv, Watching, Waiting

LEMMA ObeysRest ==
    ASSUME Watching, UNCHANGED <<user, loads, plan, asked, on, buttons>>
    PROVE  ButtonInv'
<1>1. Current' = Current BY DEF Current
<1>. QED BY <1>1 DEF Watching, ButtonInv, Obeys

LEMMA ButtonInit == Init => ButtonInv
<1>. SUFFICES ASSUME Init PROVE ButtonInv OBVIOUS
<1>1. loads = 0 /\ buttons = {} /\ \A n \in Nodes : ~on[n] BY DEF Init
<1>2. Current = {} BY DEF Init, Current
<1>. QED BY <1>1, <1>2 DEF ButtonInv, Obeys

LEMMA ButtonStep ==
    ASSUME SameNodes
    PROVE  TypeInv /\ PatientInv /\ ButtonInv /\ [Next]_vars => ButtonInv'
<1>. SUFFICES ASSUME TypeInv, PatientInv, ButtonInv, [Next]_vars, user'.patient
              PROVE  ButtonInv'
    BY DEF ButtonInv
<1>1. user' = user
    BY DEF Next, vars, window, Load, Deploy, Start, Stop, Poll, Connects, ConnectFails, Redials,
           Serve, Finish, Gui, OnConnected, OnDeployed, OnCommanded, OnStatus
<1>2. Watching BY <1>1 DEF Watching, Waiting, PatientInv
<1>3. ASSUME NEW p \in user.plans, Load(p) PROVE ButtonInv' BY <1>2, <1>3, ObeysLoad
<1>4. CASE Deploy \/ Start \/ Stop \/ Poll BY <1>2, <1>4, ObeysClicks
<1>5. ASSUME NEW r \in Remotes, Connects(r) \/ ConnectFails(r) \/ Redials(r) PROVE ButtonInv'
    <2>1. asked[r] = <<>> BY <1>2, <1>5, WaitingMeans DEF Watching, Connects, ConnectFails, Redials
    <2>2. asked' = asked
        BY <1>2, <1>5, <2>1 DEF Connects, ConnectFails, Redials, TypeInv, TypeOK
    <2>3. UNCHANGED <<user, loads, plan, on, buttons>>
        BY <1>5 DEF Connects, ConnectFails, Redials, window, nodeVars
    <2>. QED BY <1>2, <2>2, <2>3, ObeysRest
<1>6. ASSUME NEW r \in Remotes, Serve(r) PROVE ButtonInv' BY <1>2, <1>6, ObeysServe
<1>7. ASSUME NEW r \in Remotes, Finish(r) PROVE ButtonInv'
    <2>1. UNCHANGED <<user, loads, plan, asked, on, buttons>>
        BY <1>7 DEF Finish, window, nodeVars
    <2>. QED BY <1>2, <2>1, ObeysRest
<1>8. CASE Gui BY <1>2, <1>8, ObeysGui
<1>9. CASE UNCHANGED vars
    <2>1. UNCHANGED <<user, loads, plan, asked, on, buttons>>
        BY <1>9 DEF vars, window, nodeVars
    <2>. QED BY <1>2, <2>1, ObeysRest
<1>. QED BY <1>3, <1>4, <1>5, <1>6, <1>7, <1>8, <1>9 DEF Next

\* Once the answers are in, the buttons tell a patient user what the nodes do, as long
\* as all schemas are about the same nodes.
THEOREM ButtonsAgree ==
    ASSUME SameNodes PROVE Spec => []ButtonsTell
<1>1. TypeInv /\ PatientInv /\ ButtonInv => ButtonsTell
    <2>. SUFFICES ASSUME TypeInv, PatientInv, ButtonInv, user.patient, Settled,
                         NEW r \in Current
                  PROVE  on[NodeOf(r)] <=> "stop" \in buttons
        BY DEF ButtonsTell
    <2>1. Watching BY DEF Watching, Waiting, PatientInv
    <2>2. r \in Remotes BY CurrentRemotes
    <2>3. \A i \in DOMAIN asked[r] : asked[r][i].kind = "status" BY <2>2 DEF Settled
    <2>. QED BY <2>1, <2>3, ObeyMeans
<1>. QED BY <1>1, TypeInit, TypeStep, PatientInit, PatientStep, ButtonInit, ButtonStep,
            PTL DEF Spec
=============================================================================
