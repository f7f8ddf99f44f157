------------------------------ MODULE Terminal ------------------------------
(***************************************************************************)
(* The terminal and the nodes it commands (terminal/src/mainwindow.cpp,    *)
(* remotenode.cpp, treemodel.cpp).                                         *)
(*                                                                         *)
(* Loading a schema makes one RemoteNode per node, each with a protolink   *)
(* client.  The clients run on the service thread; what they report is     *)
(* queued for the GUI thread, which also runs the user's clicks and the    *)
(* status timer.  Loading again replaces the RemoteNodes while the clients *)
(* of the old ones may have answers to come.                               *)
(*                                                                         *)
(* A RemoteNode is the number of its load and its node.  A link is what    *)
(* module Delivery promises: in order, at most once.  Of a router there    *)
(* remain the number of its components and whether it is started.          *)
(***************************************************************************)
EXTENDS Integers, Sequences, FiniteSets, SequencesExt

CONSTANTS
    Nodes,       \* node processes
    Users,       \* who may sit at the terminal: whether patient, which acts only when
                 \* all is connected and answered; the schemas it may load, as the number
                 \* of components of every node; bounds on loads and clicks
    MaxLoads, MaxClicks, MaxSize, \* bounds on the loads and clicks of any of them and
                 \* on the components of a node
    MaxFails     \* bound: connection attempts that fail

Loads == 1 .. MaxLoads
Remotes == Loads \X Nodes
NodeOf(r) == r[2]

ASSUME TerminalAssumption ==
    /\ MaxLoads \in Nat /\ MaxClicks \in Nat /\ MaxSize \in Nat /\ MaxFails \in Nat
    /\ \A u \in Users :
        /\ u.patient \in BOOLEAN /\ u.loads \in 0 .. MaxLoads /\ u.clicks \in 0 .. MaxClicks
        /\ \A p \in u.plans : DOMAIN p \subseteq Nodes /\ p \in [DOMAIN p -> 0 .. MaxSize]

Commands == {"deploy", "start", "stop", "status"}
Messages == [kind : Commands, count : 0 .. MaxSize]

VARIABLES
    user,        \* who it is this time; never changes
    \* MainWindow
    loads,       \* schemas loaded so far
    plan,        \* deploy_config_
    deploying,
    buttons,     \* those of deploy, start and stop that are enabled
    pinned,      \* RemoteNodes that a TreeModel made by deploy() keeps
    events,      \* signals queued for the GUI thread
    \* RemoteNode and its client
    link,        \* "none", "dialling", "waiting" to dial again, "up", "gone"
    asked,       \* requests on their way to the node
    answers,     \* responses on their way back
    rows,        \* size of components_
    \* The nodes
    size, on,
    \* History
    clicks, fails,
    deployed,    \* the load that was deployed last
    fault        \* what the GUI thread did that has no defined behaviour

window == <<user, loads, plan, deploying, buttons, pinned>>
nodeVars == <<size, on>>
bounds == <<clicks, fails>>
vars == <<window, events, link, asked, answers, rows, nodeVars, bounds, deployed,
          fault>>

Current == {loads} \X DOMAIN plan
Events == [of : Remotes, kind : Commands \cup {"connected", "failed"},
           count : 0 .. MaxSize]

TypeOK ==
    /\ user \in Users
    /\ loads \in 0 .. MaxLoads /\ deployed \in 0 .. MaxLoads
    /\ DOMAIN plan \subseteq Nodes /\ plan \in [DOMAIN plan -> 0 .. MaxSize]
    /\ deploying \in BOOLEAN /\ buttons \subseteq {"deploy", "start", "stop"}
    /\ pinned \subseteq Remotes
    /\ events \in Seq(Events)
    /\ link \in [Remotes -> {"none", "dialling", "waiting", "up", "gone"}]
    /\ asked \in [Remotes -> Seq(Messages)] /\ answers \in [Remotes -> Seq(Messages)]
    /\ rows \in [Remotes -> 0 .. MaxSize]
    /\ size \in [Nodes -> 0 .. MaxSize] /\ on \in [Nodes -> BOOLEAN]
    /\ clicks \in 0 .. MaxClicks /\ fails \in 0 .. MaxFails
    /\ fault \in {"none", "row", "index", "sender"}

\* The nodes have just been started.
Init ==
    /\ user \in Users
    /\ loads = 0 /\ plan = [n \in {} |-> 0] /\ deploying = FALSE
    /\ buttons = {} /\ pinned = {} /\ events = <<>>
    /\ link = [r \in Remotes |-> "none"]
    /\ asked = [r \in Remotes |-> <<>>] /\ answers = [r \in Remotes |-> <<>>]
    /\ rows = [r \in Remotes |-> 0]
    /\ size = [n \in Nodes |-> 0] /\ on = [n \in Nodes |-> FALSE]
    /\ clicks = 0 /\ fails = 0 /\ deployed = 0 /\ fault = "none"

-----------------------------------------------------------------------------
(* Who is alive *)

Awaits(r) == asked[r] # <<>> \/ answers[r] # <<>>

\* The handlers of a client hold the client, and the client its RemoteNode; the
\* list of the window and the TreeModels made by deploy() hold RemoteNodes too.
Exists(r) ==
    r \in Current \/ r \in pinned \/ link[r] \in {"dialling", "waiting"} \/ Awaits(r)

\* Nothing is on its way but polls of the status.
Settled ==
    /\ \A r \in Remotes : \A s \in {asked[r], answers[r]} :
           \A i \in DOMAIN s : s[i].kind = "status"
    /\ \A i \in DOMAIN events : events[i].kind = "status"

Calm ==
    user.patient =>
        /\ \A r \in Current : link[r] = "up"
        /\ \A r \in Remotes : ~Awaits(r)
        /\ events = <<>>

Sane == fault = "none"

-----------------------------------------------------------------------------
(* The user *)

\* prepare_shutdown and reset of the client: one that waits dials once more, one
\* with nothing to wait for is gone.
ShutDown(r) ==
    CASE link[r] = "waiting" -> "dialling"
      [] link[r] = "up" /\ ~Awaits(r) -> "gone"
      [] OTHER -> link[r]

\* Wrong: polling goes on while a schema is loaded.
LoadKeepsPolling(p) ==
    /\ Sane /\ Calm /\ loads < user.loads
    /\ loads' = loads + 1
    /\ plan' = p
    /\ link' = [r \in Remotes |-> IF r \in Current THEN ShutDown(r)
                                  ELSE IF r \in {loads + 1} \X DOMAIN p THEN "dialling"
                                  ELSE link[r]]
    /\ UNCHANGED <<user, deploying, buttons, pinned, events, asked, answers, rows, nodeVars,
                   bounds, deployed, fault>>

\* button_clickedSetup, createRemoteNodes
Load(p) ==
    /\ Sane /\ Calm /\ loads < user.loads
    /\ loads' = loads + 1
    /\ plan' = p
    /\ deploying' = TRUE
    /\ link' = [r \in Remotes |-> IF r \in Current THEN ShutDown(r)
                                  ELSE IF r \in {loads + 1} \X DOMAIN p THEN "dialling"
                                  ELSE link[r]]
    /\ UNCHANGED <<user, buttons, pinned, events, asked, answers, rows, nodeVars, bounds,
                   deployed, fault>>

Ask(r, kind) == [kind |-> kind, count |-> IF kind = "deploy" THEN plan[NodeOf(r)] ELSE 0]

\* async_deploy, async_start, async_stop, async_status on every RemoteNode: what is
\* sent while the client waits to dial again is lost.
Asks(kind, S) ==
    asked' = [r \in Remotes |-> IF r \in S /\ link[r] \in {"dialling", "up"}
                                THEN Append(asked[r], Ask(r, kind)) ELSE asked[r]]

Clicks(button) ==
    /\ Sane /\ Calm /\ button \in buttons
    /\ clicks < user.clicks /\ clicks' = clicks + 1

\* Wrong: the RemoteNodes are not kept.
DeployFrees ==
    /\ Clicks("deploy")
    /\ buttons' = (buttons \ {"deploy"})
                  \cup (IF buttons \cap {"start", "stop"} = {} THEN {"start"} ELSE {})
    /\ Asks("deploy", Current)
    /\ deployed' = loads
    /\ UNCHANGED <<user, loads, plan, deploying, pinned, events, link, answers, rows,
                   nodeVars, fails, fault>>

\* on_deploy_triggered, confirmed if need be, and deploy; the TreeModel it makes is
\* never deleted and keeps the RemoteNodes.
Deploy ==
    /\ Clicks("deploy")
    /\ buttons' = (buttons \ {"deploy"})
                  \cup (IF buttons \cap {"start", "stop"} = {} THEN {"start"} ELSE {})
    /\ Asks("deploy", Current)
    /\ pinned' = pinned \cup Current
    /\ deployed' = loads
    /\ UNCHANGED <<user, loads, plan, deploying, events, link, answers, rows, nodeVars,
                   fails, fault>>

\* Wrong: the last node is left out.
StartSome ==
    /\ Clicks("start")
    /\ buttons' = (buttons \ {"start"}) \cup {"stop"}
    /\ \E r \in Current : Asks("start", Current \ {r})
    /\ UNCHANGED <<user, loads, plan, deploying, pinned, events, link, answers, rows,
                   nodeVars, fails, deployed, fault>>

\* on_start_triggered
Start ==
    /\ Clicks("start")
    /\ buttons' = (buttons \ {"start"}) \cup {"stop"}
    /\ Asks("start", Current)
    /\ UNCHANGED <<user, loads, plan, deploying, pinned, events, link, answers, rows,
                   nodeVars, fails, deployed, fault>>

\* on_stop_triggered
Stop ==
    /\ Clicks("stop")
    /\ buttons' = (buttons \ {"stop"}) \cup {"start"}
    /\ Asks("stop", Current)
    /\ UNCHANGED <<user, loads, plan, deploying, pinned, events, link, answers, rows,
                   nodeVars, fails, deployed, fault>>

Polled(r) ==
    \/ \E s \in {asked[r], answers[r]} : \E i \in DOMAIN s : s[i].kind = "status"
    \/ \E i \in DOMAIN events : events[i].of = r /\ events[i].kind = "status"

\* on_status_triggered, by the timer or by the user.  Bound: a node is not asked
\* again before its last status has been shown.
Poll ==
    /\ Sane /\ ~deploying
    /\ \E r \in Current : link[r] \in {"dialling", "up"} /\ ~Polled(r)
    /\ Asks("status", {r \in Current : ~Polled(r)})
    /\ UNCHANGED <<window, events, link, answers, rows, nodeVars, bounds, deployed, fault>>

-----------------------------------------------------------------------------
(* The service thread *)

Emit(r, kind, count) ==
    events' = Append(events, [of |-> r, kind |-> kind, count |-> count])

\* on_connect without an error: a client that was shut down stays only for what it
\* has sent meanwhile.
Connects(r) ==
    /\ Sane /\ link[r] = "dialling"
    /\ IF r \in Current
       THEN /\ link' = [link EXCEPT ![r] = "up"]
            /\ Emit(r, "connected", 0)
       ELSE /\ link' = [link EXCEPT ![r] = IF Awaits(r) THEN "up" ELSE "gone"]
            /\ UNCHANGED events
    /\ UNCHANGED <<window, asked, answers, rows, nodeVars, bounds, deployed, fault>>

ConnectFails(r) ==
    /\ Sane /\ link[r] = "dialling"
    /\ fails < MaxFails /\ fails' = fails + 1
    /\ asked' = [asked EXCEPT ![r] = <<>>]
    /\ IF r \in Current
       THEN /\ link' = [link EXCEPT ![r] = "waiting"]
            /\ Emit(r, "failed", 0)
       ELSE /\ link' = [link EXCEPT ![r] = "gone"]
            /\ UNCHANGED events
    /\ UNCHANGED <<window, answers, rows, nodeVars, clicks, deployed, fault>>

Redials(r) ==
    /\ Sane /\ link[r] = "waiting"
    /\ link' = [link EXCEPT ![r] = "dialling"]
    /\ UNCHANGED <<window, events, asked, answers, rows, nodeVars, bounds, deployed, fault>>

\* Wrong: a node that is started refuses to be deployed anew.
ServeRefuses(r) ==
    /\ Sane /\ link[r] = "up" /\ asked[r] # <<>>
    /\ LET m == Head(asked[r])
           n == NodeOf(r)
       IN  /\ size' = IF m.kind = "deploy" /\ ~on[n] THEN [size EXCEPT ![n] = m.count]
                                                     ELSE size
           /\ on' = CASE m.kind = "start" -> [on EXCEPT ![n] = TRUE]
                      [] m.kind = "stop" -> [on EXCEPT ![n] = FALSE]
                      [] OTHER -> on
           /\ answers' = [answers EXCEPT ![r] = Append(@, [m EXCEPT !.count = size'[n]])]
    /\ asked' = [asked EXCEPT ![r] = Tail(@)]
    /\ UNCHANGED <<window, events, link, rows, bounds, deployed, fault>>

\* A node handles the next request of a connection (process_deploy_request): a
\* deployment keeps the node started or stopped.
Serve(r) ==
    /\ Sane /\ link[r] = "up" /\ asked[r] # <<>>
    /\ LET m == Head(asked[r])
           n == NodeOf(r)
       IN  /\ size' = IF m.kind = "deploy" THEN [size EXCEPT ![n] = m.count] ELSE size
           /\ on' = CASE m.kind = "start" -> [on EXCEPT ![n] = TRUE]
                      [] m.kind = "stop" -> [on EXCEPT ![n] = FALSE]
                      [] OTHER -> on
           /\ answers' = [answers EXCEPT ![r] = Append(@, [m EXCEPT !.count = size'[n]])]
    /\ asked' = [asked EXCEPT ![r] = Tail(@)]
    /\ UNCHANGED <<window, events, link, rows, bounds, deployed, fault>>

\* Wrong: the client stays.
FinishStays(r) ==
    /\ Sane /\ answers[r] # <<>>
    /\ LET m == Head(answers[r]) IN Emit(r, m.kind, m.count)
    /\ answers' = [answers EXCEPT ![r] = Tail(@)]
    /\ UNCHANGED <<window, link, asked, rows, nodeVars, bounds, deployed, fault>>

\* A response: its signal is queued; a client that was shut down and has nothing
\* else to wait for goes, and with it perhaps its RemoteNode.
Finish(r) ==
    /\ Sane /\ answers[r] # <<>>
    /\ LET m == Head(answers[r]) IN Emit(r, m.kind, m.count)
    /\ answers' = [answers EXCEPT ![r] = Tail(@)]
    /\ link' = IF r \notin Current /\ asked[r] = <<>> /\ Len(answers[r]) = 1
               THEN [link EXCEPT ![r] = "gone"] ELSE link
    /\ UNCHANGED <<window, asked, rows, nodeVars, bounds, deployed, fault>>

-----------------------------------------------------------------------------
(* The GUI thread: queued signals *)

\* statusChanged and componentsChanged reach the TreeModel of the window, which
\* looks the sender up among the RemoteNodes it shows: -1 is no index.
Shown(r) == IF r \in Current \/ Current = {} THEN "none" ELSE "index"

\* sender() of a signal whose sender has been destroyed is null.
Logged(r) == IF Exists(r) THEN "none" ELSE "sender"

Signal(kinds) ==
    /\ Sane /\ events # <<>>
    /\ Head(events).kind \in kinds
    /\ events' = Tail(events)

\* RemoteNode's and then MainWindow's onConnected and onConnectionFailed.  The deploy
\* button stays as it is if the documents have been closed meanwhile.
OnConnected ==
    /\ Signal({"connected", "failed"})
    /\ LET e == Head(events) IN
        /\ fault' = IF Exists(e.of) THEN Shown(e.of) ELSE "sender"
        /\ \/ buttons' = buttons
           \/ e.kind = "connected" /\ buttons' = buttons \cup {"deploy"}
    /\ UNCHANGED <<user, loads, plan, deploying, pinned, link, asked, answers, rows,
                   nodeVars, bounds, deployed>>

\* Wrong: nobody resets the flag.
OnDeployedKeeps ==
    /\ Signal({"deploy"})
    /\ fault' = Logged(Head(events).of)
    /\ UNCHANGED <<window, link, asked, answers, rows, nodeVars, bounds, deployed>>

\* onDeployConfigRequestFinished
OnDeployed ==
    /\ Signal({"deploy"})
    /\ deploying' = FALSE
    /\ fault' = Logged(Head(events).of)
    /\ UNCHANGED <<user, loads, plan, buttons, pinned, link, asked, answers, rows, nodeVars,
                   bounds, deployed>>

\* onStartRequestFinished, onStopRequestFinished
OnCommanded ==
    /\ Signal({"start", "stop"})
    /\ fault' = Logged(Head(events).of)
    /\ UNCHANGED <<window, link, asked, answers, rows, nodeVars, bounds, deployed>>

\* Wrong: every status adds its rows.
OnStatusAdds ==
    /\ Signal({"status"})
    /\ LET e == Head(events)
           r == e.of
       IN  IF ~Exists(r) THEN UNCHANGED <<rows, fault>>
           ELSE /\ rows' = [rows EXCEPT ![r] = @ + e.count]
                /\ fault' = IF e.count > rows'[r] THEN "row" ELSE Shown(r)
    /\ UNCHANGED <<window, link, asked, answers, nodeVars, bounds, deployed>>

\* RemoteNode::onStatusRequestFinished: the first status that has components sizes
\* the rows, every status fills them.  MainWindow's slot leaves the sender alone.
OnStatus ==
    /\ Signal({"status"})
    /\ LET e == Head(events)
           r == e.of
       IN  IF ~Exists(r) THEN UNCHANGED <<rows, fault>>
           ELSE /\ rows' = IF rows[r] = 0 THEN [rows EXCEPT ![r] = e.count] ELSE rows
                /\ fault' = IF e.count > rows'[r] THEN "row" ELSE Shown(r)
    /\ UNCHANGED <<window, link, asked, answers, nodeVars, bounds, deployed>>

Gui == OnConnected \/ OnDeployed \/ OnCommanded \/ OnStatus

-----------------------------------------------------------------------------
Next ==
    \/ \E p \in user.plans : Load(p)
    \/ Deploy \/ Start \/ Stop \/ Poll
    \/ \E r \in Remotes :
        Connects(r) \/ ConnectFails(r) \/ Redials(r) \/ Serve(r) \/ Finish(r)
    \/ Gui

Spec == Init /\ [][Next]_vars

\* The service thread, the GUI thread, the status timer and the nodes go on; nobody
\* makes the user click.
Fairness ==
    /\ WF_vars(Gui) /\ WF_vars(Poll)
    /\ \A r \in Remotes :
        WF_vars(Connects(r)) /\ WF_vars(Redials(r)) /\ WF_vars(Serve(r)) /\ WF_vars(Finish(r))

FairSpec == Spec /\ Fairness

-----------------------------------------------------------------------------
(* Properties *)

\* The GUI thread never looks up a RemoteNode it no longer shows, never uses the
\* sender of a signal after it is gone, and never writes a component beyond the
\* rows that the first status made.  (the terminal lets one control and reload
\* the nodes)
NoFault == Sane

\* A patient user never brings the GUI thread to any of this, through any number of
\* loads, deployments and failed connections.
PatientSafe == user.patient => Sane

\* Once the answers are in, the buttons tell what the nodes do: all are started if
\* the user may only stop them, none if the user may only start them, through any
\* number of loads and deployments of the same nodes.
ButtonsTell ==
    (user.patient /\ Settled /\ deployed # 0 /\ \A r \in Current : link[r] = "up") =>
        \A r \in Current : on[NodeOf(r)] <=> "stop" \in buttons

\* Once the answers are in, every node has the components of the schema that was
\* deployed last.
LastDeployed ==
    (user.patient /\ Settled /\ deployed = loads) =>
        \A r \in Current : size[NodeOf(r)] = plan[NodeOf(r)]

\* However hasty the user is, the answer to a deployment finds its RemoteNode: the
\* TreeModel that deploy() leaks is what keeps it.  (onDeployConfigRequestFinished
\* asks the sender for its name whether or not there was an error)
DeploymentReported ==
    \A i \in DOMAIN events : events[i].kind = "deploy" => Exists(events[i].of)

\* However hasty the user is, the client of a RemoteNode that was replaced goes once
\* it has nothing to wait for: shutdown() leaves no one dialling or connected.
OldClientsGo ==
    \A r \in Remotes :
        (link[r] # "none" /\ r \notin Current) ~> (link[r] = "gone" \/ ~Sane)

\* A deployed schema is followed by a status of every node that shows its
\* components, unless another one is loaded.
StatusShown ==
    \A l \in Loads :
        user.patient /\ deployed = l ~>
            loads # l \/ \A r \in Current : rows[r] = plan[NodeOf(r)]
=============================================================================
