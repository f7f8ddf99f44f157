----------------------------- MODULE NodeService -----------------------------
(***************************************************************************)
(* A node with one terminal implements Service.  While a deployment has a  *)
(* new router but not yet its components, what counts is the old router;   *)
(* between the components and start() the node counts as started, if it    *)
(* was.                                                                    *)
(***************************************************************************)
EXTENDS Node

\* The connection of the terminal
Terminal == CHOOSE k \in Controls : TRUE

\* What the thread that serves a request is in the middle of
FrameOf(frames) ==
    LET serves(t) == frames[t].pc \in RequestSteps
    IN  IF \E t \in Threads : serves(t)
        THEN frames[CHOOSE t \in Threads : serves(t)] ELSE Idle
Frame == FrameOf(run)

\* The router that stands for the node
View == IF Frame.pc = "fill" THEN Frame.old ELSE cur

Restarts == Frame.pc = "set" /\ Frame.old # None /\ Frame.on
IsOn == started[View] \/ Restarts

Request ==
    IF Frame.pc \in {"prev", "swap", "fill"}
    THEN [op |-> "deploy", comps |-> Frame.conf.comps]
    ELSE IF Frame.pc = "set" /\ Frame.old = None THEN [op |-> "set", on |-> Frame.on]
    ELSE [op |-> IF Frame.pc = "status" THEN "status" ELSE "none"]

Serves == INSTANCE Service WITH
    Components <- Comps, comps <- conf[View].comps, on <- IsOn, state <- ctl[Terminal],
    request <- Request, answer <- {s.c : s \in reply[Terminal]}

\* To the terminal a node is a machine with a set of components and a switch:
\* every request takes effect at one moment between its arrival and its answer, a
\* deployment leaves the switch alone, Start and Stop the components, and a status
\* names the components of the last deployment, although the handler goes through
\* two routers and every component, and other threads run packets meanwhile.
\* (node::process_deploy_request, deploy_from_config)
ImplementsService == Serves!Spec
=============================================================================
