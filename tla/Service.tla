------------------------------- MODULE Service -------------------------------
(***************************************************************************)
(* What a node promises the terminal that commands it, as if it had no     *)
(* threads, routers or component objects: it has a set of components and is*)
(* started or stopped; requests take effect one at a time, each at once and*)
(* before it is answered; a deployment changes the components and nothing  *)
(* else.                                                                   *)
(***************************************************************************)
CONSTANT Components

Requests == [op : {"deploy"}, comps : SUBSET Components]
            \cup [op : {"set"}, on : BOOLEAN]     \* Start and Stop
            \cup [op : {"status"}]
Nothing == [op |-> "none"]

VARIABLES
    comps,     \* the components deployed
    on,        \* started or stopped
    state,     \* of the connection: "reading", "serving" a request, "queued" to read on
    request,   \* the request that has still to take effect
    answer     \* the components a status response names

vars == <<comps, on, state, request, answer>>

Init == comps = {} /\ on = FALSE /\ state = "reading" /\ request = Nothing /\ answer = {}

Asks(q) ==
    /\ state = "reading"
    /\ state' = "serving" /\ request' = q
    /\ UNCHANGED <<comps, on, answer>>

Pending(op) == state = "serving" /\ request.op = op

Deploys ==
    /\ Pending("deploy")
    /\ comps' = request.comps /\ request' = Nothing
    /\ UNCHANGED <<on, state, answer>>

Sets ==
    /\ Pending("set")
    /\ on' = request.on /\ request' = Nothing
    /\ UNCHANGED <<comps, state, answer>>

Reports ==
    /\ Pending("status")
    /\ answer' = comps /\ state' = "queued" /\ request' = Nothing
    /\ UNCHANGED <<comps, on>>

Answers ==
    /\ state = "serving" /\ request = Nothing
    /\ state' = "queued"
    /\ UNCHANGED <<comps, on, request, answer>>

ReadsOn ==
    /\ state = "queued"
    /\ state' = "reading" /\ answer' = {}
    /\ UNCHANGED <<comps, on, request>>

Next == (\E q \in Requests : Asks(q)) \/ Deploys \/ Sets \/ Reports \/ Answers \/ ReadsOn

Spec == Init /\ [][Next]_vars
=============================================================================
