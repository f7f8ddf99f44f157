------------------------------ MODULE Delivery ------------------------------
(***************************************************************************)
(* What a protolink client promises the application that sends through it: *)
(* packets are numbered as they are sent; the other end receives some of   *)
(* them, in that order and each at most once; a request is answered at most*)
(* once, and only if the other end received it.                            *)
(***************************************************************************)
EXTENDS Naturals, Sequences

CONSTANT Sent      \* numbers of packets

VARIABLES
    calls,         \* packets sent so far
    received,      \* numbers of the packets received, in order
    answered       \* numbers of the requests answered, in order

vars == <<calls, received, answered>>

In(id, s) == \E i \in DOMAIN s : s[i] = id

Init == calls = 0 /\ received = <<>> /\ answered = <<>>

Send ==
    /\ calls + 1 \in Sent
    /\ calls' = calls + 1
    /\ UNCHANGED <<received, answered>>

Receive(id) ==
    /\ id <= calls
    /\ \A i \in DOMAIN received : received[i] < id
    /\ received' = Append(received, id)
    /\ UNCHANGED <<calls, answered>>

Answer(id) ==
    /\ In(id, received) /\ ~In(id, answered)
    /\ answered' = Append(answered, id)
    /\ UNCHANGED <<calls, received>>

Next == Send \/ \E id \in Sent : Receive(id) \/ Answer(id)

Spec == Init /\ [][Next]_vars
=============================================================================
