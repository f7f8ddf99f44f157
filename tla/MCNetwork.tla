----------------------------- MODULE MCNetwork -----------------------------
(***************************************************************************)
(* Configurations for Network: one node dials another, which moves to      *)
(* another port and back, or is not needed any more.                       *)
(***************************************************************************)
EXTENDS Network

CONSTANTS x, y, p, q

At(i, j) == [n \in {x, y} |-> IF n = x THEN i ELSE j]
Near == [port |-> At(p, p), routes |-> {<<x, y>>}]
Moved == [port |-> At(p, q), routes |-> {<<x, y>>}]
Apart == [port |-> At(p, q), routes |-> {}]

ThreeConfigs == {Near, Moved, Apart}
=============================================================================
