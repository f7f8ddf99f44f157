----------------------------- MODULE MCTerminal -----------------------------
(***************************************************************************)
(* Users for Terminal, and their schemas: two nodes with one component or  *)
(* two on either for one who waits, one node for one who does not.         *)
(***************************************************************************)
EXTENDS Terminal

CONSTANTS x, y

Two(i, j) == [n \in {x, y} |-> IF n = x THEN i ELSE j]
SamePlans == {Two(1, 2), Two(2, 1)}
OneNode == {[n \in {x} |-> 2]}

PatientUser == [patient |-> TRUE, loads |-> 3, clicks |-> 4, plans |-> SamePlans]
HastyUser == [patient |-> FALSE, loads |-> 3, clicks |-> 2, plans |-> OneNode]
BothUsers == {PatientUser, HastyUser}
JustHasty == {HastyUser}
=============================================================================
