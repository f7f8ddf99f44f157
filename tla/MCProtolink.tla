---------------------------- MODULE MCProtolink ----------------------------
(***************************************************************************)
(* Values for the constants of Protolink: a response is longer than what   *)
(* asks for it, and a frame may be longer than what the kernel takes.      *)
(***************************************************************************)
EXTENDS Protolink

Sizes == [k \in Kinds |-> IF k = "response" THEN 2 ELSE 1]
=============================================================================
