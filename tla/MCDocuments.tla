---------------------------- MODULE MCDocuments ----------------------------
(***************************************************************************)
(* Documents and paths for Documents.                                      *)
(***************************************************************************)
EXTENDS Documents

CONSTANTS p, q
=============================================================================
