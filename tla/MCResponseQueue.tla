--------------------------- MODULE MCResponseQueue ---------------------------
(***************************************************************************)
(* ResponseQueue for TLC: the bounds are in the configurations.            *)
(***************************************************************************)
EXTENDS ResponseQueue
=============================================================================
