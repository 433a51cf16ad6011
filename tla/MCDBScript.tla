------------------------------ MODULE MCDBScript ------------------------------
(***************************************************************************)
(* DBScript for TLC: the bounds are in the configurations.                 *)
(***************************************************************************)
EXTENDS DBScript
=============================================================================
