--------------------------- MODULE MCMessagePolling ---------------------------
(***************************************************************************)
(* MessagePolling for TLC.                                                 *)
(***************************************************************************)
EXTENDS MessagePolling
=============================================================================
