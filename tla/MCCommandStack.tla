--------------------------- MODULE MCCommandStack ---------------------------
(***************************************************************************)
(* CommandStack for TLC: one command with every kind of function and two   *)
(* DCFs, and one without DCFs, whose dispatch takes the early return.      *)
(***************************************************************************)
EXTENDS CommandStack, TLC

CONSTANTS query, show   \* the two commands

MCCmds == {query, show}
MCNumValCFs == query :> 1 @@ show :> 0
MCNumDCFs   == query :> 2 @@ show :> 0
MCNumVCFs   == query :> 1 @@ show :> 1
MCNumECFs   == query :> 0 @@ show :> 1
=============================================================================
