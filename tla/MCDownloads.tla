----------------------------- MODULE MCDownloads -----------------------------
(***************************************************************************)
(* Downloads for TLC: two batches, one of which gets the same file twice,  *)
(* and single commands over the same two names, the overwriting one of     *)
(* them without a key; a batch of nothing, and one with names but too few  *)
(* URLs.                                                                   *)
(***************************************************************************)
EXTENDS Downloads

CONSTANTS batch, twice, single, over, empty, uneven, f, g

MCWanted ==
  [c \in Commands |->
     CASE c = batch  -> <<f, g>>
       [] c = twice  -> <<g, g>>
       [] c = uneven -> <<f, g>>
       [] c = single -> <<f>>
       [] c = over   -> <<f>>
       [] c = empty  -> <<>>]
=============================================================================
