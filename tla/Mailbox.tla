------------------------------- MODULE Mailbox -------------------------------
(***************************************************************************)
(* What each direction of the bridge between the page and the native       *)
(* library promises: messages are put in one by one and taken out all at   *)
(* once, so that the receiver sees every message once and in order.  A     *)
(* lossy mailbox may lose everything that is in it, never a part of it.    *)
(***************************************************************************)
EXTENDS Sequences

CONSTANTS Messages,  \* what is sent
          Lossy      \* whether the contents of the box may be lost

VARIABLES box,    \* the messages put in and not yet taken out
          taken   \* all the messages ever taken out, in order

vars == <<box, taken>>

Init == box = <<>> /\ taken = <<>>

Put(m) == /\ box' = Append(box, m)
          /\ UNCHANGED taken

Take == /\ taken' = taken \o box
        /\ box' = <<>>

Lose == /\ Lossy
        /\ box' = <<>>
        /\ UNCHANGED taken

Next == (\E m \in Messages : Put(m)) \/ Take \/ Lose

Spec == Init /\ [][Next]_vars
=============================================================================
