--------------------------------- MODULE Store ---------------------------------
(***************************************************************************)
(* What SQLite promises of a database file: it holds the image that the    *)
(* last committed transaction left, whatever fails.  Only the failure of   *)
(* the power may bring back the image before that, as a whole, and only    *)
(* until the deletion of the journal has reached the disk.                 *)
(***************************************************************************)
CONSTANT Images  \* the contents a file may have

VARIABLES
  image,  \* the content of the database
  before  \* the content a failure of the power may bring back

vars == <<image, before>>

TypeOK == image \in Images /\ before \in Images

Init == image \in Images /\ before = image

\* A transaction is committed.
Commit == image' \in Images \ {image} /\ before' = image

\* The last commit can no longer be lost.
Settle == before' = image /\ UNCHANGED image

\* The power fails.
PowerFails == image' \in {image, before} /\ before' = image'

Next == Commit \/ Settle \/ PowerFails

Spec == Init /\ [][Next]_vars
=============================================================================
