---------------------------- MODULE MCServerAccess ----------------------------
(***************************************************************************)
(* ServerAccess for TLC: the object o makes requests while others are      *)
(* under way, the object q makes one after the other.                      *)
(***************************************************************************)
EXTENDS ServerAccess

CONSTANTS o, q, r1, r2, r3, r4, r5

MCObjectOf == [r \in Requests |-> IF r \in {r1, r2} THEN o ELSE q]
=============================================================================
