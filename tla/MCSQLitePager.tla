----------------------------- MODULE MCSQLitePager -----------------------------
(***************************************************************************)
(* SQLitePager for TLC.                                                    *)
(***************************************************************************)
EXTENDS SQLitePager, TLC

CONSTANTS c1, c2

Connections == Permutations(Conns)
=============================================================================
