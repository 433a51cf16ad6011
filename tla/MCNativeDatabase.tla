--------------------------- MODULE MCNativeDatabase ---------------------------
(***************************************************************************)
(* NativeDatabase for TLC: two names of databases, which are two           *)
(* connections to one file.                                                *)
(***************************************************************************)
EXTENDS NativeDatabase, TLC

CONSTANTS d1, d2, s1, s2, s3, s4, s5, a1, a2, b1, b2, b3, c1

Script(d, changes) == [db |-> d, script |-> TRUE, statements |-> changes]
Single(d, q)       == [db |-> d, script |-> FALSE, statements |-> <<q>>]

\* Two scripts, with or without a connection of their own, and a query, all at
\* once; before or after, a transaction that the page begins and a script that fails
\* half-way, one at a time.
MixedJobs ==
  (s1 :> Script(d1, <<a1, a2>>)) @@ (s2 :> Script(d1, <<b1>>)) @@ (s3 :> Single(d1, Select))
    @@ (s4 :> Single(d2, Begin)) @@ (s5 :> Script(d1, <<c1, b2, b3>>))

\* The page begins a transaction, makes a change and rolls it back, one after the
\* other; two scripts run meanwhile.
PageTransaction ==
  (s1 :> Single(d1, Begin)) @@ (s2 :> Single(d1, c1)) @@ (s3 :> Single(d1, Rollback))
    @@ (s4 :> Script(d1, <<a1>>)) @@ (s5 :> Script(d1, <<b1>>))

PageOrder == [s \in Stacks |-> CASE s = s2 -> {s1} [] s = s3 -> {s1, s2} [] OTHER -> {}]

NoOrder == [s \in Stacks |-> {}]
=============================================================================
