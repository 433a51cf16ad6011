--------------------------- MODULE StackLifecycle ---------------------------
(***************************************************************************)
(* What the command-stack engine promises the application, without the     *)
(* call stack, the handlers and the generators of CommandStack:            *)
(*   - one stack owns the engine at a time;                                *)
(*   - a stack's data functions run one after the other, none twice, and   *)
(*     all of them before its view functions;                              *)
(*   - between two of them the stack may give the engine up and take it    *)
(*     again later;                                                        *)
(*   - once closed it does nothing more.                                   *)
(* It does not promise that a stack shows its views once: an answer that   *)
(* arrives after all data functions have run shows them again.             *)
(***************************************************************************)
EXTENDS Naturals

CONSTANTS Stacks,   \* the stacks ever started
          None      \* no stack, hence not one of Stacks

VARIABLES
  status,   \* status[s]: "new", "open" or "closed"
  need,     \* need[s]: how many data functions s has, once it is open
  done,     \* done[s]: how many of them it has called
  owner,    \* the stack that has the engine
  viewing   \* one of the owner's view functions is running

vars == <<status, need, done, owner, viewing>>

Init ==
  /\ status = [s \in Stacks |-> "new"]
  /\ need = [s \in Stacks |-> 0]
  /\ done = [s \in Stacks |-> 0]
  /\ owner = None
  /\ viewing = FALSE

Open(s) ==
  /\ owner = None
  /\ status[s] = "new"
  /\ status' = [status EXCEPT ![s] = "open"]
  /\ need'[s] \in Nat
  /\ need' = [need EXCEPT ![s] = need'[s]]
  /\ owner' = s
  /\ UNCHANGED <<done, viewing>>

Resume(s) ==
  /\ owner = None
  /\ status[s] = "open"
  /\ owner' = s
  /\ UNCHANGED <<status, need, done, viewing>>

RunData(s) ==
  /\ owner = s
  /\ status[s] = "open"
  /\ ~viewing
  /\ done[s] < need[s]
  /\ done' = [done EXCEPT ![s] = @ + 1]
  /\ UNCHANGED <<status, need, owner, viewing>>

RunView(s) ==
  /\ owner = s
  /\ status[s] = "open"
  /\ done[s] = need[s]
  /\ viewing' = TRUE
  /\ UNCHANGED <<status, need, done, owner>>

EndView(s) ==
  /\ owner = s
  /\ viewing
  /\ viewing' = FALSE
  /\ UNCHANGED <<status, need, done, owner>>

Close(s) ==
  /\ owner = s
  /\ status[s] = "open"
  /\ ~viewing
  /\ status' = [status EXCEPT ![s] = "closed"]
  /\ UNCHANGED <<need, done, owner, viewing>>

Release(s) ==
  /\ owner = s
  /\ ~viewing
  /\ owner' = None
  /\ UNCHANGED <<status, need, done, viewing>>

Next == \E s \in Stacks :
  \/ Open(s) \/ Resume(s)
  \/ RunData(s) \/ RunView(s) \/ EndView(s)
  \/ Close(s) \/ Release(s)

Spec == Init /\ [][Next]_vars
=============================================================================
