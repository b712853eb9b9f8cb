----------------------------- MODULE CallReturn -----------------------------
(***************************************************************************)
(* What a caller of Session.Call may rely on, whatever happens to the      *)
(* child process, the session and the other callers: a call ends at most   *)
(* once, and it ends with an answer only if the server answered that very  *)
(* request; it may fail at any time.                                       *)
(***************************************************************************)
CONSTANT Calls

VARIABLES
  st,      \* idle, pending, answered or failed
  served   \* calls whose request the server answered

vars == <<st, served>>

Init == st = [c \in Calls |-> "idle"] /\ served = {}

Begin(c) ==
  /\ st[c] = "idle"
  /\ st' = [st EXCEPT ![c] = "pending"] /\ served' = served

\* The server answers, possibly after the caller has given up.
Serve(c) ==
  /\ st[c] # "idle"
  /\ served' = served \cup {c} /\ st' = st

Answer(c) ==
  /\ st[c] = "pending" /\ c \in served
  /\ st' = [st EXCEPT ![c] = "answered"] /\ served' = served

Fail(c) ==
  /\ st[c] \in {"idle", "pending"}
  /\ st' = [st EXCEPT ![c] = "failed"] /\ served' = served

Next == \E c \in Calls : Begin(c) \/ Serve(c) \/ Answer(c) \/ Fail(c)

Spec == Init /\ [][Next]_vars
=============================================================================
