---------------------------- MODULE SessionLife ----------------------------
(***************************************************************************)
(* What the pool of stdio sessions promises about each session it makes,   *)
(* whoever calls it and in whatever order: it is started in a slot of its  *)
(* own, it is opened at most once, it leaves for good, and it is over only *)
(* when its child process has ended. There are never more slots taken than *)
(* the limit. Keys, endpoints, configurations, waiting callers and the     *)
(* goroutines that close sessions are not part of the promise.             *)
(***************************************************************************)
EXTENDS Integers, FiniteSets

CONSTANTS
  Sids,      \* sessions that may ever be created
  Limit      \* the number of slots

VARIABLES
  life,      \* new, starting, open, leaving or over
  slots,     \* sessions that occupy a slot
  running    \* sessions whose child process runs

vars == <<life, slots, running>>

Init == life = [s \in Sids |-> "new"] /\ slots = {} /\ running = {}

\* A session is begun, in a slot that is free.
Create(s) ==
  /\ life[s] = "new" /\ Cardinality(slots) < Limit
  /\ life' = [life EXCEPT ![s] = "starting"]
  /\ slots' = slots \cup {s} /\ running' = running

\* A session is begun in the slot that another one has just left.
Replace(r, s) ==
  /\ life[r] = "open" /\ life[s] = "new" /\ Cardinality(slots \ {r}) < Limit
  /\ life' = [life EXCEPT ![r] = "leaving", ![s] = "starting"]
  /\ slots' = (slots \ {r}) \cup {s} /\ running' = running

Spawn(s) ==
  /\ life[s] = "starting"
  /\ running' = running \cup {s} /\ UNCHANGED <<life, slots>>

\* The child may exit at any time.
Exit(s) ==
  /\ s \in running
  /\ running' = running \ {s} /\ UNCHANGED <<life, slots>>

\* The session could not be started; no child is left behind.
Abandon(s) ==
  /\ life[s] = "starting" /\ s \notin running
  /\ life' = [life EXCEPT ![s] = "over"]
  /\ slots' = slots \ {s} /\ running' = running

Establish(s) ==
  /\ life[s] = "starting"
  /\ life' = [life EXCEPT ![s] = "open"] /\ UNCHANGED <<slots, running>>

\* An open session gives up its slot before it is closed.
Drop(s) ==
  /\ life[s] = "open"
  /\ life' = [life EXCEPT ![s] = "leaving"]
  /\ slots' = slots \ {s} /\ running' = running

\* Open sessions leave together and keep their slots until they are closed.
Detach(D) ==
  /\ \A s \in D : life[s] = "open"
  /\ life' = [s \in Sids |-> IF s \in D THEN "leaving" ELSE life[s]]
  /\ UNCHANGED <<slots, running>>

Close(s) ==
  /\ life[s] = "leaving" /\ s \notin running
  /\ life' = [life EXCEPT ![s] = "over"]
  /\ slots' = slots \ {s} /\ running' = running

Next ==
  \/ \E s \in Sids : Create(s) \/ Spawn(s) \/ Exit(s) \/ Abandon(s) \/ Establish(s)
                     \/ Drop(s) \/ Close(s)
  \/ \E r, s \in Sids : Replace(r, s)
  \/ \E D \in SUBSET Sids : Detach(D)

Spec == Init /\ [][Next]_vars
=============================================================================
