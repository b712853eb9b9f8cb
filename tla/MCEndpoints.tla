----------------------------- MODULE MCEndpoints -----------------------------
(* Instances of Endpoints for TLC. *)
EXTENDS Endpoints

CONSTANTS a1, a2, c1, c2, e1

P(d, c, l) == [delivery |-> d, command |-> c, localAddr |-> l]

\* In process, exec, exec that does not parse, forward.
AllDeliveries == {P("", FALSE, FALSE), P("", TRUE, TRUE), P("exec", FALSE, FALSE), P("forward", FALSE, TRUE)}
TwoDeliveries == {P("", FALSE, FALSE), P("exec", TRUE, FALSE)}

\* One Listen for any endpoint and one for e1.
Wants == [a \in {a1, a2} |-> IF a = a1 THEN NoID ELSE e1]

Setup(h, cs, as, n) == [hooked |-> h, conns |-> cs, apps |-> as, msgs |-> n]

\* Two connections and one listener over three messages; two Listen calls and
\* one connection; the watcher and a login against a Listen.
AllSetups == {Setup(FALSE, {c1, c2}, {a2}, 3), Setup(FALSE, {c1}, {a1, a2}, 2), Setup(TRUE, {}, {a1}, 2)}
WatchedSetup == {Setup(TRUE, {}, {a1}, 2)}
=============================================================================
