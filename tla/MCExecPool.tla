----------------------------- MODULE MCExecPool -----------------------------
(* Instances of ExecPool for TLC. *)
EXTENDS ExecPool, TLC

CONSTANTS c1, c2, e1, s1, s2, s3

\* The bridge's choice of key: the endpoint id.
OneKey == [k \in {e1} |-> k]

Symmetry == Permutations(Callers)
=============================================================================
