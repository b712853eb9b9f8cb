--------------------------- MODULE MCProcessLife ---------------------------
EXTENDS ProcessLife, TLC

CONSTANTS s1, s2, u1, u2, p1, p2

\* Pids are alike, and so are updates; the sessions are not.
Alike == {f @@ g : f \in Permutations(Pids), g \in Permutations(Updaters)}
=============================================================================
