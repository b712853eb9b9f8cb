--------------------------- MODULE MCServiceLoop ---------------------------
(* Instances of ServiceLoop for TLC. *)
EXTENDS ServiceLoop, TLC

CONSTANTS u1, u2

Symmetry == Permutations({u1, u2})
=============================================================================
