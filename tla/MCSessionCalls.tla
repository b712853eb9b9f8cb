--------------------------- MODULE MCSessionCalls ---------------------------
(* Instances of SessionCalls for TLC. *)
EXTENDS SessionCalls

CONSTANTS c1, c2

\* Two clients that chose the same id, the one the handshake uses too.
SameID == [c \in {c1, c2} |-> 1]
=============================================================================
